------------------------------ MODULE QueueOrder ------------------------------
(***************************************************************************)
(* What Queue, LifoQueue and PriorityQueue override (Lib/Queue.py): which  *)
(* item get() takes.  The list holds the items in the order they were put; *)
(* the heap of a PriorityQueue is known by what it is popped in, not by    *)
(* the layout of its array.                                                *)
(***************************************************************************)
EXTENDS PyList

CONSTANT Order

\* What a client may rely on when it gives values to the constants.
OrderAssumption == Order \in {"fifo", "lifo", "priority"}

_put(q, x) == Append(q, x)

\* popleft(), pop() or heappop(): the place of the item in the order of puts.
_get(q) ==
  CASE Order = "fifo" -> 1
    [] Order = "lifo" -> Len(q)
    [] Order = "priority" -> CHOOSE i \in DOMAIN q : \A j \in DOMAIN q : q[i] <= q[j]
===============================================================================
