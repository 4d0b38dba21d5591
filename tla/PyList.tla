-------------------------------- MODULE PyList --------------------------------
(***************************************************************************)
(* The list methods the modelled classes rely on (Objects/listobject.c).   *)
(***************************************************************************)
EXTENDS Integers, Sequences, Functions

\* s.pop(i)
DelItem(s, i) ==
  [j \in 1 .. (Len(s) - 1) |-> s[IF j < i THEN j ELSE j + 1]]

\* s.index(x): the first position of x, which is in the list.
Index(s, x) == CHOOSE i \in DOMAIN s : s[i] = x /\ \A j \in 1 .. (i - 1) : s[j] # x

\* s.remove(x), its ValueError ignored.
Remove(s, x) == IF x \in Range(s) THEN DelItem(s, Index(s, x)) ELSE s
===============================================================================
