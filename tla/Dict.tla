-------------------------------- MODULE Dict --------------------------------
(***************************************************************************)
(* The hash table of Objects/dictobject.c, with comparisons of keys that   *)
(* change the table.                                                       *)
(*                                                                         *)
(* lookdict() calls the __eq__ method of a key, which may use the same     *)
(* dictionary.  A call that is suspended in such a comparison is `look';   *)
(* meanwhile other calls run from beginning to end.  The calls they        *)
(* suspend in turn are left out: one suspended call and any number of      *)
(* complete ones meet in every way that two calls can.                     *)
(*                                                                         *)
(* A value is represented by the class of equal keys it was stored for.    *)
(***************************************************************************)
EXTENDS Integers, FiniteSets, FiniteSetsExt

CONSTANTS
    Keys,       \* key objects
    Hash,       \* Hash[k], the hash of key k
    Class,      \* Class[k], the keys that compare equal to k, as a value
    Addresses,  \* memory that malloc may return for a table
    NULL,       \* no key or value, and no call
    PyDict_MINSIZE,  \* slots of the small table: 8 in the code
    GrowthRate,      \* a full table grows to more than GrowthRate * used: 4 in the code
    MaxDoublings     \* bound: the largest table is 2^MaxDoublings small ones

ASSUME DictAssumption ==
    /\ Hash \in [Keys -> Nat]
    /\ \A k, l \in Keys : Class[k] = Class[l] => Hash[k] = Hash[l]
    /\ NULL \notin Keys /\ NULL \notin {Class[k] : k \in Keys}
    /\ "dummy" \notin Keys \cup {NULL} /\ "smalltable" \notin Addresses
    /\ {PyDict_MINSIZE, MaxDoublings} \subseteq Nat \ {0} /\ GrowthRate \in Nat \ {0, 1}

VARIABLES
    slots,    \* ma_table, a function on 0..ma_mask
    used,     \* ma_used
    fill,     \* ma_fill
    address,  \* where ma_table is: "smalltable" or malloced
    look,     \* the suspended call, or NULL
    dirty,    \* history: slots that `look' has passed were changed
    spoiled,  \* history: a call has ended in that state
    skipped   \* history: a call has not resized the table it filled

dictVars == <<slots, used, fill, address, look, dirty, spoiled, skipped>>

-----------------------------------------------------------------------------

PERTURB_SHIFT == 5

Size(t) == Cardinality(DOMAIN t)
Active(t) == {i \in DOMAIN t : t[i].value # NULL}
EmptySlot == [key |-> NULL, value |-> NULL]
DummySlot == [key |-> "dummy", value |-> NULL]
Empty(size) == [i \in 0..size - 1 |-> EmptySlot]

(* The sizes a table may have: the loop of dictresize doubles them.        *)
SizeAfter[j \in 0..MaxDoublings] ==
    IF j = 0 THEN PyDict_MINSIZE ELSE 2 * SizeAfter[j - 1]
Sizes == {SizeAfter[j] : j \in 0..MaxDoublings}

(* The slots that are probed for hash h, in their order.                   *)
ProbesOf(h, size) ==
    LET step[n \in 0..2 * size] ==
          IF n = 0 THEN [i |-> h % size, perturb |-> h]
          ELSE LET s == step[n - 1] IN
               [i |-> (5 * s.i + s.perturb + 1) % size,
                perturb |-> s.perturb \div 2^PERTURB_SHIFT]
    IN [n \in 0..2 * size |-> step[n].i]
ProbeSequence ==
    [h \in {Hash[k] : k \in Keys} |-> [size \in Sizes |-> ProbesOf(h, size)]]
Probe(t, k) == ProbeSequence[Hash[k]][Size(t)]

(* The comment on the probes (lines 65-97): once the shifts have made      *)
(* perturb zero, 5j+1 visits every slot.  For hashes of 32 bits, twice as  *)
(* many probes as slots are enough in a table of 8 slots or more.          *)
ASSUME ProbesReachAll ==
    \A k \in Keys, size \in Sizes : \A i \in 0..size - 1 :
        \E n \in 0..2 * size : ProbeSequence[Hash[k]][size][n] = i

(* What lookdict ends at without a comparison, what it compares k with,    *)
(* and what it finds to be equal.                                          *)
Ends(k) == {NULL, k}
Compared(k) == {l \in Keys : Hash[l] = Hash[k]}
Equal(k) == {l \in Keys : Class[l] = Class[k]}

(* The probes, not before the n-th, at which one of keys is found: the     *)
(* loop of lookdict stops at the first of them.                            *)
Stops(t, k, n, keys) ==
    LET p == Probe(t, k) IN {m \in n..2 * Size(t) : t[p[m]].key \in keys}

(* freeslot: the first dummy among the probes from..to - 1.                *)
FreeSlot(t, k, from, to) ==
    LET p == Probe(t, k)
        d == {m \in from..to - 1 : t[p[m]].key = "dummy"}
    IN IF d = {} THEN NULL ELSE p[Min(d)]

(* What a lookup that nothing interferes with returns.                     *)
Find(t, k) ==
    LET m == Min(Stops(t, k, 0, Ends(k) \cup Equal(k)))
        i == Probe(t, k)[m]
        free == FreeSlot(t, k, 0, m)
    IN IF t[i].key = NULL /\ free # NULL THEN free ELSE i
Terminates(t, k) == Stops(t, k, 0, Ends(k) \cup Equal(k)) # {}

-----------------------------------------------------------------------------

DictInit ==
    /\ slots = Empty(PyDict_MINSIZE) /\ used = 0 /\ fill = 0
    /\ address = "smalltable"
    /\ look = NULL
    /\ dirty = FALSE /\ spoiled = FALSE /\ skipped = FALSE

(* insertdict_clean(): the entry goes to the first unused slot.            *)
InsertClean(t, e) ==
    [t EXCEPT ![Probe(t, e.key)[Min(Stops(t, e.key, 0, {NULL}))]] = e]

(* Faulty: copies the slots one by one, dummies left out, at their places. *)
RebuiltInPlace(t, size) ==
    [i \in 0..size - 1 |->
       IF i \in DOMAIN t /\ t[i].value # NULL THEN t[i] ELSE EmptySlot]
(* The table with the active entries of t and nothing else.                *)
Rebuilt(t, size) ==
    LET copy[i \in 0..Size(t)] ==
          IF i = 0 THEN Empty(size)
          ELSE IF t[i - 1].value = NULL THEN copy[i - 1]
          ELSE InsertClean(copy[i - 1], t[i - 1])
    IN copy[Size(t)]

NewSize(minused) == Min({s \in Sizes : s > minused})

(* dictresize(minused), of table t with u active slots of f.  A small      *)
(* table without dummies stays as it is.  Bound: no table is larger than   *)
(* the largest of Sizes.                                                   *)
Resize(t, u, f, minused) ==
    LET size == NewSize(minused) IN
    /\ \E s \in Sizes : s > minused
    /\ slots' = IF size = PyDict_MINSIZE /\ Size(t) = size /\ f = u THEN t
                ELSE Rebuilt(t, size)
    /\ used' = u /\ fill' = u
    /\ address' \in IF size = PyDict_MINSIZE THEN {"smalltable"}
                    ELSE Addresses \ {address}

(* Faulty: looks at the active entries only to decide about resizing.      *)
SetItemUsed(i, k, n_used) ==
    LET e == slots[i]
        grows == e.value = NULL
        t == IF grows THEN [slots EXCEPT ![i] = [key |-> k, value |-> Class[k]]]
             ELSE [slots EXCEPT ![i].value = Class[k]]
        u == IF grows THEN used + 1 ELSE used
        f == IF e.key = NULL THEN fill + 1 ELSE fill
        crowded == 3 * u >= 2 * Size(t)
    IN /\ IF u > n_used /\ crowded THEN Resize(t, u, f, GrowthRate * u)
          ELSE slots' = t /\ used' = u /\ fill' = f /\ UNCHANGED address
       /\ skipped' = (skipped \/ (grows /\ crowded /\ u <= n_used))
(* insertdict_by_entry() at slot i and the rest of                         *)
(* dict_set_item_by_hash_or_entry(), with the ma_used it began with.       *)
SetItem(i, k, n_used) ==
    LET e == slots[i]
        grows == e.value = NULL
        t == IF grows THEN [slots EXCEPT ![i] = [key |-> k, value |-> Class[k]]]
             ELSE [slots EXCEPT ![i].value = Class[k]]
        u == IF grows THEN used + 1 ELSE used
        f == IF e.key = NULL THEN fill + 1 ELSE fill
        crowded == 3 * f >= 2 * Size(t)
    IN /\ IF u > n_used /\ crowded THEN Resize(t, u, f, GrowthRate * u)
          ELSE slots' = t /\ used' = u /\ fill' = f /\ UNCHANGED address
       /\ skipped' = (skipped \/ (grows /\ crowded /\ u <= n_used))

(* PyDict_DelItem(), after its lookup: a dummy replaces the entry.         *)
DelItem(i) ==
    /\ IF slots[i].value = NULL THEN UNCHANGED <<slots, used>>  \* KeyError
       ELSE slots' = [slots EXCEPT ![i] = DummySlot] /\ used' = used - 1
    /\ UNCHANGED <<fill, address, skipped>>

ClearTable ==
    /\ slots' = Empty(PyDict_MINSIZE) /\ used' = 0 /\ fill' = 0
    /\ address' = "smalltable"
    /\ UNCHANGED skipped

(* dict_popitem(): slot 0, or the first active one from the search finger, *)
(* which may be anywhere.                                                  *)
PopItem ==
    /\ used > 0
    /\ \E i \in Active(slots) :
         /\ 0 \in Active(slots) => i = 0
         /\ DelItem(i)

-----------------------------------------------------------------------------
(* The call that is suspended in comparisons.                              *)

(* lookdict() from the n-th probe to the next comparison or to its result. *)
(* Without a virgin slot it may loop for ever: there is no step then.      *)
Scan(call, n, free) ==
    LET p == Probe(slots, call.key)
        stops == Stops(slots, call.key, n, Ends(call.key) \cup Compared(call.key))
        m == Min(stops)
        f == IF free # NULL THEN free ELSE FreeSlot(slots, call.key, n, m)
        l == slots[p[m]].key
    IN /\ stops # {}
       /\ look' = [call EXCEPT
            !.at = IF l \in Ends(call.key) THEN "return" ELSE "compare",
            !.n = m, !.freeslot = f, !.startkey = l,
            !.ep0 = address, !.mask = Size(slots),
            !.ep = IF l = NULL /\ f # NULL THEN f ELSE p[m]]

(* A call takes the ma_used that it compares with later, and looks up.     *)
Call(op, k) ==
    /\ look = NULL
    /\ Scan([op |-> op, key |-> k, n_used |-> used, at |-> "compare", n |-> 0,
             freeslot |-> NULL, startkey |-> NULL, ep0 |-> address,
             mask |-> Size(slots), ep |-> 0], 0, NULL)
    /\ dirty' = FALSE
    /\ UNCHANGED <<slots, used, fill, address, spoiled, skipped>>

InCompare == look # NULL /\ look.at = "compare"
(* ma_table is at the old address, but it is a new table of another size:  *)
(* it was replaced twice.                                                  *)
Elsewhere == look.ep0 = address /\ look.mask # Size(slots)

(* Faulty: does not look whether the comparison has changed the entry.     *)
UntouchedTable == look.ep0 = address
(* The table and the key in it are what they were before the comparison.   *)
Untouched == look.ep0 = address /\ slots[look.ep].key = look.startkey

(* The comparison returns: start over, found, or go on.                    *)
CompareReturns ==
    /\ InCompare /\ ~Elsewhere
    /\ IF ~Untouched THEN Scan(look, 0, NULL) /\ dirty' = FALSE
       ELSE IF look.startkey \in Equal(look.key)
            THEN look' = [look EXCEPT !.at = "return"] /\ UNCHANGED dirty
       ELSE Scan(look, look.n + 1, look.freeslot) /\ UNCHANGED dirty
    /\ UNCHANGED <<slots, used, fill, address, spoiled, skipped>>

(* It returns to another table at the old address; what is at ep there is  *)
(* anything, and no property is about what follows.                        *)
CompareLost ==
    /\ InCompare /\ Elsewhere
    /\ look' = NULL /\ dirty' = FALSE /\ spoiled' = TRUE
    /\ UNCHANGED <<slots, used, fill, address, skipped>>

(* The comparison raises an exception, and so does the call.               *)
CompareRaises ==
    /\ InCompare
    /\ look' = NULL /\ dirty' = FALSE
    /\ UNCHANGED <<slots, used, fill, address, spoiled, skipped>>

(* The call does what it looked the slot up for.  A value that is replaced *)
(* may be deallocated before the table is examined once more.              *)
Return ==
    /\ look # NULL /\ look.at = "return"
    /\ CASE look.op = "set" -> SetItem(look.ep, look.key, look.n_used)
         [] look.op = "del" -> DelItem(look.ep)
         [] look.op = "get" -> UNCHANGED <<slots, used, fill, address, skipped>>
    /\ look' = IF look.op = "set" /\ slots[look.ep].value # NULL
               THEN [look EXCEPT !.at = "decref"] ELSE NULL
    /\ dirty' = FALSE
    /\ spoiled' = (spoiled \/ (dirty /\ look.op # "get"))

(* The old value is gone; the dictionary grows if others have added keys.  *)
Replaced ==
    /\ look # NULL /\ look.at = "decref"
    /\ IF used > look.n_used /\ 3 * fill >= 2 * Size(slots)
       THEN Resize(slots, used, fill, GrowthRate * used)
       ELSE UNCHANGED <<slots, used, fill, address>>
    /\ look' = NULL
    /\ UNCHANGED <<dirty, spoiled, skipped>>

(* A step changes a slot that the suspended lookup has passed, or replaces *)
(* the table, which the lookup may miss if it is replaced again.           *)
PassedSlotsChange ==
    \/ address' # address
    \/ /\ address' = look.ep0
       /\ \E m \in 0..look.n - 1 :
            LET i == Probe(slots, look.key)[m] IN slots'[i] # slots[i]

(* A complete call, by itself or inside a comparison.                      *)
WholeCall ==
    /\ look # NULL => look.at \in {"compare", "decref"}
    /\ \/ \E k \in Keys :
            /\ Terminates(slots, k)
            /\ LET i == Find(slots, k) IN SetItem(i, k, used) \/ DelItem(i)
       \/ ClearTable
       \/ PopItem
    /\ dirty' = (InCompare /\ (dirty \/ PassedSlotsChange))
    /\ UNCHANGED <<look, spoiled>>

DictNext ==
    \/ \E op \in {"get", "set", "del"}, k \in Keys : Call(op, k)
    \/ CompareReturns
    \/ CompareLost
    \/ CompareRaises
    \/ Return
    \/ Replaced
    \/ WholeCall

DictSpec == DictInit /\ [][DictNext]_dictVars

-----------------------------------------------------------------------------

(* Unless a call has used a slot that was looked up among slots that       *)
(* changed behind the lookup, the table is a map: keys are in it once, with *)
(* their own value.  A lookup returns the entry of the key if there is one  *)
(* at that moment, however often the table was changed or replaced during  *)
(* its comparisons, and a slot without a value if not.                     *)
LookupFinds ==
    ~spoiled =>
        /\ \A i, j \in Active(slots) : Class[slots[i].key] = Class[slots[j].key] => i = j
        /\ \A i \in Active(slots) : slots[i].value = Class[slots[i].key]
        /\ look # NULL /\ look.at = "return" /\ ~dirty =>
             IF slots[look.ep].value = NULL
             THEN \A i \in Active(slots) : slots[i].key \notin Equal(look.key)
             ELSE slots[look.ep].key \in Equal(look.key)

(* The comment above lookdict (lines 313-316) without the exception: "when *)
(* the key isn't found a PyDictEntry* is returned for which the me_value   *)
(* field is NULL".  The free slot it remembers may have been filled.       *)
LookupRight ==
    look # NULL /\ look.at = "return" =>
        slots[look.ep].value = NULL \/ slots[look.ep].key \in Equal(look.key)

(* A third of the slots is virgin, so that lookups end, and fill counts     *)
(* the others; but a call that compares ma_used with its value before its  *)
(* lookup may miss its turn to resize.                                     *)
VirginSlot ==
    /\ ~skipped => 3 * fill < 2 * Size(slots)
    /\ fill = Cardinality({i \in DOMAIN slots : slots[i].key # NULL})

(* A call that was suspended adds, replaces or removes its own key and     *)
(* nothing else, the resizing of the table included.                       *)
Pairs(t) == {<<Class[t[i].key], t[i].value>> : i \in Active(t)}
ReturnDoes ==
    [][/\ look # NULL /\ look.at = "decref" /\ look' = NULL =>
            Pairs(slots') = Pairs(slots)
       /\ look # NULL /\ look.at = "return" /\ ~dirty /\ ~spoiled =>
            LET pair == <<Class[look.key], Class[look.key]>> IN
            CASE look.op = "set" -> Pairs(slots') = Pairs(slots) \cup {pair}
              [] look.op = "del" -> Pairs(slots') = Pairs(slots) \ {pair}
              [] OTHER -> slots' = slots]_dictVars
=============================================================================
