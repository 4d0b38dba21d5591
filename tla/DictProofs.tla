------------------------------ MODULE DictProofs ------------------------------
(***************************************************************************)
(* Proofs about Dict, for any finite number of equal and colliding keys    *)
(* and tables of any size: the table stays a map whatever comparisons do   *)
(* to it, lookups have a virgin slot to end at, and a suspended call does  *)
(* to the map what it was called for and nothing else.                     *)
(*                                                                         *)
(* That each slot is among the probes of each key is assumed               *)
(* (ProbesReachAll).  The facts about the recursive functions (the sizes,  *)
(* the probes, the copies of a resize) are shown by induction: the set of  *)
(* counterexamples would have a least element.                             *)
(***************************************************************************)
EXTENDS Dict, FiniteSetTheorems, WellFoundedInduction, TLAPS

-------------------------------------------------------------------------------
(* Induction over numbers, by the least counterexample.                    *)

\* A set of natural numbers that is not empty has a least element.
LEMMA LeastNumber ==
  ASSUME NEW T, T \subseteq Nat, T # {}
  PROVE  \E n \in T : \A m \in T : n <= m
<1> DEFINE Less == OpToRel(<, Nat)
<1>1. PICK n \in T : \A m \in T : ~ (<<m, n>> \in Less)
  BY Zenon, NatLessThanWellFounded, WFMin
<1>2. \A m \in T : ~ (m < n)
  BY <1>1 DEF OpToRel
<1> QED
  BY <1>2

\* A set that has 0, and with each number below N the next one, has those to N.
LEMMA CountUp ==
  ASSUME NEW S, NEW N \in Nat, 0 \in S, \A n \in 0..N - 1 : n \in S => n + 1 \in S
  PROVE  \A n \in 0..N : n \in S
<1> DEFINE T == (0..N) \ S
<1>1. SUFFICES ASSUME T # {} PROVE FALSE
  OBVIOUS
<1>2. T \subseteq Nat
  OBVIOUS
<1>3. \E n \in T : \A m \in T : n <= m
  <2> HIDE DEF T
  <2> QED
    BY <1>1, <1>2, LeastNumber
<1>4. PICK n \in T : \A m \in T : n <= m
  BY <1>3
<1>5. n \in 0..N /\ n # 0
  BY <1>4
<1>6. n - 1 \in 0..N - 1 /\ n - 1 \in S /\ n = (n - 1) + 1
  BY <1>4, <1>5
<1> QED
  BY <1>4, <1>6

\* Min is the least number of a set that is not empty.
LEMMA MinIsLeast ==
  ASSUME NEW T, T \subseteq Nat, T # {}
  PROVE  Min(T) \in T /\ \A m \in T : Min(T) <= m
<1>1. \E n \in T : \A m \in T : n <= m
  BY LeastNumber
<1> QED
  BY <1>1 DEF Min

\* A step for each number from 1 to N that stays in S.
StepsIn(S, N, G) == G \in [1..N -> [S -> S]]

\* What is defined from its predecessor, by steps that stay in S, exists: there is a
\* function like that on 0..N.
LEMMA Iterates ==
  ASSUME NEW S, NEW e \in S, NEW N \in Nat, NEW G, StepsIn(S, N, G)
  PROVE  \E g \in [0..N -> S] : g[0] = e /\ \A i \in 1..N : g[i] = G[i][g[i - 1]]
<1> DEFINE
      Has(n, g) == g[0] = e /\ \A i \in 1..n : g[i] = G[i][g[i - 1]]
      Reached == {n \in 0..N : \E g \in [0..N -> S] : Has(n, g)}
<1>1. 0 \in Reached
  <2> DEFINE f == [i \in 0..N |-> e]
  <2>1. f \in [0..N -> S] /\ Has(0, f)
    OBVIOUS
  <2> HIDE DEF f, Has
  <2> QED
    BY <2>1
<1>2. ASSUME NEW n \in 0..N - 1, n \in Reached PROVE n + 1 \in Reached
  <2>1. PICK g \in [0..N -> S] : Has(n, g)
    BY <1>2
  <2> DEFINE h == [g EXCEPT ![n + 1] = G[n + 1][g[n]]]
  <2>2. n \in 0..N /\ n + 1 \in 1..N /\ g[n] \in S /\ G[n + 1] \in [S -> S]
    BY DEF StepsIn
  <2>3. h \in [0..N -> S]
    BY <2>2
  <2>4. \A i \in 0..n : h[i] = g[i]
    BY <2>2
  <2>5. h[n + 1] = G[n + 1][g[n]]
    BY <2>2
  <2> HIDE DEF h
  <2>6. \A i \in 1..n + 1 : h[i] = G[i][h[i - 1]]
    <3> TAKE i \in 1..n + 1
    <3>1. CASE i = n + 1
      BY <2>4, <2>5, <3>1
    <3>2. CASE i # n + 1
      <4>1. i \in 1..n /\ i \in 0..n /\ i - 1 \in 0..n
        BY <3>2
      <4> QED
        BY <2>1, <2>4, <4>1
    <3> QED
      BY <3>1, <3>2
  <2>7. Has(n + 1, h)
    BY <2>1, <2>4, <2>6
  <2> HIDE DEF Has
  <2> QED
    BY <2>3, <2>7
<1>3. \A n \in 0..N : n \in Reached
  <2> HIDE DEF Reached
  <2> QED
    BY <1>1, <1>2, CountUp
<1> QED
  BY <1>3

-------------------------------------------------------------------------------
(* Tables and probes.                                                      *)

\* The sizes of tables are positive numbers.
LEMMA SizesArePositive == Sizes \subseteq Nat \ {0} /\ PyDict_MINSIZE \in Sizes
<1> DEFINE N == MaxDoublings
           S == Nat \ {0}
           G == [i \in 1..N |-> [s \in S |-> 2 * s]]
<1>1. N \in Nat /\ PyDict_MINSIZE \in S
  BY DictAssumption
<1>2. StepsIn(S, N, G)
  BY DEF StepsIn
<1>3. \E g \in [0..N -> S] : g[0] = PyDict_MINSIZE /\ \A i \in 1..N : g[i] = G[i][g[i - 1]]
  <2> HIDE DEF G, S, N
  <2> QED
    BY <1>1, <1>2, Iterates
<1>4. PICK g \in [0..N -> S] :
        g[0] = PyDict_MINSIZE /\ \A i \in 1..N : g[i] = G[i][g[i - 1]]
  BY <1>3
<1>5. \A i \in 1..N : g[i] = 2 * g[i - 1]
  <2>1. \A i \in 1..N : g[i - 1] \in S
    BY <1>1
  <2> QED
    BY <1>4, <2>1
<1>6. g = [i \in 0..N |-> IF i = 0 THEN PyDict_MINSIZE ELSE 2 * g[i - 1]]
  <2> DEFINE h == [i \in 0..N |-> IF i = 0 THEN PyDict_MINSIZE ELSE 2 * g[i - 1]]
  <2>1. \A i \in 1..N : i \in 0..N /\ i # 0 /\ h[i] = g[i]
    BY <1>5
  <2>2. h[0] = g[0] /\ \A i \in 0..N : i = 0 \/ i \in 1..N
    BY <1>1, <1>4
  <2> QED
    BY <1>4, <2>1, <2>2
<1>7. SizeAfter = [i \in 0..N |-> IF i = 0 THEN PyDict_MINSIZE ELSE 2 * SizeAfter[i - 1]]
  BY <1>6 DEF SizeAfter
<1> DEFINE Good == {i \in 0..N : SizeAfter[i] \in S}
<1>8. 0 \in Good
  BY <1>1, <1>7
<1>9. ASSUME NEW i \in 0..N - 1, i \in Good PROVE i + 1 \in Good
  <2>1. i + 1 \in 0..N /\ i + 1 # 0 /\ (i + 1) - 1 = i
    BY <1>1
  <2>2. SizeAfter[i + 1] = 2 * SizeAfter[i]
    BY <1>7, <2>1
  <2> QED
    BY <1>9, <2>1, <2>2
<1>10. \A i \in 0..N : i \in Good
  <2> HIDE DEF Good
  <2> QED
    BY <1>1, <1>8, <1>9, CountUp
<1>11. 0 \in 0..N /\ SizeAfter[0] = PyDict_MINSIZE
  BY <1>1, <1>7
<1> QED
  BY <1>10, <1>11 DEF Sizes

\* What a slot may hold, and the tables of a size.
Values == {Class[k] : k \in Keys}
Entries == [key : Keys, value : Values]
Contents == {EmptySlot, DummySlot} \cup Entries
Tables(size) == [0..size - 1 -> Contents]

\* The slots that are not virgin.
Filled(t) == {i \in DOMAIN t : t[i].key # NULL}

\* The slots of a table are numbered; the active ones are those of a key.
LEMMA TableSlots ==
  ASSUME NEW size \in Sizes, NEW t \in Tables(size)
  PROVE  /\ Size(t) = size /\ DOMAIN t = 0..size - 1
         /\ Cardinality(0..size - 1) = size
         /\ IsFiniteSet(Active(t)) /\ IsFiniteSet(Filled(t))
         /\ Active(t) \subseteq Filled(t)
         /\ \A i \in 0..size - 1 :
              /\ i \in Active(t) <=> t[i] \in Entries
              /\ i \in Filled(t) <=> t[i] # EmptySlot
              /\ i \in Active(t) <=> t[i].value # NULL
              /\ i \in Active(t) <=> t[i].key \in Keys
              /\ i \in Filled(t) <=> t[i].key # NULL
<1>1. size \in Nat \ {0}
  BY SizesArePositive
<1>2. IsFiniteSet(0..size - 1) /\ Cardinality(0..size - 1) = size
  BY <1>1, FS_Interval
<1>3. DOMAIN t = 0..size - 1
  BY DEF Tables
<1>4. ASSUME NEW i \in 0..size - 1
      PROVE  /\ t[i].value # NULL <=> t[i] \in Entries
             /\ t[i].key # NULL <=> t[i] # EmptySlot
             /\ t[i].value # NULL <=> t[i].key \in Keys
             /\ t[i].value # NULL => t[i].key # NULL
  <2>1. t[i] \in Contents
    BY DEF Tables
  <2>2. CASE t[i] = EmptySlot
    BY <2>2, DictAssumption DEF EmptySlot, Entries, Values
  <2>3. CASE t[i] = DummySlot
    BY <2>3, DictAssumption DEF EmptySlot, DummySlot, Entries, Values
  <2>4. CASE t[i] \in Entries
    BY <2>4, DictAssumption DEF EmptySlot, Entries, Values
  <2> QED
    BY <2>1, <2>2, <2>3, <2>4 DEF Contents
<1>5. Active(t) \subseteq 0..size - 1 /\ Filled(t) \subseteq 0..size - 1
  BY <1>3 DEF Active, Filled
<1> QED
  BY <1>2, <1>3, <1>4, <1>5, FS_Subset DEF Size, Active, Filled

\* A probe is a slot.
LEMMA ProbesAreSlots ==
  ASSUME NEW h \in Nat, NEW size \in Nat \ {0}
  PROVE  ProbesOf(h, size) \in [0..2 * size -> 0..size - 1]
<1> DEFINE
      N == 2 * size
      S == [i : 0..size - 1, perturb : Nat]
      After(s) == [i |-> (5 * s.i + s.perturb + 1) % size,
                   perturb |-> s.perturb \div 2^PERTURB_SHIFT]
      e == [i |-> h % size, perturb |-> h]
      G == [n \in 1..N |-> [s \in S |-> After(s)]]
      step[n \in 0..N] == IF n = 0 THEN [i |-> h % size, perturb |-> h]
                          ELSE LET s == step[n - 1] IN
                            [i |-> (5 * s.i + s.perturb + 1) % size,
                             perturb |-> s.perturb \div 2^PERTURB_SHIFT]
<1>1. N \in Nat /\ e \in S
  OBVIOUS
<1>2. ASSUME NEW s \in S PROVE After(s) \in S
  <2>1. 2^PERTURB_SHIFT \in Nat \ {0}
    BY DEF PERTURB_SHIFT
  <2>2. s.i \in Nat /\ s.perturb \in Nat
    OBVIOUS
  <2>3. (5 * s.i + s.perturb + 1) % size \in 0..size - 1
    BY <2>2
  <2>4. s.perturb \div 2^PERTURB_SHIFT \in Nat
    BY <2>1, <2>2
  <2> QED
    BY <2>3, <2>4
<1>3. StepsIn(S, N, G)
  BY <1>2 DEF StepsIn
<1>4. PICK g \in [0..N -> S] : g[0] = e /\ \A n \in 1..N : g[n] = G[n][g[n - 1]]
  <2> HIDE DEF G, S, N, e
  <2> QED
    BY <1>1, <1>3, Iterates
<1>5. \A n \in 1..N : g[n] = After(g[n - 1])
  <2>1. \A n \in 1..N : g[n - 1] \in S
    BY <1>1
  <2> HIDE DEF After, S
  <2> QED
    BY <1>4, <2>1
<1>6. g = [n \in 0..N |-> IF n = 0 THEN e ELSE After(g[n - 1])]
  <2> HIDE DEF After, S, e
  <2> DEFINE f == [n \in 0..N |-> IF n = 0 THEN e ELSE After(g[n - 1])]
  <2>1. \A n \in 1..N : n \in 0..N /\ n # 0 /\ f[n] = g[n]
    BY <1>5
  <2>2. f[0] = g[0] /\ \A n \in 0..N : n = 0 \/ n \in 1..N
    BY <1>1, <1>4
  <2> QED
    BY <1>4, <2>1, <2>2
<1>7. step = [n \in 0..N |-> IF n = 0 THEN e ELSE After(step[n - 1])]
  BY <1>6 DEF step
<1> HIDE DEF step
<1> DEFINE Good == {n \in 0..N : step[n] \in S}
<1>8. 0 \in Good
  BY <1>1, <1>7
<1>9. ASSUME NEW n \in 0..N - 1, n \in Good PROVE n + 1 \in Good
  <2>1. n + 1 \in 0..N /\ n + 1 # 0 /\ (n + 1) - 1 = n
    BY <1>1
  <2> HIDE DEF After, S
  <2>2. step[n + 1] = After(step[n])
    BY <1>7, <2>1
  <2> QED
    BY <1>2, <1>9, <2>1, <2>2
<1>10. \A n \in 0..N : n \in Good
  <2> HIDE DEF Good
  <2> QED
    BY <1>1, <1>8, <1>9, CountUp
<1>11. ProbesOf(h, size) = [n \in 0..2 * size |-> step[n].i]
  BY DEF ProbesOf, step
<1> QED
  BY <1>10, <1>11

\* The probes for a key are those for its hash, the same in all tables of a size, and
\* reach every slot.
LEMMA Probing ==
  ASSUME NEW size \in Sizes, NEW t \in Tables(size), NEW k \in Keys
  PROVE  /\ Probe(t, k) \in [0..2 * size -> 0..size - 1]
         /\ \A i \in 0..size - 1 : \E n \in 0..2 * size : Probe(t, k)[n] = i
         /\ \A l \in Keys, u \in Tables(size) : Hash[l] = Hash[k] => Probe(u, l) = Probe(t, k)
<1>1. \A u \in Tables(size) : Size(u) = size
  BY TableSlots
<1>2. \A u \in Tables(size), l \in Keys : Probe(u, l) = ProbeSequence[Hash[l]][size]
  BY <1>1 DEF Probe
<1>3. ProbeSequence[Hash[k]][size] = ProbesOf(Hash[k], size)
  BY DEF ProbeSequence
<1>4. Hash[k] \in Nat /\ size \in Nat \ {0}
  BY DictAssumption, SizesArePositive
<1>5. ProbesOf(Hash[k], size) \in [0..2 * size -> 0..size - 1]
  BY <1>4, ProbesAreSlots
<1> QED
  BY <1>2, <1>3, <1>5, ProbesReachAll

\* The first n probes for k pass no virgin slot; a lookup of k that finds nothing before
\* gets to slot i.
Unbroken(t, k, n) == \A m \in 0..n - 1 : t[Probe(t, k)[m]].key # NULL
Reaches(t, k, i) == \E n \in 0..2 * Size(t) : Probe(t, k)[n] = i /\ Unbroken(t, k, n)

\* What makes a table a map: its entries are reached, and their classes differ.
Chained(t) == \A i \in Active(t) : Reaches(t, t[i].key, i)
Once(t) == \A i, j \in Active(t) : Class[t[i].key] = Class[t[j].key] => i = j
OwnValues(t) == \A i \in Active(t) : t[i].value = Class[t[i].key]
IsMap(t) == Chained(t) /\ Once(t) /\ OwnValues(t)

\* Table t with e in slot i.
Put(t, i, e) == [t EXCEPT ![i] = e]

\* What an entry in a slot without a value changes.
LEMMA FillingASlot ==
  ASSUME NEW size \in Sizes, NEW t \in Tables(size), NEW i \in 0..size - 1,
         NEW e \in Entries, t[i].value = NULL,
         NEW u, u = Put(t, i, e)
  PROVE  /\ u \in Tables(size)
         /\ i \notin Active(t) /\ Active(u) = Active(t) \cup {i}
         /\ Filled(u) = Filled(t) \cup {i}
         /\ Cardinality(Active(u)) = Cardinality(Active(t)) + 1
         /\ Cardinality(Filled(u)) =
              IF t[i].key = NULL THEN Cardinality(Filled(t)) + 1 ELSE Cardinality(Filled(t))
         /\ Pairs(u) = Pairs(t) \cup {<<Class[e.key], e.value>>}
         /\ Chained(t) /\ Reaches(t, e.key, i) => Chained(u)
         /\ Once(t) /\ (\A j \in Active(t) : Class[t[j].key] # Class[e.key]) => Once(u)
         /\ OwnValues(t) /\ e.value = Class[e.key] => OwnValues(u)
<1>1. u \in Tables(size)
  BY DEF Put, Tables, Contents
<1>2. DOMAIN t = 0..size - 1 /\ DOMAIN u = 0..size - 1
  BY <1>1, TableSlots
<1>3. u[i] = e /\ \A j \in 0..size - 1 : j # i => u[j] = t[j]
  BY <1>2 DEF Put
<1>4. e.value # NULL /\ e.key # NULL /\ e.key \in Keys
  BY DictAssumption DEF Entries, Values
<1>5. i \notin Active(t) /\ Active(u) = Active(t) \cup {i}
  BY <1>2, <1>3, <1>4 DEF Active
<1>6. Filled(u) = Filled(t) \cup {i} /\ (i \in Filled(t) <=> t[i].key # NULL)
  BY <1>2, <1>3, <1>4 DEF Filled
<1>7. /\ Cardinality(Active(u)) = Cardinality(Active(t)) + 1
      /\ Cardinality(Filled(u)) =
           IF t[i].key = NULL THEN Cardinality(Filled(t)) + 1 ELSE Cardinality(Filled(t))
  <2>1. IsFiniteSet(Active(t)) /\ IsFiniteSet(Filled(t))
    BY TableSlots
  <2> QED
    BY <1>5, <1>6, <2>1, FS_AddElement
<1>8. Pairs(u) = Pairs(t) \cup {<<Class[e.key], e.value>>}
  <2>1. \A j \in Active(t) : j \in 0..size - 1 /\ u[j] = t[j]
    BY <1>2, <1>3, <1>5 DEF Active
  <2> QED
    BY <1>3, <1>5, <2>1 DEF Pairs
<1>9. ASSUME Chained(t), Reaches(t, e.key, i) PROVE Chained(u)
  <2>1. \A j \in Active(u) : u[j].key \in Keys /\ Reaches(t, u[j].key, j)
    BY <1>2, <1>3, <1>4, <1>5, <1>9, TableSlots DEF Chained, Active
  <2>2. ASSUME NEW k \in Keys, NEW j, Reaches(t, k, j) PROVE Reaches(u, k, j)
    <3>1. Probe(u, k) = Probe(t, k) /\ Size(u) = size /\ Size(t) = size
      BY <1>1, Probing, TableSlots
    <3>2. PICK n \in 0..2 * size : Probe(t, k)[n] = j /\ Unbroken(t, k, n)
      BY <2>2, <3>1 DEF Reaches
    <3>3. \A m \in 0..n - 1 : m \in 0..2 * size /\ Probe(t, k)[m] \in 0..size - 1
      <4>1. size \in Nat /\ Probe(t, k) \in [0..2 * size -> 0..size - 1]
        BY Probing, SizesArePositive
      <4>2. \A m \in 0..n - 1 : m \in 0..2 * size
        BY <4>1
      <4> QED
        BY <4>1, <4>2
    <3>4. Unbroken(u, k, n)
      BY <1>3, <1>4, <3>1, <3>2, <3>3 DEF Unbroken
    <3> QED
      BY <3>1, <3>2, <3>4 DEF Reaches
  <2> QED
    BY <2>1, <2>2 DEF Chained
<1>10. ASSUME Once(t), \A j \in Active(t) : Class[t[j].key] # Class[e.key] PROVE Once(u)
  BY <1>2, <1>3, <1>5, <1>10 DEF Once, Active
<1>11. ASSUME OwnValues(t), e.value = Class[e.key] PROVE OwnValues(u)
  BY <1>2, <1>3, <1>5, <1>11 DEF OwnValues, Active
<1> QED
  BY <1>1, <1>5, <1>6, <1>7, <1>8, <1>9, <1>10, <1>11

\* insertdict_clean() finds a virgin slot, and the one that a lookup reaches, if there is one.
LEMMA InsertsClean ==
  ASSUME NEW size \in Sizes, NEW t \in Tables(size), NEW e \in Entries,
         Filled(t) # 0..size - 1
  PROVE  \E i \in 0..size - 1 :
           /\ t[i].key = NULL /\ Reaches(t, e.key, i)
           /\ InsertClean(t, e) = Put(t, i, e)
<1> DEFINE k == e.key
           p == Probe(t, k)
           stops == Stops(t, k, 0, {NULL})
           n == Min(stops)
<1>1. k \in Keys
  BY DEF Entries
<1>2. p \in [0..2 * size -> 0..size - 1] /\ Size(t) = size /\ size \in Nat
  BY <1>1, Probing, TableSlots, SizesArePositive
<1>3. stops = {m \in 0..2 * size : t[p[m]].key = NULL}
  BY <1>2 DEF Stops
<1>4. stops # {}
  <2>1. PICK i \in 0..size - 1 : t[i].key = NULL
    BY TableSlots DEF Filled
  <2>2. PICK m \in 0..2 * size : p[m] = i
    BY <1>1, Probing
  <2> QED
    BY <1>3, <2>1, <2>2
<1>5. stops \subseteq Nat
  <2> HIDE DEF stops, p
  <2> QED
    BY <1>2, <1>3
<1>6. n \in stops /\ \A m \in stops : n <= m
  <2> HIDE DEF stops
  <2> QED
    BY <1>4, <1>5, MinIsLeast
<1>7. n \in 0..2 * size /\ p[n] \in 0..size - 1 /\ t[p[n]].key = NULL
  BY <1>2, <1>3, <1>6
<1>8. Unbroken(t, k, n)
  <2> SUFFICES ASSUME NEW m \in 0..n - 1, t[p[m]].key = NULL PROVE FALSE
    BY DEF Unbroken
  <2> HIDE DEF n, stops, p
  <2>1. m \in 0..2 * size /\ m < n
    BY <1>2, <1>7
  <2> QED
    BY <1>3, <1>6, <2>1, <1>7
<1>9. Reaches(t, k, p[n])
  <2> HIDE DEF n, stops
  <2> QED
    BY <1>2, <1>7, <1>8 DEF Reaches
<1>10. InsertClean(t, e) = Put(t, p[n], e)
  BY DEF InsertClean, Put
<1> QED
  BY <1>7, <1>9, <1>10

\* dictresize() copies the active entries into a table without dummies, where each of
\* them is found, if there is room for one more.
LEMMA RebuildsTheMap ==
  ASSUME NEW old \in Sizes, NEW t \in Tables(old), NEW size \in Sizes,
         Cardinality(Active(t)) < size
  PROVE  LET r == Rebuilt(t, size) IN
         /\ r \in Tables(size)
         /\ Filled(r) = Active(r)
         /\ Cardinality(Active(r)) = Cardinality(Active(t))
         /\ Pairs(r) = Pairs(t)
         /\ Chained(r)
         /\ Once(t) => Once(r)
<1> DEFINE
      N == Size(t)
      S == Tables(size)
      After(c, i) == IF t[i - 1].value = NULL THEN c ELSE InsertClean(c, t[i - 1])
      G == [i \in 1..N |-> [c \in S |-> After(c, i)]]
      copy[i \in 0..N] == IF i = 0 THEN Empty(size)
                          ELSE IF t[i - 1].value = NULL THEN copy[i - 1]
                          ELSE InsertClean(copy[i - 1], t[i - 1])
<1>1. N = old /\ N \in Nat /\ size \in Nat \ {0} /\ DOMAIN t = 0..N - 1
  BY TableSlots, SizesArePositive
<1>2. ASSUME NEW i \in 1..N, t[i - 1].value # NULL PROVE t[i - 1] \in Entries
  BY <1>1, <1>2, TableSlots
<1>3. Empty(size) \in S
  BY DEF Empty, Tables, Contents
<1>4. ASSUME NEW c \in S, NEW i \in 1..N PROVE After(c, i) \in S
  <2>1. CASE t[i - 1].value # NULL
    BY <1>2, <2>1 DEF InsertClean, Tables, Contents
  <2> QED
    BY <2>1
<1>5. StepsIn(S, N, G)
  BY <1>4 DEF StepsIn
<1>6. PICK g \in [0..N -> S] : g[0] = Empty(size) /\ \A i \in 1..N : g[i] = G[i][g[i - 1]]
  <2>1. N \in Nat
    BY <1>1
  <2> HIDE DEF G, S, N, After
  <2> QED
    BY <2>1, <1>3, <1>5, Iterates
<1>7. \A i \in 1..N : g[i] = After(g[i - 1], i)
  <2>1. \A i \in 1..N : g[i - 1] \in S
    BY <1>1
  <2> HIDE DEF After, S
  <2> QED
    BY <1>6, <2>1
<1>8. g = [i \in 0..N |-> IF i = 0 THEN Empty(size)
                          ELSE IF t[i - 1].value = NULL THEN g[i - 1]
                          ELSE InsertClean(g[i - 1], t[i - 1])]
  <2> HIDE DEF S
  <2> DEFINE f == [i \in 0..N |-> IF i = 0 THEN Empty(size)
                                  ELSE IF t[i - 1].value = NULL THEN g[i - 1]
                                  ELSE InsertClean(g[i - 1], t[i - 1])]
  <2>1. \A i \in 1..N : i \in 0..N /\ i # 0 /\ f[i] = g[i]
    BY <1>7
  <2>2. f[0] = g[0] /\ \A i \in 0..N : i = 0 \/ i \in 1..N
    BY <1>1, <1>6
  <2> QED
    BY <1>6, <2>1, <2>2
<1>9. copy = [i \in 0..N |-> IF i = 0 THEN Empty(size)
                             ELSE IF t[i - 1].value = NULL THEN copy[i - 1]
                             ELSE InsertClean(copy[i - 1], t[i - 1])]
  BY <1>8 DEF copy
<1>10. Rebuilt(t, size) = copy[N]
  BY DEF Rebuilt, copy
<1> HIDE DEF copy
<1> DEFINE
      Copied(i) == {j \in Active(t) : j < i}
      Good(i) ==
        /\ copy[i] \in S
        /\ Filled(copy[i]) = Active(copy[i])
        /\ Cardinality(Active(copy[i])) = Cardinality(Copied(i))
        /\ Pairs(copy[i]) = {<<Class[t[j].key], t[j].value>> : j \in Copied(i)}
        /\ Chained(copy[i])
        /\ Once(t) => Once(copy[i])
      All == {i \in 0..N : Good(i)}
<1>11. 0 \in All
  <2>1. copy[0] = Empty(size)
    BY <1>1, <1>9
  <2>2. Active(copy[0]) = {} /\ Filled(copy[0]) = {}
    BY <2>1 DEF Empty, EmptySlot, Active, Filled
  <2>3. Copied(0) = {}
    BY <1>1 DEF Active
  <2>4. Good(0)
    BY <1>3, <2>1, <2>2, <2>3 DEF Pairs, Chained, Once
  <2> HIDE DEF Good
  <2> QED
    BY <1>1, <2>4
<1>12. ASSUME NEW i \in 0..N - 1, i \in All PROVE i + 1 \in All
  <2> DEFINE c == copy[i]
             d == copy[i + 1]
  <2>1. Good(i) /\ i + 1 \in 0..N /\ i + 1 \in 1..N /\ (i + 1) - 1 = i /\ i \in DOMAIN t
    BY <1>1, <1>12
  <2>2. d = IF t[i].value = NULL THEN c ELSE InsertClean(c, t[i])
    <3>1. \A n \in 1..N : copy[n] = IF t[n - 1].value = NULL THEN copy[n - 1]
                                    ELSE InsertClean(copy[n - 1], t[n - 1])
      <4>1. \A n \in 1..N : n \in 0..N /\ n # 0
        OBVIOUS
      <4> QED
        BY <1>9, <4>1
    <3> QED
      BY <2>1, <3>1
  <2>3. Good(i + 1)
    <3>1. CASE t[i].value = NULL
      <4>1. Copied(i + 1) = Copied(i)
        BY <1>1, <3>1 DEF Active
      <4> QED
        BY <2>1, <2>2, <3>1, <4>1
    <3>2. CASE t[i].value # NULL
      <4> DEFINE e == t[i]
      <4>1. i \notin Copied(i) /\ Copied(i + 1) = Copied(i) \cup {i} /\ i \in Active(t)
        BY <1>1, <3>2 DEF Active
      <4>2. e \in Entries
        BY <1>2, <2>1, <3>2
      <4>3. Cardinality(Copied(i + 1)) = Cardinality(Copied(i)) + 1
            /\ Cardinality(Copied(i)) < size
        <5>1. Copied(i + 1) \subseteq Active(t) /\ Copied(i) \subseteq Active(t)
          OBVIOUS
        <5>2. IsFiniteSet(Active(t))
          BY TableSlots
        <5>3. IsFiniteSet(Copied(i)) /\ Cardinality(Copied(i + 1)) <= Cardinality(Active(t))
              /\ Cardinality(Active(t)) \in Nat /\ Cardinality(Copied(i)) \in Nat
          <6> HIDE DEF Copied
          <6> QED
            BY <5>1, <5>2, FS_Subset, FS_CardinalityType
        <5>4. Cardinality(Copied(i + 1)) = Cardinality(Copied(i)) + 1
          <6> HIDE DEF Copied
          <6> QED
            BY <4>1, <5>3, FS_AddElement
        <5> HIDE DEF Copied
        <5> QED
          BY <1>1, <5>3, <5>4
      <4>a. c \in Tables(size) /\ Filled(c) = Active(c)
            /\ Cardinality(Active(c)) = Cardinality(Copied(i))
        BY <2>1
      <4>4. Filled(c) # 0..size - 1
        <5> HIDE DEF c, Copied
        <5> QED
          BY <1>1, <4>3, <4>a, TableSlots
      <4>5. PICK j \in 0..size - 1 :
              /\ c[j].key = NULL /\ Reaches(c, e.key, j)
              /\ InsertClean(c, e) = Put(c, j, e)
        <5> HIDE DEF c, e
        <5> QED
          BY <4>2, <4>4, <4>a, InsertsClean
      <4>6. c[j].value = NULL /\ d = Put(c, j, e)
        BY <2>2, <3>2, <4>5, <4>a, TableSlots
      <4> HIDE DEF c, d, e
      <4>7. c \in Tables(size) /\ Filled(c) = Active(c) /\ Chained(c)
            /\ Cardinality(Active(c)) = Cardinality(Copied(i))
            /\ Pairs(c) = {<<Class[t[l].key], t[l].value>> : l \in Copied(i)}
            /\ (Once(t) => Once(c))
        BY <2>1 DEF c
      <4>8. /\ d \in Tables(size)
            /\ Active(d) = Active(c) \cup {j} /\ Filled(d) = Filled(c) \cup {j}
            /\ Cardinality(Active(d)) = Cardinality(Active(c)) + 1
            /\ Pairs(d) = Pairs(c) \cup {<<Class[e.key], e.value>>}
            /\ Chained(c) /\ Reaches(c, e.key, j) => Chained(d)
            /\ Once(c) /\ (\A l \in Active(c) : Class[c[l].key] # Class[e.key]) => Once(d)
        <5>1. d = Put(c, j, e) /\ c \in Tables(size) /\ c[j].value = NULL /\ e \in Entries
          BY <4>2, <4>6, <4>7
        <5> QED
          BY <5>1, FillingASlot
      <4>9. Pairs(d) = {<<Class[t[l].key], t[l].value>> : l \in Copied(i + 1)}
        <5> HIDE DEF Copied
        <5> QED
          BY <4>1, <4>7, <4>8 DEF e
      <4>10. ASSUME Once(t) PROVE Once(d)
        <5> SUFFICES ASSUME NEW l \in Active(c), Class[c[l].key] = Class[e.key] PROVE FALSE
          BY <4>7, <4>8, <4>10
        <5>1. <<Class[c[l].key], c[l].value>> \in Pairs(c)
          BY DEF Pairs
        <5>2. PICK m \in Copied(i) : Class[c[l].key] = Class[t[m].key]
          <6> HIDE DEF Copied
          <6> QED
            BY <4>7, <5>1
        <5>3. m = i
          BY <4>1, <4>10, <5>2 DEF Once, e
        <5> QED
          BY <4>1, <5>2, <5>3
      <4> HIDE DEF Copied
      <4> QED
        BY <4>3, <4>5, <4>7, <4>8, <4>9, <4>10 DEF d
    <3> QED
      BY <3>1, <3>2
  <2> HIDE DEF Good
  <2> QED
    BY <2>1, <2>3
<1>13. \A i \in 0..N : i \in All
  <2> HIDE DEF All
  <2> QED
    BY <1>1, <1>11, <1>12, CountUp
<1>14. Good(N)
  <2> HIDE DEF Good
  <2> QED
    BY <1>1, <1>13
<1>15. Copied(N) = Active(t)
  BY <1>1 DEF Active
<1> QED
  BY <1>10, <1>14, <1>15 DEF Pairs

-------------------------------------------------------------------------------
(* What lookups find.                                                      *)

\* What a lookup of k is to return: the slot of the entry, or a slot without a value
\* that later lookups reach.
Found(t, k, i) ==
  /\ i \in DOMAIN t
  /\ IF t[i].value = NULL
     THEN (\A j \in Active(t) : t[j].key \notin Equal(k)) /\ Reaches(t, k, i)
     ELSE t[i].key \in Equal(k)

\* What a lookup of k knows after n probes.
Passed(t, k, n, free) ==
  /\ \A m \in 0..n - 1 : t[Probe(t, k)[m]].key \notin {NULL} \cup Equal(k)
  /\ free # NULL => \E m \in 0..n - 1 : free = Probe(t, k)[m] /\ t[free].key = "dummy"

\* The probe at which a lookup stops has what it looks for.
LEMMA StoppingFinds ==
  ASSUME NEW size \in Sizes, NEW t \in Tables(size), NEW k \in Keys, Chained(t),
         NEW n \in 0..2 * size, NEW free, Passed(t, k, n, free),
         t[Probe(t, k)[n]].key \in {NULL} \cup Equal(k)
  PROVE  Found(t, k, IF t[Probe(t, k)[n]].key = NULL /\ free # NULL
                     THEN free ELSE Probe(t, k)[n])
<1> DEFINE p == Probe(t, k)
<1>1. size \in Nat /\ p \in [0..2 * size -> 0..size - 1] /\ Size(t) = size /\ DOMAIN t = 0..size - 1
  BY Probing, TableSlots, SizesArePositive
<1>2. \A m \in 0..n - 1 : m \in 0..2 * size
  BY <1>1
<1>3. CASE t[p[n]].key \in Equal(k)
  <2>1. t[p[n]].key \in Keys /\ t[p[n]].key # NULL /\ p[n] \in 0..size - 1
    BY <1>1, <1>3, DictAssumption DEF Equal
  <2>2. t[p[n]].value # NULL
    BY <2>1, TableSlots
  <2> QED
    BY <1>1, <1>3, <2>1, <2>2 DEF Found
<1>4. CASE t[p[n]].key = NULL
  <2>1. ASSUME NEW j \in Active(t), t[j].key \in Equal(k) PROVE FALSE
    <3> DEFINE l == t[j].key
    <3>1. l \in Keys /\ Class[l] = Class[k] /\ Hash[l] = Hash[k]
      BY <2>1, DictAssumption DEF Equal
    <3>2. Probe(t, l) = p
      BY <3>1, Probing
    <3>3. PICK m \in 0..2 * size : p[m] = j /\ Unbroken(t, l, m)
      BY <1>1, <3>2 DEF Chained, Reaches
    <3>4. ~ (n < m)
      BY <1>1, <1>4, <3>2, <3>3 DEF Unbroken
    <3>5. m # n
      BY <1>4, <3>1, <3>3, DictAssumption
    <3>6. ~ (m < n)
      <4>1. m < n => m \in 0..n - 1
        BY <1>1
      <4> QED
        BY <2>1, <3>3, <4>1 DEF Passed
    <3> QED
      BY <1>1, <3>4, <3>5, <3>6
  <2>2. CASE free = NULL
    <3>1. Unbroken(t, k, n)
      BY DEF Passed, Unbroken
    <3>2. p[n] \in 0..size - 1 /\ t[p[n]].value = NULL
      BY <1>1, <1>4, TableSlots, DictAssumption
    <3> QED
      BY <1>1, <1>4, <2>1, <2>2, <3>1, <3>2 DEF Found, Reaches
  <2>3. CASE free # NULL
    <3>1. PICK m \in 0..n - 1 : free = p[m] /\ t[free].key = "dummy"
      BY <2>3 DEF Passed
    <3>2. Unbroken(t, k, m)
      BY <1>1 DEF Passed, Unbroken
    <3>3. m \in 0..2 * size /\ free \in 0..size - 1
      BY <1>1, <1>2, <3>1
    <3>4. t[free].value = NULL
      BY <3>1, <3>3, TableSlots, DictAssumption
    <3> QED
      BY <1>1, <1>4, <2>1, <2>3, <3>1, <3>2, <3>3, <3>4 DEF Found, Reaches
  <2> QED
    BY <2>2, <2>3
<1> QED
  BY <1>3, <1>4

\* A lookup that goes on from probe n to the next of keys.
LEMMA GoingOn ==
  ASSUME NEW size \in Sizes, NEW t \in Tables(size), NEW k \in Keys, NEW n \in Nat,
         NEW keys, {NULL} \cup Equal(k) \subseteq keys, NEW free,
         Stops(t, k, n, keys) # {},
         NEW m, m = Min(Stops(t, k, n, keys)),
         NEW f, f = IF free # NULL THEN free ELSE FreeSlot(t, k, n, m)
  PROVE  /\ m \in 0..2 * size /\ n <= m /\ t[Probe(t, k)[m]].key \in keys
         /\ f = NULL \/ f = free \/ f \in 0..size - 1
         /\ Passed(t, k, n, free) => Passed(t, k, m, f)
<1> DEFINE p == Probe(t, k)
           stops == Stops(t, k, n, keys)
           d == {j \in n..m - 1 : t[p[j]].key = "dummy"}
<1>1. size \in Nat /\ p \in [0..2 * size -> 0..size - 1] /\ Size(t) = size
  BY Probing, TableSlots, SizesArePositive
<1>2. stops = {j \in n..2 * size : t[p[j]].key \in keys}
  BY <1>1 DEF Stops
<1> HIDE DEF stops, p
<1>3. stops \subseteq Nat
  BY <1>1, <1>2
<1>4. m \in stops /\ \A j \in stops : m <= j
  BY <1>3, MinIsLeast DEF stops
<1>5. m \in 0..2 * size /\ n <= m /\ t[p[m]].key \in keys
  BY <1>1, <1>2, <1>4
<1>6. ASSUME NEW j \in n..m - 1 PROVE t[p[j]].key \notin keys /\ j \in 0..2 * size
  <2>1. j \in n..2 * size /\ ~ (m <= j)
    BY <1>1, <1>5
  <2> QED
    BY <1>2, <1>4, <2>1
<1>7. free = NULL => f = NULL \/ \E j \in n..m - 1 : f = p[j] /\ t[f].key = "dummy"
  <2>1. CASE free # NULL \/ d = {}
    BY <2>1 DEF FreeSlot, p
  <2>2. CASE free = NULL /\ d # {}
    <3>1. d \subseteq Nat
      BY <1>5
    <3>2. Min(d) \in d
      <4> HIDE DEF d
      <4> QED
        BY <2>2, <3>1, MinIsLeast
    <3>3. f = p[Min(d)]
      BY <2>2 DEF FreeSlot, p
    <3> QED
      BY <3>2, <3>3
  <2> QED
    BY <2>1, <2>2
<1>8. f = NULL \/ f = free \/ f \in 0..size - 1
  BY <1>1, <1>6, <1>7
<1>9. ASSUME Passed(t, k, n, free) PROVE Passed(t, k, m, f)
  <2>1. \A j \in 0..m - 1 : j \in 0..n - 1 \/ j \in n..m - 1
    BY <1>5
  <2>2. \A j \in 0..n - 1 : j \in 0..m - 1
    BY <1>5
  <2>3. \A j \in n..m - 1 : j \in 0..m - 1
    BY <1>5
  <2>4. \A j \in 0..m - 1 : t[p[j]].key \notin {NULL} \cup Equal(k)
    BY <1>6, <1>9, <2>1 DEF Passed, p
  <2>5. f # NULL => \E j \in 0..m - 1 : f = p[j] /\ t[f].key = "dummy"
    BY <1>7, <1>9, <2>2, <2>3 DEF Passed, p
  <2> QED
    BY <2>4, <2>5 DEF Passed, p
<1> QED
  BY <1>5, <1>8, <1>9 DEF p

\* A lookup at the start knows nothing.
LEMMA NothingPassed ==
  ASSUME NEW t, NEW k PROVE Passed(t, k, 0, NULL)
BY DEF Passed

\* A lookup without interference finds what it is to find, and in any case a slot.
LEMMA FindFinds ==
  ASSUME NEW size \in Sizes, NEW t \in Tables(size), NEW k \in Keys, Terminates(t, k)
  PROVE  /\ Find(t, k) \in 0..size - 1
         /\ Chained(t) => Found(t, k, Find(t, k))
<1> DEFINE keys == Ends(k) \cup Equal(k)
           p == Probe(t, k)
           m == Min(Stops(t, k, 0, keys))
           free == FreeSlot(t, k, 0, m)
<1>1. keys = {NULL} \cup Equal(k)
  BY DEF Ends, Equal
<1>2. Stops(t, k, 0, keys) # {}
  BY DEF Terminates
<1>3. /\ m \in 0..2 * size /\ t[p[m]].key \in keys
      /\ free = NULL \/ free \in 0..size - 1
      /\ Passed(t, k, m, free)
  <2> HIDE DEF keys
  <2>1. {NULL} \cup Equal(k) \subseteq keys
    BY <1>1
  <2>2. m \in 0..2 * size /\ t[p[m]].key \in keys
    BY <1>2, <2>1, GoingOn
  <2>3. (free = NULL \/ free \in 0..size - 1) /\ Passed(t, k, m, free)
    BY <1>2, <2>1, GoingOn, NothingPassed
  <2> QED
    BY <2>2, <2>3
<1>4. Find(t, k) = IF t[p[m]].key = NULL /\ free # NULL THEN free ELSE p[m]
  BY DEF Find
<1> HIDE DEF m, free
<1>5. p \in [0..2 * size -> 0..size - 1]
  BY Probing
<1>6. Find(t, k) \in 0..size - 1
  BY <1>3, <1>4, <1>5
<1>7. Chained(t) => Found(t, k, Find(t, k))
  <2> HIDE DEF keys
  <2> QED
    BY <1>1, <1>3, <1>4, StoppingFinds
<1> QED
  BY <1>6, <1>7

-------------------------------------------------------------------------------
(* What the operations do to the table.                                    *)

TableOK ==
  /\ Size(slots) \in Sizes /\ slots \in Tables(Size(slots))
  /\ used = Cardinality(Active(slots)) /\ fill = Cardinality(Filled(slots))
  /\ address \in Addresses \cup {"smalltable"}
  /\ address = "smalltable" <=> Size(slots) = PyDict_MINSIZE

\* Table t with the value for k in slot i.
Revalued(t, i, k) == [t EXCEPT ![i].value = Class[k]]

\* A new value for an entry changes nothing else, and in a map nothing at all.
LEMMA Replacing ==
  ASSUME NEW size \in Sizes, NEW t \in Tables(size), NEW i \in 0..size - 1,
         t[i].value # NULL, NEW k \in Keys,
         NEW u, u = Revalued(t, i, k)
  PROVE  /\ u \in Tables(size)
         /\ Active(u) = Active(t) /\ Filled(u) = Filled(t)
         /\ OwnValues(t) /\ t[i].key \in Equal(k) => u = t
<1>1. t[i] \in Entries /\ DOMAIN t = 0..size - 1 /\ i \in Active(t)
  BY TableSlots
<1>2. [t[i] EXCEPT !.value = Class[k]] \in Entries
  BY <1>1 DEF Entries, Values
<1>3. u = [t EXCEPT ![i] = [t[i] EXCEPT !.value = Class[k]]]
  BY DEF Revalued
<1>4. u \in Tables(size)
  BY <1>2, <1>3 DEF Tables, Contents
<1>5. /\ DOMAIN u = 0..size - 1
      /\ \A j \in 0..size - 1 : j # i => u[j] = t[j]
      /\ u[i] = [t[i] EXCEPT !.value = Class[k]]
  BY <1>1, <1>3
<1>6. u[i].key = t[i].key /\ u[i].value = Class[k] /\ Class[k] # NULL
  BY <1>1, <1>5, DictAssumption DEF Entries
<1>7. Active(u) = Active(t) /\ Filled(u) = Filled(t)
  <2>1. \A j \in 0..size - 1 : /\ u[j].value # NULL <=> t[j].value # NULL
                               /\ u[j].key = t[j].key
    BY <1>1, <1>5, <1>6 DEF Active
  <2> QED
    BY <1>1, <1>5, <2>1 DEF Active, Filled
<1>8. ASSUME OwnValues(t), t[i].key \in Equal(k) PROVE u = t
  <2>1. t[i].value = Class[k]
    BY <1>1, <1>8 DEF OwnValues, Equal
  <2>2. [t[i] EXCEPT !.value = Class[k]] = t[i]
    BY <1>1, <2>1 DEF Entries
  <2> QED
    BY <1>3, <1>1, <2>2 DEF Tables
<1> QED
  BY <1>4, <1>7, <1>8

\* A dummy in the place of an entry keeps the others, and the way to them.
LEMMA Deleting ==
  ASSUME NEW size \in Sizes, NEW t \in Tables(size), NEW i \in 0..size - 1,
         t[i].value # NULL,
         NEW u, u = Put(t, i, DummySlot)
  PROVE  /\ u \in Tables(size)
         /\ Active(u) = Active(t) \ {i} /\ Filled(u) = Filled(t)
         /\ Cardinality(Active(u)) = Cardinality(Active(t)) - 1
         /\ IsMap(t) => IsMap(u) /\ Pairs(u) = Pairs(t) \ {<<Class[t[i].key], Class[t[i].key]>>}
<1>1. u \in Tables(size)
  BY DEF Put, Tables, Contents
<1>2. DOMAIN t = 0..size - 1 /\ DOMAIN u = 0..size - 1 /\ i \in Active(t) /\ i \in Filled(t)
  BY <1>1, TableSlots
<1>3. u[i] = DummySlot /\ \A j \in 0..size - 1 : j # i => u[j] = t[j]
  BY <1>2 DEF Put
<1>4. Active(u) = Active(t) \ {i} /\ Filled(u) = Filled(t)
  <2>1. u[i].value = NULL /\ u[i].key # NULL /\ t[i].key # NULL
    BY <1>2, <1>3, DictAssumption DEF Filled, DummySlot
  <2>2. Active(u) = Active(t) \ {i}
    BY <1>2, <1>3, <2>1 DEF Active
  <2>3. Filled(u) = Filled(t)
    BY <1>2, <1>3, <2>1 DEF Filled
  <2> QED
    BY <2>2, <2>3
<1>5. Cardinality(Active(u)) = Cardinality(Active(t)) - 1
  <2>1. IsFiniteSet(Active(t))
    BY TableSlots
  <2> QED
    BY <1>2, <1>4, <2>1, FS_RemoveElement
<1>6. \A j \in Active(u) : j \in Active(t) /\ j # i /\ u[j] = t[j] /\ t[j].key \in Keys
  BY <1>2, <1>3, <1>4, TableSlots DEF Active
<1>7. ASSUME NEW k \in Keys, NEW j, Reaches(t, k, j) PROVE Reaches(u, k, j)
  <2>1. Probe(u, k) = Probe(t, k) /\ Size(u) = size /\ Size(t) = size
    BY <1>1, Probing, TableSlots
  <2>2. PICK n \in 0..2 * size : Probe(t, k)[n] = j /\ Unbroken(t, k, n)
    BY <1>7, <2>1 DEF Reaches
  <2>3. \A m \in 0..n - 1 : Probe(t, k)[m] \in 0..size - 1
    <3>1. size \in Nat /\ Probe(t, k) \in [0..2 * size -> 0..size - 1]
      BY Probing, SizesArePositive
    <3>2. \A m \in 0..n - 1 : m \in 0..2 * size
      BY <3>1
    <3> QED
      BY <3>1, <3>2
  <2>4. Unbroken(u, k, n)
    BY <1>3, <2>1, <2>2, <2>3, DictAssumption DEF Unbroken, DummySlot
  <2> QED
    BY <2>1, <2>2, <2>4 DEF Reaches
<1>8. ASSUME IsMap(t)
      PROVE  IsMap(u) /\ Pairs(u) = Pairs(t) \ {<<Class[t[i].key], Class[t[i].key]>>}
  <2>1. Chained(u)
    BY <1>6, <1>7, <1>8 DEF IsMap, Chained
  <2>2. Once(u) /\ OwnValues(u)
    <3>1. Once(t) /\ OwnValues(t)
      BY <1>8 DEF IsMap
    <3>2. Once(u)
      BY <1>6, <3>1 DEF Once
    <3>3. OwnValues(u)
      BY <1>6, <3>1 DEF OwnValues
    <3> QED
      BY <3>2, <3>3
  <2>3. \A j \in Active(t) : t[j].value = Class[t[j].key]
    BY <1>8 DEF IsMap, OwnValues
  <2>4. \A j \in Active(t) : Class[t[j].key] = Class[t[i].key] => j = i
    BY <1>2, <1>8 DEF IsMap, Once
  <2> DEFINE pair == <<Class[t[i].key], Class[t[i].key]>>
  <2>5. ASSUME NEW x \in Pairs(u) PROVE x \in Pairs(t) \ {pair}
    <3>1. PICK j \in Active(u) : x = <<Class[u[j].key], u[j].value>>
      BY DEF Pairs
    <3>2. j \in Active(t) /\ j # i /\ x = <<Class[t[j].key], t[j].value>>
      BY <1>6, <3>1
    <3> QED
      BY <2>4, <3>2 DEF Pairs
  <2>6. ASSUME NEW x \in Pairs(t), x # pair PROVE x \in Pairs(u)
    <3>1. PICK j \in Active(t) : x = <<Class[t[j].key], t[j].value>>
      BY DEF Pairs
    <3>2. j # i
      BY <2>3, <2>6, <3>1
    <3>3. j \in Active(u) /\ u[j] = t[j]
      BY <1>4, <1>6, <3>2
    <3> QED
      BY <3>1, <3>3 DEF Pairs
  <2>7. pair \notin Pairs(u)
    BY <2>5
  <2>8. Pairs(u) = Pairs(t) \ {pair}
    BY <2>5, <2>6, <2>7
  <2> QED
    BY <2>1, <2>2, <2>8 DEF IsMap
<1> QED
  BY <1>1, <1>4, <1>5, <1>8

\* dictresize() leaves the same entries in a table that is less than two thirds full; if
\* it is where it was, it is the small one.
LEMMA Resizing ==
  ASSUME NEW old \in Sizes, NEW t \in Tables(old),
         NEW u, u = Cardinality(Active(t)), NEW f, f = Cardinality(Filled(t)),
         TableOK, Size(slots) = old,
         Resize(t, u, f, GrowthRate * u)
  PROVE  /\ TableOK'
         /\ 3 * fill' < 2 * Size(slots')
         /\ Pairs(slots') = Pairs(t)
         /\ IsMap(t) => IsMap(slots')
         /\ address' = address => Size(slots') = old
<1> DEFINE size == NewSize(GrowthRate * u)
           larger == {s \in Sizes : s > GrowthRate * u}
<1>1. IsFiniteSet(Active(t)) /\ IsFiniteSet(Filled(t)) /\ Size(t) = old /\ Active(t) \subseteq Filled(t)
  BY TableSlots
<1>2. u \in Nat /\ f \in Nat
  BY <1>1, FS_CardinalityType
<1>3. GrowthRate * u >= 2 * u
  <2>1. GrowthRate \in Nat /\ GrowthRate >= 2
    BY DictAssumption
  <2> QED
    BY <1>2, <2>1
<1>4. size \in Sizes /\ size \in Nat \ {0} /\ size > GrowthRate * u
  <2>1. larger # {} /\ larger \subseteq Nat /\ larger \subseteq Sizes
    BY SizesArePositive DEF Resize
  <2>2. Min(larger) \in larger
    <3> HIDE DEF larger
    <3> QED
      BY <2>1, MinIsLeast
  <2>3. size = Min(larger)
    BY DEF NewSize
  <2> QED
    BY <2>2, <2>3, SizesArePositive
<1>5. u < size /\ 3 * u < 2 * size
  <2>1. GrowthRate * u \in Nat
    BY <1>2, DictAssumption
  <2> HIDE DEF size
  <2> QED
    BY <1>2, <1>3, <1>4, <2>1
<1>6. /\ used' = u /\ fill' = u
      /\ slots' = IF size = PyDict_MINSIZE /\ Size(t) = size /\ f = u THEN t
                  ELSE Rebuilt(t, size)
      /\ address' \in IF size = PyDict_MINSIZE THEN {"smalltable"} ELSE Addresses \ {address}
  BY DEF Resize
<1> HIDE DEF size
<1>7. /\ slots' \in Tables(size) /\ Filled(slots') = Active(slots')
      /\ Cardinality(Active(slots')) = u
      /\ Pairs(slots') = Pairs(t)
      /\ IsMap(t) => Chained(slots') /\ Once(slots')
  <2>1. CASE size = PyDict_MINSIZE /\ Size(t) = size /\ f = u
    <3>1. Filled(t) = Active(t)
      BY <1>1, <2>1, FS_Subset
    <3> QED
      BY <1>1, <1>6, <2>1, <3>1 DEF IsMap
  <2>2. CASE ~ (size = PyDict_MINSIZE /\ Size(t) = size /\ f = u)
    BY <1>4, <1>5, <1>6, <2>2, RebuildsTheMap DEF IsMap
  <2> QED
    BY <2>1, <2>2
<1>8. Size(slots') = size
  BY <1>4, <1>7, TableSlots
<1>9. TableOK'
  <2>1. /\ Size(slots') \in Sizes /\ slots' \in Tables(Size(slots'))
        /\ used' = Cardinality(Active(slots')) /\ fill' = Cardinality(Filled(slots'))
    BY <1>4, <1>6, <1>7, <1>8
  <2>2. /\ address' \in Addresses \cup {"smalltable"}
        /\ address' = "smalltable" <=> Size(slots') = PyDict_MINSIZE
    BY <1>6, <1>8, DictAssumption
  <2> QED
    BY <2>1, <2>2 DEF TableOK
<1>10. ASSUME IsMap(t) PROVE OwnValues(slots')
  <2>1. \A j \in Active(t) : t[j].value = Class[t[j].key]
    BY <1>10 DEF IsMap, OwnValues
  <2>2. \A j \in Active(slots') : <<Class[slots'[j].key], slots'[j].value>> \in Pairs(t)
    BY <1>7 DEF Pairs
  <2> QED
    BY <2>1, <2>2 DEF Pairs, OwnValues
<1>11. address' = address => Size(slots') = old
  BY <1>6, <1>8 DEF TableOK
<1> QED
  BY <1>5, <1>6, <1>7, <1>8, <1>9, <1>10, <1>11 DEF IsMap

\* A third of the table is virgin, unless a call has missed its turn to resize.
Roomy == ~skipped => 3 * fill < 2 * Size(slots)

\* What a table that is used gets to be: it is in order, has room, and is where it was
\* only if it is as large as it was.
Changed == TableOK' /\ Roomy' /\ (address' = address => Size(slots') = Size(slots))

\* Facts about the table that the operations begin with.
LEMMA Numbers ==
  ASSUME TableOK
  PROVE  /\ Size(slots) \in Sizes /\ Size(slots) \in Nat \ {0}
         /\ slots \in Tables(Size(slots)) /\ DOMAIN slots = 0..Size(slots) - 1
         /\ used \in Nat /\ fill \in Nat
<1>1. Size(slots) \in Sizes /\ slots \in Tables(Size(slots))
  BY DEF TableOK
<1>2. IsFiniteSet(Active(slots)) /\ IsFiniteSet(Filled(slots)) /\ DOMAIN slots = 0..Size(slots) - 1
  BY <1>1, TableSlots
<1> QED
  BY <1>1, <1>2, SizesArePositive, FS_CardinalityType DEF TableOK

\* What filling a slot does to the table that is in use.
LEMMA FillingSlots ==
  ASSUME NEW size \in Sizes, slots \in Tables(size), NEW i \in 0..size - 1,
         NEW e \in Entries, slots[i].value = NULL, NEW t, t = Put(slots, i, e)
  PROVE  /\ t \in Tables(size)
         /\ Cardinality(Active(t)) = Cardinality(Active(slots)) + 1
         /\ Cardinality(Filled(t)) = IF slots[i].key = NULL THEN Cardinality(Filled(slots)) + 1
                                     ELSE Cardinality(Filled(slots))
         /\ Pairs(t) = Pairs(slots) \cup {<<Class[e.key], e.value>>}
         /\ Chained(slots) /\ Reaches(slots, e.key, i) => Chained(t)
         /\ Once(slots) /\ (\A j \in Active(slots) : Class[slots[j].key] # Class[e.key]) => Once(t)
         /\ OwnValues(slots) /\ e.value = Class[e.key] => OwnValues(t)
BY FillingASlot

\* Storing a value in the slot that was found adds its pair to the map.
LEMMA SetItemSets ==
  ASSUME TableOK, Roomy, skipped \in BOOLEAN, NEW k \in Keys, NEW i \in DOMAIN slots,
         NEW n_used \in Nat, SetItem(i, k, n_used)
  PROVE  /\ Changed
         /\ IsMap(slots) /\ Found(slots, k, i) =>
              IsMap(slots') /\ Pairs(slots') = Pairs(slots) \cup {<<Class[k], Class[k]>>}
<1> DEFINE
      size == Size(slots)
      e == [key |-> k, value |-> Class[k]]
      grows == slots[i].value = NULL
      t == IF grows THEN [slots EXCEPT ![i] = e] ELSE [slots EXCEPT ![i].value = Class[k]]
      u == IF grows THEN used + 1 ELSE used
      f == IF slots[i].key = NULL THEN fill + 1 ELSE fill
      crowded == 3 * f >= 2 * Size(t)
      pair == <<Class[k], Class[k]>>
<1>1. size \in Sizes /\ size \in Nat /\ slots \in Tables(size) /\ i \in 0..size - 1
      /\ used \in Nat /\ fill \in Nat
  BY Numbers
<1>2. e \in Entries /\ e.key = k /\ e.value = Class[k]
  BY DEF Entries, Values
<1>3. /\ t \in Tables(size) /\ u = Cardinality(Active(t)) /\ f = Cardinality(Filled(t))
      /\ IsMap(slots) /\ Found(slots, k, i) =>
           IsMap(t) /\ Pairs(t) = Pairs(slots) \cup {pair}
      /\ ~grows => f = fill
  <2>1. CASE grows
    <3>1. t = Put(slots, i, e)
      BY <2>1 DEF Put
    <3> HIDE DEF t, e
    <3>2. /\ t \in Tables(size)
          /\ Cardinality(Active(t)) = Cardinality(Active(slots)) + 1
          /\ Cardinality(Filled(t)) = IF slots[i].key = NULL THEN Cardinality(Filled(slots)) + 1
                                      ELSE Cardinality(Filled(slots))
          /\ Pairs(t) = Pairs(slots) \cup {<<Class[e.key], e.value>>}
          /\ Chained(slots) /\ Reaches(slots, e.key, i) => Chained(t)
          /\ Once(slots) /\ (\A j \in Active(slots) : Class[slots[j].key] # Class[e.key]) => Once(t)
          /\ OwnValues(slots) /\ e.value = Class[e.key] => OwnValues(t)
      <4>1. /\ size \in Sizes /\ slots \in Tables(size) /\ i \in 0..size - 1
            /\ e \in Entries /\ slots[i].value = NULL /\ t = Put(slots, i, e)
        BY <1>1, <1>2, <2>1, <3>1
      <4> HIDE DEF size, grows, u, f, crowded
      <4> QED
        BY <4>1, FillingSlots
    <3>3. ASSUME Found(slots, k, i)
          PROVE  /\ Reaches(slots, k, i)
                 /\ \A j \in Active(slots) : Class[slots[j].key] # Class[k]
      <4>1. slots[i].value = NULL
        BY <2>1
      <4> HIDE DEF size, grows, u, f, crowded
      <4>2. size \in Sizes /\ slots \in Tables(size)
        BY <1>1
      <4>3. DOMAIN slots = 0..size - 1 /\ \A j \in 0..size - 1 : j \in Active(slots) <=> slots[j].key \in Keys
        BY <4>2, TableSlots
      <4>4. \A j \in Active(slots) : slots[j].key \in Keys
        BY <4>3 DEF Active
      <4> QED
        BY <3>3, <4>1, <4>4 DEF Found, Equal
    <3> QED
      BY <1>2, <2>1, <3>2, <3>3 DEF IsMap, TableOK
  <2>2. CASE ~grows
    <3>1. t = Revalued(slots, i, k)
      BY <2>2 DEF Revalued
    <3> HIDE DEF t
    <3>2. /\ t \in Tables(size) /\ Active(t) = Active(slots) /\ Filled(t) = Filled(slots)
          /\ OwnValues(slots) /\ slots[i].key \in Equal(k) => t = slots
      BY <1>1, <2>2, <3>1, Replacing
    <3>3. slots[i].key # NULL /\ i \in Active(slots)
      BY <1>1, <2>2, TableSlots
    <3>4. ASSUME IsMap(slots), Found(slots, k, i) PROVE pair \in Pairs(slots) /\ t = slots
      <4>1. slots[i].key \in Equal(k) /\ slots[i].value = Class[slots[i].key]
        BY <2>2, <3>3, <3>4 DEF Found, IsMap, OwnValues
      <4>2. Class[slots[i].key] = Class[k]
        BY <4>1 DEF Equal
      <4> QED
        BY <3>2, <3>3, <3>4, <4>1, <4>2 DEF Pairs, IsMap
    <3> QED
      BY <2>2, <3>2, <3>3, <3>4 DEF TableOK
  <2> QED
    BY <2>1, <2>2
<1>4. /\ IF u > n_used /\ crowded THEN Resize(t, u, f, GrowthRate * u)
         ELSE slots' = t /\ used' = u /\ fill' = f /\ UNCHANGED address
      /\ skipped' = (skipped \/ (grows /\ crowded /\ u <= n_used))
  BY Zenon DEF SetItem
<1>5. u \in Nat /\ f \in Nat
  BY <1>1
<1> HIDE DEF t, u, f, e
<1>6. CASE u > n_used /\ crowded
  <2>1. Resize(t, u, f, GrowthRate * u)
    BY <1>4, <1>6
  <2>2. /\ TableOK' /\ 3 * fill' < 2 * Size(slots')
        /\ Pairs(slots') = Pairs(t) /\ (IsMap(t) => IsMap(slots'))
        /\ address' = address => Size(slots') = size
    <3> HIDE DEF crowded, grows, pair
    <3> QED
      BY <1>1, <1>3, <2>1, Resizing
  <2> QED
    BY <1>3, <2>2 DEF Changed, Roomy
<1>7. CASE ~ (u > n_used /\ crowded)
  <2>1. slots' = t /\ used' = u /\ fill' = f /\ address' = address
    BY <1>4, <1>7
  <2>2. Size(t) = size
    BY <1>1, <1>3, TableSlots
  <2>3. TableOK'
    BY <1>1, <1>3, <2>1, <2>2 DEF TableOK
  <2>4. Roomy'
    <3> SUFFICES ASSUME ~skipped' PROVE 3 * f < 2 * size
      BY <2>1, <2>2 DEF Roomy
    <3>1. ~skipped /\ ~ (grows /\ crowded /\ u <= n_used)
      BY <1>4
    <3>2. CASE ~crowded
      BY <1>1, <1>5, <2>2, <3>2
    <3>3. CASE ~grows
      BY <1>3, <3>1, <3>3 DEF Roomy
    <3> QED
      BY <1>5, <1>7, <3>1, <3>2, <3>3
  <2> QED
    BY <1>3, <2>1, <2>2, <2>3, <2>4 DEF Changed
<1> QED
  BY <1>6, <1>7

\* Deleting what was found removes its pair from the map, and nothing if it has none.
LEMMA DelItemDeletes ==
  ASSUME TableOK, Roomy, NEW i \in DOMAIN slots, DelItem(i)
  PROVE  /\ Changed
         /\ IsMap(slots) => IsMap(slots')
         /\ \A k \in Keys : IsMap(slots) /\ Found(slots, k, i) =>
              Pairs(slots') = Pairs(slots) \ {<<Class[k], Class[k]>>}
<1>1. Size(slots) \in Sizes /\ slots \in Tables(Size(slots)) /\ i \in 0..Size(slots) - 1
      /\ used \in Nat
  BY Numbers
<1>2. fill' = fill /\ address' = address /\ skipped' = skipped
  BY DEF DelItem
<1>3. CASE slots[i].value = NULL
  <2>1. slots' = slots /\ used' = used
    BY <1>3 DEF DelItem
  <2>2. ASSUME NEW k \in Keys, IsMap(slots), Found(slots, k, i)
        PROVE  <<Class[k], Class[k]>> \notin Pairs(slots)
    <3>1. \A j \in Active(slots) : slots[j].key \in Keys /\ slots[j].key \notin Equal(k)
      BY <1>1, <1>3, <2>2, TableSlots DEF Found, Active
    <3> QED
      BY <3>1 DEF Equal, Pairs
  <2> QED
    BY <1>2, <2>1, <2>2 DEF Changed, TableOK, Roomy
<1>4. CASE slots[i].value # NULL
  <2>1. slots' = Put(slots, i, DummySlot) /\ used' = used - 1
    BY <1>4 DEF DelItem, Put
  <2>2. /\ slots' \in Tables(Size(slots))
        /\ Filled(slots') = Filled(slots)
        /\ Cardinality(Active(slots')) = Cardinality(Active(slots)) - 1
        /\ IsMap(slots) => IsMap(slots')
             /\ Pairs(slots') = Pairs(slots) \ {<<Class[slots[i].key], Class[slots[i].key]>>}
    BY <1>1, <1>4, <2>1, Deleting
  <2>3. Size(slots') = Size(slots)
    BY <1>1, <2>2, TableSlots
  <2>4. \A k \in Keys : Found(slots, k, i) => Class[slots[i].key] = Class[k]
    BY <1>4 DEF Found, Equal
  <2>5. TableOK'
    BY <1>1, <1>2, <2>1, <2>2, <2>3 DEF TableOK
  <2>6. Roomy'
    BY <1>2, <2>3 DEF Roomy
  <2> QED
    BY <2>2, <2>3, <2>4, <2>5, <2>6 DEF Changed
<1> QED
  BY <1>3, <1>4

\* An empty table is a map.
LEMMA EmptyTable ==
  LET t == Empty(PyDict_MINSIZE) IN
  /\ PyDict_MINSIZE \in Sizes /\ t \in Tables(PyDict_MINSIZE) /\ Size(t) = PyDict_MINSIZE
  /\ Active(t) = {} /\ Filled(t) = {} /\ IsMap(t)
<1>1. PyDict_MINSIZE \in Sizes
  BY SizesArePositive
<1>2. Empty(PyDict_MINSIZE) \in Tables(PyDict_MINSIZE)
  BY DEF Empty, Tables, Contents
<1>3. Active(Empty(PyDict_MINSIZE)) = {} /\ Filled(Empty(PyDict_MINSIZE)) = {}
  BY DEF Empty, EmptySlot, Active, Filled
<1> QED
  BY <1>1, <1>2, <1>3, TableSlots DEF IsMap, Chained, Once, OwnValues

LEMMA ClearTableClears ==
  ASSUME TableOK, ClearTable
  PROVE  Changed /\ IsMap(slots')
<1>1. /\ slots' = Empty(PyDict_MINSIZE) /\ used' = 0 /\ fill' = 0
      /\ address' = "smalltable"
  BY DEF ClearTable
<1>2. Cardinality({}) = 0
  BY FS_EmptySet
<1>3. TableOK'
  BY <1>1, <1>2, EmptyTable DEF TableOK
<1>4. Roomy'
  BY <1>1, EmptyTable, SizesArePositive DEF Roomy
<1>5. address' = address => Size(slots') = Size(slots)
  BY <1>1, EmptyTable DEF TableOK
<1> QED
  BY <1>1, <1>3, <1>4, <1>5, EmptyTable DEF Changed

-------------------------------------------------------------------------------
(* The invariant.                                                          *)

Lookups ==
  [op : {"get", "set", "del"}, key : Keys, n_used : Nat,
   at : {"compare", "return", "decref"}, n : Nat,
   freeslot : Nat \cup {NULL}, startkey : Keys \cup {NULL},
   ep0 : Addresses \cup {"smalltable"}, mask : Sizes, ep : Nat]

\* The suspended call is in the table that it looked at, as long as it compares there.
CallOK ==
  look # NULL =>
    /\ look \in Lookups
    /\ look.at = "compare" =>
         /\ look.n <= 2 * look.mask /\ look.ep < look.mask /\ look.startkey \in Keys
         /\ look.freeslot # NULL => look.freeslot < look.mask
    /\ look.at = "return" => look.ep < Size(slots)

\* What it knows is true, unless it was made false behind it.
CallKnows ==
  look # NULL /\ ~dirty =>
    /\ look.at = "compare" =>
         /\ address = look.ep0 /\ Size(slots) = look.mask
         /\ look.ep = Probe(slots, look.key)[look.n]
         /\ Passed(slots, look.key, look.n, look.freeslot)
    /\ look.at = "return" /\ ~spoiled => Found(slots, look.key, look.ep)

Histories == dirty \in BOOLEAN /\ spoiled \in BOOLEAN /\ skipped \in BOOLEAN

DictInv ==
  TableOK /\ Roomy /\ Histories /\ CallOK /\ CallKnows /\ (~spoiled => IsMap(slots))

LEMMA DictInitInv == DictInit => DictInv
<1> SUFFICES ASSUME DictInit PROVE DictInv
  OBVIOUS
<1>1. /\ slots = Empty(PyDict_MINSIZE) /\ used = 0 /\ fill = 0 /\ address = "smalltable"
      /\ look = NULL /\ dirty = FALSE /\ spoiled = FALSE /\ skipped = FALSE
  BY DEF DictInit
<1>2. Cardinality({}) = 0 /\ PyDict_MINSIZE \in Nat \ {0}
  BY FS_EmptySet, DictAssumption
<1>3. TableOK /\ Roomy /\ IsMap(slots)
  BY <1>1, <1>2, EmptyTable DEF TableOK, Roomy
<1>4. Histories /\ CallOK /\ CallKnows
  BY <1>1 DEF Histories, CallOK, CallKnows
<1> QED
  BY <1>3, <1>4 DEF DictInv

\* The loop of lookdict, from a call that knows what it has passed to one that knows more.
LEMMA Scanning ==
  ASSUME DictInv, NEW call \in Lookups, NEW n \in Nat, NEW free,
         free # NULL => free \in 0..Size(slots) - 1,
         Scan(call, n, free), UNCHANGED <<slots, used, fill, address>>,
         dirty' \in BOOLEAN, spoiled' = spoiled,
         ~dirty' => Passed(slots, call.key, n, free)
  PROVE  CallOK' /\ CallKnows'
<1> DEFINE
      k == call.key
      size == Size(slots)
      p == Probe(slots, k)
      keys == Ends(k) \cup Compared(k)
      stops == Stops(slots, k, n, keys)
      m == Min(stops)
      f == IF free # NULL THEN free ELSE FreeSlot(slots, k, n, m)
      l == slots[p[m]].key
      ep == IF l = NULL /\ f # NULL THEN f ELSE p[m]
<1>1. /\ size \in Sizes /\ size \in Nat \ {0} /\ slots \in Tables(size) /\ k \in Keys
      /\ address \in Addresses \cup {"smalltable"} /\ (~spoiled => Chained(slots))
  BY Numbers DEF DictInv, TableOK, Lookups, IsMap
<1>2. stops # {}
      /\ look' = [call EXCEPT
           !.at = IF l \in Ends(k) THEN "return" ELSE "compare",
           !.n = m, !.freeslot = f, !.startkey = l,
           !.ep0 = address, !.mask = size, !.ep = ep]
  BY Zenon DEF Scan
<1>3. {NULL} \cup Equal(k) \subseteq keys
  BY <1>1, DictAssumption DEF Ends, Equal, Compared
<1>4. /\ m \in 0..2 * size /\ n <= m /\ l \in keys
      /\ f = NULL \/ f = free \/ f \in 0..size - 1
      /\ ~dirty' => Passed(slots, k, m, f)
  <2> HIDE DEF keys, stops, m, f
  <2>1. /\ m \in 0..2 * size /\ n <= m /\ slots[p[m]].key \in keys
        /\ f = NULL \/ f = free \/ f \in 0..size - 1
        /\ Passed(slots, k, n, free) => Passed(slots, k, m, f)
    <3>1. m = Min(Stops(slots, k, n, keys)) /\ Stops(slots, k, n, keys) # {}
          /\ f = IF free # NULL THEN free ELSE FreeSlot(slots, k, n, m)
      BY <1>2 DEF stops, m, f
    <3> HIDE DEF k, size
    <3> QED
      BY <1>1, <1>3, <3>1, GoingOn
  <2> QED
    BY <2>1
<1>5. f = NULL \/ f \in 0..size - 1
  BY <1>4
<1>6. p \in [0..2 * size -> 0..size - 1]
  BY <1>1, Probing
<1> HIDE DEF m, f
<1>7. p[m] \in 0..size - 1 /\ ep \in 0..size - 1
  BY <1>4, <1>5, <1>6
<1>8. l \in Keys \cup {NULL} /\ (l \notin Ends(k) => l \in Keys)
  BY <1>1, <1>4 DEF Ends, Compared
<1> HIDE DEF l, ep
<1>9. look' \in Lookups
  <2> DEFINE at == IF l \in Ends(k) THEN "return" ELSE "compare"
  <2>1. /\ m \in Nat /\ f \in Nat \cup {NULL} /\ ep \in Nat
        /\ at \in {"compare", "return", "decref"}
    BY <1>1, <1>4, <1>5, <1>7
  <2>2. look' = [call EXCEPT !.at = at, !.n = m, !.freeslot = f, !.startkey = l,
                             !.ep0 = address, !.mask = size, !.ep = ep]
    BY <1>2
  <2>3. l \in Keys \cup {NULL} /\ address \in Addresses \cup {"smalltable"} /\ size \in Sizes
    BY <1>1, <1>8
  <2> HIDE DEF size, at, k
  <2> QED
    BY <2>1, <2>2, <2>3 DEF Lookups
<1>10. /\ look'.key = k /\ look'.n = m /\ look'.freeslot = f /\ look'.startkey = l
       /\ look'.ep0 = address /\ look'.mask = size /\ look'.ep = ep
       /\ look'.at = IF l \in Ends(k) THEN "return" ELSE "compare"
  BY <1>2 DEF Lookups
<1>11. CallOK'
  BY <1>1, <1>4, <1>5, <1>7, <1>8, <1>9, <1>10 DEF CallOK
<1>12. ASSUME ~dirty', ~spoiled, l \in Ends(k) PROVE Found(slots, k, ep)
  <2>1. l \in {NULL} \cup Equal(k) /\ Chained(slots)
    BY <1>1, <1>12 DEF Ends, Equal
  <2>2. Found(slots, k, IF slots[p[m]].key = NULL /\ f # NULL THEN f ELSE p[m])
    BY <1>1, <1>4, <1>12, <2>1, StoppingFinds DEF l
  <2> QED
    BY <2>2 DEF ep, l
<1>13. l \notin Ends(k) => ep = p[m]
  BY DEF ep, Ends
<1>14. CallKnows'
  <2> SUFFICES ASSUME ~dirty' 
               PROVE  /\ look'.at = "compare" =>
                           /\ address' = look'.ep0 /\ Size(slots') = look'.mask
                           /\ look'.ep = Probe(slots', look'.key)[look'.n]
                           /\ Passed(slots', look'.key, look'.n, look'.freeslot)
                      /\ look'.at = "return" /\ ~spoiled' => Found(slots', look'.key, look'.ep)
    BY DEF CallKnows
  <2>1. slots' = slots /\ address' = address
    OBVIOUS
  <2>2. ASSUME look'.at = "compare"
        PROVE  /\ address' = look'.ep0 /\ Size(slots') = look'.mask
               /\ look'.ep = Probe(slots', look'.key)[look'.n]
               /\ Passed(slots', look'.key, look'.n, look'.freeslot)
    BY <1>4, <1>10, <1>13, <2>1, <2>2
  <2>3. ASSUME look'.at = "return", ~spoiled' PROVE Found(slots', look'.key, look'.ep)
    BY <1>10, <1>12, <2>1, <2>3
  <2> QED
    BY <2>2, <2>3
<1> QED
  BY <1>11, <1>14

\* A call that begins.
LEMMA CallInv ==
  ASSUME DictInv, NEW op \in {"get", "set", "del"}, NEW k \in Keys, Call(op, k)
  PROVE  DictInv'
<1> DEFINE call == [op |-> op, key |-> k, n_used |-> used, at |-> "compare", n |-> 0,
                    freeslot |-> NULL, startkey |-> NULL, ep0 |-> address,
                    mask |-> Size(slots), ep |-> 0]
<1>1. /\ Scan(call, 0, NULL) /\ dirty' = FALSE
      /\ UNCHANGED <<slots, used, fill, address, spoiled, skipped>>
  BY DEF Call
<1>2. used \in Nat /\ Size(slots) \in Sizes /\ address \in Addresses \cup {"smalltable"}
  BY Numbers DEF DictInv, TableOK
<1>3. call \in Lookups /\ call.key = k
  BY <1>2 DEF Lookups
<1>4. Passed(slots, call.key, 0, NULL)
  BY NothingPassed
<1> HIDE DEF call
<1>5. CallOK' /\ CallKnows'
  BY <1>1, <1>3, <1>4, Scanning
<1> QED
  BY <1>1, <1>5 DEF DictInv, TableOK, Roomy, Histories

\* A comparison that returns.
LEMMA CompareReturnsInv ==
  ASSUME DictInv, CompareReturns
  PROVE  DictInv'
<1>1. /\ look # NULL /\ look.at = "compare" /\ ~ (look.ep0 = address /\ look.mask # Size(slots))
      /\ UNCHANGED <<slots, used, fill, address, spoiled, skipped>>
  BY DEF CompareReturns, InCompare, Elsewhere
<1>2. /\ look \in Lookups /\ look.key \in Keys /\ look.n \in Nat
      /\ look.ep \in Nat /\ look.ep < look.mask /\ look.startkey \in Keys /\ look.mask \in Nat
      /\ look.freeslot # NULL => look.freeslot \in 0..look.mask - 1
  <2>1. look \in Lookups
    BY <1>1 DEF DictInv, CallOK
  <2>2. look.mask \in Nat /\ look.freeslot \in Nat \cup {NULL}
    BY <2>1, SizesArePositive DEF Lookups
  <2> QED
    BY <1>1, <2>1, <2>2 DEF DictInv, CallOK, Lookups
<1>3. /\ Size(slots) \in Sizes /\ Size(slots) \in Nat /\ slots \in Tables(Size(slots))
      /\ DOMAIN slots = 0..Size(slots) - 1
  BY Numbers DEF DictInv
<1>4. CallOK' /\ CallKnows'
  <2>1. CASE ~Untouched
    <3>1. Scan(look, 0, NULL) /\ dirty' = FALSE
      BY <2>1 DEF CompareReturns
    <3>2. Passed(slots, look.key, 0, NULL)
      BY NothingPassed
    <3> QED
      BY <1>1, <1>2, <3>1, <3>2, Scanning
  <2>2. CASE Untouched /\ look.startkey \in Equal(look.key)
    <3>1. look' = [look EXCEPT !.at = "return"] /\ dirty' = dirty
      BY <2>2 DEF CompareReturns
    <3>2. look' \in Lookups /\ look'.at = "return" /\ look'.ep = look.ep /\ look'.key = look.key
      BY <1>2, <3>1 DEF Lookups
    <3>3. look.mask = Size(slots) /\ slots[look.ep].key = look.startkey
      BY <1>1, <2>2 DEF Untouched
    <3>4. look.ep \in 0..Size(slots) - 1
      BY <1>2, <1>3, <3>3
    <3>5. slots[look.ep].value # NULL
      BY <1>2, <1>3, <3>3, <3>4, TableSlots
    <3>6. Found(slots, look.key, look.ep)
      BY <1>3, <2>2, <3>3, <3>4, <3>5 DEF Found
    <3>7. CallOK'
      BY <1>1, <1>2, <3>2, <3>3 DEF CallOK
    <3>8. CallKnows'
      BY <1>1, <3>2, <3>6 DEF CallKnows
    <3> QED
      BY <3>7, <3>8
  <2>3. CASE Untouched /\ look.startkey \notin Equal(look.key)
    <3>1. Scan(look, look.n + 1, look.freeslot) /\ dirty' = dirty
      BY <2>3 DEF CompareReturns
    <3>2. look.mask = Size(slots) /\ slots[look.ep].key = look.startkey
      BY <1>1, <2>3 DEF Untouched
    <3>3. ASSUME ~dirty PROVE Passed(slots, look.key, look.n + 1, look.freeslot)
      <4>1. look.ep = Probe(slots, look.key)[look.n]
            /\ Passed(slots, look.key, look.n, look.freeslot)
        BY <1>1, <3>3 DEF DictInv, CallKnows
      <4>2. \A m \in 0..(look.n + 1) - 1 : m = look.n \/ m \in 0..look.n - 1
        BY <1>2
      <4>3. \A m \in 0..look.n - 1 : m \in 0..(look.n + 1) - 1
        BY <1>2
      <4>4. slots[look.ep].key \notin {NULL} \cup Equal(look.key)
        BY <1>2, <2>3, <3>2, DictAssumption
      <4> QED
        BY <4>1, <4>2, <4>3, <4>4 DEF Passed
    <3>4. dirty' \in BOOLEAN /\ look.n + 1 \in Nat
      BY <1>2, <3>1 DEF DictInv, Histories
    <3>5. ~dirty' => Passed(slots, look.key, look.n + 1, look.freeslot)
      BY <3>1, <3>3
    <3> QED
      BY <1>1, <1>2, <3>1, <3>2, <3>4, <3>5, Scanning
  <2> QED
    BY <2>1, <2>2, <2>3
<1>5. dirty' \in BOOLEAN
  BY DEF CompareReturns, DictInv, Histories
<1> QED
  BY <1>1, <1>4, <1>5 DEF DictInv, TableOK, Roomy, Histories

\* A call that ends without a change of the table.
LEMMA NoCallInv ==
  ASSUME DictInv, look' = NULL, dirty' = FALSE, spoiled' \in {spoiled, TRUE},
         UNCHANGED <<slots, used, fill, address, skipped>>
  PROVE  DictInv'
<1>1. CallOK' /\ CallKnows'
  BY DEF CallOK, CallKnows
<1>2. spoiled' \in BOOLEAN /\ (~spoiled' => ~spoiled)
  BY DEF DictInv, Histories
<1> QED
  BY <1>1, <1>2 DEF DictInv, TableOK, Roomy, Histories

\* The end of a call: what it looked up is used.
LEMMA ReturnInv ==
  ASSUME DictInv, Return
  PROVE  /\ DictInv'
         /\ ~dirty /\ ~spoiled =>
              LET pair == <<Class[look.key], Class[look.key]>> IN
              CASE look.op = "set" -> Pairs(slots') = Pairs(slots) \cup {pair}
                [] look.op = "del" -> Pairs(slots') = Pairs(slots) \ {pair}
                [] OTHER -> slots' = slots
<1> DEFINE k == look.key
           i == look.ep
           pair == <<Class[k], Class[k]>>
           done == look.op = "set" /\ slots[look.ep].value # NULL
<1>1. /\ look # NULL /\ look.at = "return" /\ dirty' = FALSE
      /\ spoiled' = (spoiled \/ (dirty /\ look.op # "get"))
      /\ look' = IF done THEN [look EXCEPT !.at = "decref"] ELSE NULL
  BY DEF Return
<1>2. /\ look \in Lookups /\ k \in Keys /\ look.n_used \in Nat /\ i \in DOMAIN slots
      /\ look.op \in {"get", "set", "del"}
  <2>1. look \in Lookups /\ i < Size(slots)
    BY <1>1 DEF DictInv, CallOK
  <2>2. i \in Nat /\ DOMAIN slots = 0..Size(slots) - 1 /\ Size(slots) \in Nat
    BY <2>1, Numbers DEF Lookups, DictInv
  <2>3. i \in DOMAIN slots
    BY <2>1, <2>2
  <2> QED
    BY <2>1, <2>3 DEF Lookups
<1>3. TableOK /\ Roomy /\ Histories /\ (~spoiled => IsMap(slots))
      /\ (~dirty /\ ~spoiled => Found(slots, k, i))
  BY <1>1 DEF DictInv, CallKnows
<1>4. CallOK' /\ CallKnows'
  <2>1. CASE done
    <3>1. look' \in Lookups /\ look'.at = "decref"
      BY <1>1, <1>2, <2>1 DEF Lookups
    <3> QED
      BY <3>1 DEF CallOK, CallKnows
  <2>2. CASE ~done
    BY <1>1, <2>2 DEF CallOK, CallKnows
  <2> QED
    BY <2>1, <2>2
<1>5. ASSUME look.op = "set"
      PROVE  /\ TableOK' /\ Roomy' /\ skipped' \in BOOLEAN
             /\ ~dirty /\ ~spoiled => IsMap(slots') /\ Pairs(slots') = Pairs(slots) \cup {pair}
  <2>1. SetItem(i, k, look.n_used)
    BY <1>1, <1>5 DEF Return
  <2>2. skipped' \in BOOLEAN
    BY <2>1 DEF SetItem
  <2>3. skipped \in BOOLEAN
    BY <1>3 DEF Histories
  <2> HIDE DEF i, k
  <2> QED
    BY <1>2, <1>3, <2>1, <2>2, <2>3, SetItemSets DEF Changed
<1>6. ASSUME look.op = "del"
      PROVE  /\ TableOK' /\ Roomy' /\ skipped' \in BOOLEAN
             /\ ~dirty /\ ~spoiled => IsMap(slots') /\ Pairs(slots') = Pairs(slots) \ {pair}
  <2>1. DelItem(i)
    BY <1>1, <1>6 DEF Return
  <2>2. skipped' \in BOOLEAN
    BY <1>3, <2>1 DEF DelItem, Histories
  <2> HIDE DEF i, k
  <2> QED
    BY <1>2, <1>3, <2>1, <2>2, DelItemDeletes DEF Changed
<1>7. ASSUME look.op = "get"
      PROVE  /\ TableOK' /\ Roomy' /\ skipped' \in BOOLEAN
             /\ slots' = slots
  <2>1. UNCHANGED <<slots, used, fill, address, skipped>>
    BY <1>1, <1>7 DEF Return
  <2> QED
    BY <1>3, <2>1 DEF TableOK, Roomy, Histories
<1>8. spoiled' \in BOOLEAN /\ dirty' \in BOOLEAN
      /\ (~spoiled' => ~spoiled /\ (look.op = "get" \/ ~dirty))
  BY <1>1, <1>3 DEF Histories
<1>9. ~spoiled' => IsMap(slots')
  BY <1>2, <1>3, <1>5, <1>6, <1>7, <1>8
<1>10. DictInv'
  BY <1>2, <1>4, <1>5, <1>6, <1>7, <1>8, <1>9 DEF DictInv, Histories
<1>11. ASSUME ~dirty, ~spoiled
       PROVE  CASE look.op = "set" -> Pairs(slots') = Pairs(slots) \cup {pair}
                [] look.op = "del" -> Pairs(slots') = Pairs(slots) \ {pair}
                [] OTHER -> slots' = slots
  BY <1>2, <1>5, <1>6, <1>7, <1>11
<1> QED
  BY <1>10, <1>11

\* The second look at the size of the table, when the old value is gone.
LEMMA ReplacedInv ==
  ASSUME DictInv, Replaced
  PROVE  DictInv' /\ Pairs(slots') = Pairs(slots)
<1>1. look' = NULL /\ UNCHANGED <<dirty, spoiled, skipped>>
  BY DEF Replaced
<1>2. TableOK' /\ Roomy' /\ Pairs(slots') = Pairs(slots) /\ (IsMap(slots) => IsMap(slots'))
  <2>1. CASE used > look.n_used /\ 3 * fill >= 2 * Size(slots)
    <3>1. Resize(slots, used, fill, GrowthRate * used)
      BY <2>1 DEF Replaced
    <3>2. TableOK /\ Size(slots) \in Sizes /\ slots \in Tables(Size(slots))
          /\ used = Cardinality(Active(slots)) /\ fill = Cardinality(Filled(slots))
      BY DEF DictInv, TableOK
    <3> QED
      BY <3>1, <3>2, Resizing DEF Roomy
  <2>2. CASE ~ (used > look.n_used /\ 3 * fill >= 2 * Size(slots))
    <3>1. UNCHANGED <<slots, used, fill, address>>
      BY <2>2 DEF Replaced
    <3> QED
      BY <1>1, <3>1 DEF DictInv, TableOK, Roomy
  <2> QED
    BY <2>1, <2>2
<1>3. CallOK' /\ CallKnows'
  BY <1>1 DEF CallOK, CallKnows
<1> QED
  BY <1>1, <1>2, <1>3 DEF DictInv, Histories

\* Other calls, which run from beginning to end, tell on the suspended one by dirty.
LEMMA WholeCallInv ==
  ASSUME DictInv, WholeCall
  PROVE  DictInv'
<1>1. /\ look # NULL => look.at \in {"compare", "decref"}
      /\ dirty' = (InCompare /\ (dirty \/ PassedSlotsChange))
      /\ UNCHANGED <<look, spoiled>>
  BY DEF WholeCall
<1>2. TableOK /\ Roomy /\ skipped \in BOOLEAN /\ dirty \in BOOLEAN /\ (~spoiled => IsMap(slots))
  BY DEF DictInv, Histories
<1>3. /\ Size(slots) \in Sizes /\ slots \in Tables(Size(slots))
      /\ DOMAIN slots = 0..Size(slots) - 1 /\ used \in Nat
  BY <1>2, Numbers
<1>4. Changed /\ skipped' \in BOOLEAN /\ (~spoiled => IsMap(slots'))
  <2>1. ASSUME NEW k \in Keys, Terminates(slots, k), SetItem(Find(slots, k), k, used)
        PROVE  Changed /\ skipped' \in BOOLEAN /\ (~spoiled => IsMap(slots'))
    <3>1. Find(slots, k) \in DOMAIN slots /\ (~spoiled => Found(slots, k, Find(slots, k)))
      BY <1>2, <1>3, <2>1, FindFinds DEF IsMap
    <3>2. skipped' \in BOOLEAN
      BY <2>1 DEF SetItem
    <3> QED
      BY <1>2, <1>3, <2>1, <3>1, <3>2, SetItemSets
  <2>2. ASSUME NEW i \in DOMAIN slots, DelItem(i)
        PROVE  Changed /\ skipped' \in BOOLEAN /\ (~spoiled => IsMap(slots'))
    <3>1. skipped' = skipped
      BY <2>2 DEF DelItem
    <3> QED
      BY <1>2, <2>2, <3>1, DelItemDeletes
  <2>3. CASE ClearTable
    <3>1. skipped' = skipped
      BY <2>3 DEF ClearTable
    <3> QED
      BY <1>2, <2>3, <3>1, ClearTableClears
  <2>4. CASE PopItem
    BY <2>2, <2>4 DEF PopItem, Active
  <2>5. CASE \E k \in Keys :
               /\ Terminates(slots, k)
               /\ LET i == Find(slots, k) IN SetItem(i, k, used) \/ DelItem(i)
    <3>1. PICK k \in Keys : /\ Terminates(slots, k)
                            /\ SetItem(Find(slots, k), k, used) \/ DelItem(Find(slots, k))
      BY <2>5
    <3>2. Find(slots, k) \in DOMAIN slots
      BY <1>3, <3>1, FindFinds
    <3> QED
      BY <2>1, <2>2, <3>1, <3>2
  <2> QED
    BY <2>3, <2>4, <2>5 DEF WholeCall
<1>5. dirty' \in BOOLEAN
  BY <1>1
<1>6. CallOK'
  <2> SUFFICES ASSUME look # NULL
               PROVE  /\ look \in Lookups
                      /\ look.at = "compare" =>
                           /\ look.n <= 2 * look.mask /\ look.ep < look.mask
                           /\ look.startkey \in Keys
                           /\ look.freeslot # NULL => look.freeslot < look.mask
                      /\ look.at # "return"
    BY <1>1 DEF CallOK
  <2> QED
    BY <1>1 DEF DictInv, CallOK
<1>7. CallKnows'
  <2> SUFFICES ASSUME look # NULL, ~dirty', look.at = "compare"
               PROVE  /\ address' = look.ep0 /\ Size(slots') = look.mask
                      /\ look.ep = Probe(slots', look.key)[look.n]
                      /\ Passed(slots', look.key, look.n, look.freeslot)
    BY <1>1 DEF CallKnows
  <2>1. ~dirty /\ ~PassedSlotsChange
    BY <1>1 DEF InCompare
  <2>2. /\ address = look.ep0 /\ Size(slots) = look.mask
        /\ look.ep = Probe(slots, look.key)[look.n]
        /\ Passed(slots, look.key, look.n, look.freeslot)
    BY <2>1 DEF DictInv, CallKnows
  <2>3. /\ address' = address
        /\ \A m \in 0..look.n - 1 :
             LET i == Probe(slots, look.key)[m] IN slots'[i] = slots[i]
    BY <2>1, <2>2 DEF PassedSlotsChange
  <2>4. Size(slots') = Size(slots) /\ slots' \in Tables(Size(slots))
    BY <1>4, <2>3 DEF Changed, TableOK
  <2>5. look.key \in Keys
    BY DEF DictInv, CallOK, Lookups
  <2>6. Probe(slots', look.key) = Probe(slots, look.key)
    BY <1>3, <2>4, <2>5, Probing
  <2>7. Passed(slots', look.key, look.n, look.freeslot)
    BY <2>2, <2>3, <2>6 DEF Passed
  <2> QED
    BY <2>2, <2>3, <2>4, <2>6, <2>7
<1> QED
  BY <1>1, <1>2, <1>4, <1>5, <1>6, <1>7 DEF DictInv, Changed, Histories

LEMMA DictNextInv == DictInv /\ [DictNext]_dictVars => DictInv'
<1> SUFFICES ASSUME DictInv, [DictNext]_dictVars PROVE DictInv'
  OBVIOUS
<1>1. ASSUME NEW op \in {"get", "set", "del"}, NEW k \in Keys, Call(op, k) PROVE DictInv'
  BY <1>1, CallInv
<1>2. CASE CompareReturns
  BY <1>2, CompareReturnsInv
<1>3. CASE CompareLost
  BY <1>3, NoCallInv DEF CompareLost
<1>4. CASE CompareRaises
  BY <1>4, NoCallInv DEF CompareRaises
<1>5. CASE Return
  BY <1>5, ReturnInv
<1>6. CASE Replaced
  BY <1>6, ReplacedInv
<1>7. CASE WholeCall
  BY <1>7, WholeCallInv
<1>8. CASE UNCHANGED dictVars
  BY <1>8 DEF dictVars, DictInv, TableOK, Roomy, Histories, CallOK, CallKnows
<1> QED
  BY <1>1, <1>2, <1>3, <1>4, <1>5, <1>6, <1>7, <1>8 DEF DictNext

\* The invariant holds in every behaviour.
LEMMA DictInvHolds == DictSpec => []DictInv
  BY DictInitInv, DictNextInv, PTL DEF DictSpec

\* The table of a dictionary is a map as long as no call has used a slot whose lookup was
\* made false behind it: no two entries have equal keys, each has the value last stored for
\* it, and a lookup that ends has found the entry, or there is none.
THEOREM LookupsFind == DictSpec => []LookupFinds
<1>1. DictInv => LookupFinds
  <2> SUFFICES ASSUME DictInv, ~spoiled PROVE LookupFinds
    BY DEF LookupFinds
  <2>1. IsMap(slots)
    BY DEF DictInv
  <2>2. look # NULL /\ look.at = "return" /\ ~dirty => Found(slots, look.key, look.ep)
    BY DEF DictInv, CallKnows
  <2>3. \A i, j \in Active(slots) : Class[slots[i].key] = Class[slots[j].key] => i = j
    BY <2>1 DEF IsMap, Once
  <2>4. \A i \in Active(slots) : slots[i].value = Class[slots[i].key]
    BY <2>1 DEF IsMap, OwnValues
  <2>5. look # NULL /\ look.at = "return" /\ ~dirty =>
          IF slots[look.ep].value = NULL
          THEN \A i \in Active(slots) : slots[i].key \notin Equal(look.key)
          ELSE slots[look.ep].key \in Equal(look.key)
    BY <2>2 DEF Found
  <2> QED
    BY <2>3, <2>4, <2>5 DEF LookupFinds
<1> QED
  BY <1>1, DictInvHolds, PTL

\* ma_fill counts the slots that are not virgin, and leaves a third of the table: what
\* ends every lookup.
THEOREM VirginSlotRemains == DictSpec => []VirginSlot
<1>1. DictInv => VirginSlot
  BY DEF DictInv, TableOK, Roomy, Filled, VirginSlot
<1> QED
  BY <1>1, DictInvHolds, PTL

\* A call changes its own key and no other, whatever ran inside its comparisons, and the
\* resizing of the table changes no entry.
THEOREM ReturnsDo == DictSpec => ReturnDoes
<1> DEFINE
      Did ==
        /\ look # NULL /\ look.at = "decref" /\ look' = NULL => Pairs(slots') = Pairs(slots)
        /\ look # NULL /\ look.at = "return" /\ ~dirty /\ ~spoiled =>
             LET pair == <<Class[look.key], Class[look.key]>> IN
             CASE look.op = "set" -> Pairs(slots') = Pairs(slots) \cup {pair}
               [] look.op = "del" -> Pairs(slots') = Pairs(slots) \ {pair}
               [] OTHER -> slots' = slots
<1>1. ASSUME DictInv, DictNext PROVE Did
  <2>1. CASE Return
    BY <1>1, <2>1, ReturnInv DEF Return
  <2>2. CASE Replaced
    BY <1>1, <2>2, ReplacedInv DEF Replaced
  <2>3. ASSUME NEW op \in {"get", "set", "del"}, NEW k \in Keys, Call(op, k) PROVE Did
    BY <2>3 DEF Call
  <2>4. CASE CompareReturns \/ CompareLost \/ CompareRaises
    BY <2>4 DEF CompareReturns, CompareLost, CompareRaises, InCompare
  <2>5. CASE WholeCall
    BY <2>5 DEF WholeCall
  <2> QED
    BY <1>1, <2>1, <2>2, <2>3, <2>4, <2>5 DEF DictNext
<1>2. DictInv /\ [DictNext]_dictVars => [Did]_dictVars
  BY <1>1
<1> HIDE DEF Did
<1>3. DictSpec => [][Did]_dictVars
  BY <1>2, DictInvHolds, PTL DEF DictSpec
<1> QED
  BY <1>3 DEF Did, ReturnDoes

===============================================================================
