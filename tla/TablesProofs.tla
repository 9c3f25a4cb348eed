---------------------------- MODULE TablesProofs ----------------------------
(***************************************************************************)
(* Proofs about Tables, for any rows, any page size, any number of calls   *)
(* in flight, of calls asked for, and of refused or lost calls.            *)
(*                                                                         *)
(* The steps of the fifteen tables are first sorted by what they do        *)
(* (Works), then each kind is given the list, objects, calls and page it   *)
(* leaves (Step).  The invariants are proved of these kinds, once for all  *)
(* tables:                                                                 *)
(*   Base      types, one array to a number, calls that fit their list;    *)
(*   Sounds    the rows of every array a handler may still use;            *)
(*   Truth     what the rows show, or are about to show;                   *)
(*   Spinning  a call in flight for every spinner.                         *)
(***************************************************************************)
EXTENDS Tables, FiniteSetTheorems, SequenceTheorems, WellFoundedInduction, TLAPS

-----------------------------------------------------------------------------
(***************************************************************************)
(* Finite sets in order.  The listings of the server and a sorted list are *)
(* chosen among the enumerations of a set; these lemmas say that there is  *)
(* one for every finite set and every strict order of it.                  *)
(***************************************************************************)

(* Among subsets of a finite set there is one that contains no other. *)
LEMMA Smallest ==
  ASSUME NEW S, IsFiniteSet(S), NEW Bad, Bad \subseteq SUBSET S, Bad # {}
  PROVE  \E s \in Bad : \A t \in Bad : t \subseteq s => t = s
<1>1. IsWellFoundedOn(StrictSubsetOrdering(S), SUBSET S)
  BY FS_StrictSubsetOrderingWellFounded, FS_FiniteSubsetsOfFinite
<1>2. PICK s \in Bad : \A t \in Bad : <<t, s>> \notin StrictSubsetOrdering(S)
  BY <1>1, WFMin
<1> QED
  BY <1>2 DEF StrictSubsetOrdering

\* Of two elements one comes before the other, and "before" is transitive.
Orders(R, S) ==
  /\ \A x, y \in S : x = y \/ <<x, y>> \in R \/ <<y, x>> \in R
  /\ \A x, y, z \in S : <<x, y>> \in R /\ <<y, z>> \in R => <<x, z>> \in R
Enumerates(q, R, S) ==
  /\ q \in [1..Cardinality(S) -> S]
  /\ \A i, j \in DOMAIN q : i < j => <<q[i], q[j]>> \in R

(* A finite set that is not empty has a first element. *)
LEMMA FirstElement ==
  ASSUME NEW S, IsFiniteSet(S), S # {}, NEW R, Orders(R, S)
  PROVE  \E m \in S : \A x \in S \ {m} : <<m, x>> \in R
<1> DEFINE Bad == {T \in SUBSET S : T # {} /\ ~ \E m \in T : \A x \in T \ {m} : <<m, x>> \in R}
<1> SUFFICES ASSUME Bad # {} PROVE FALSE
  BY DEF Orders
<1>1. PICK T \in Bad : \A t \in Bad : t \subseteq T => t = T
  <2>1. Bad \subseteq SUBSET S
    OBVIOUS
  <2> HIDE DEF Bad
  <2> QED
    BY <2>1, Smallest
<1>2. PICK y \in T : TRUE
  OBVIOUS
<1>3. T \ {y} # {}
  BY <1>2
<1>4. T \ {y} \notin Bad
  BY <1>1, <1>2
<1>5. PICK m \in T \ {y} : \A x \in (T \ {y}) \ {m} : <<m, x>> \in R
  BY <1>3, <1>4
<1>6. m \in S /\ y \in S /\ m # y /\ T \subseteq S
  BY <1>2, <1>5
<1>7. CASE <<m, y>> \in R
  <2>1. \A x \in T \ {m} : <<m, x>> \in R
    BY <1>5, <1>7
  <2> QED
    BY <1>5, <2>1
<1>8. CASE <<y, m>> \in R
  <2>1. \A x \in T \ {y} : <<y, x>> \in R
    BY <1>5, <1>6, <1>8 DEF Orders
  <2> QED
    BY <1>2, <2>1
<1> QED
  BY <1>6, <1>7, <1>8 DEF Orders

(* A finite set can be enumerated in order. *)
LEMMA Enumerated ==
  ASSUME NEW S, IsFiniteSet(S), NEW R, Orders(R, S)
  PROVE  \E q : Enumerates(q, R, S)
<1> DEFINE Bad == {T \in SUBSET S : ~ \E q : Enumerates(q, R, T)}
<1> SUFFICES ASSUME Bad # {} PROVE FALSE
  OBVIOUS
<1>1. PICK T \in Bad : \A t \in Bad : t \subseteq T => t = T
  <2>1. Bad \subseteq SUBSET S
    OBVIOUS
  <2> HIDE DEF Bad
  <2> QED
    BY <2>1, Smallest
<1>2. IsFiniteSet(T) /\ T \subseteq S
  BY FS_Subset
<1>3. ASSUME T = {} PROVE FALSE
  <2>1. Cardinality(T) = 0
    BY <1>3, FS_EmptySet
  <2>2. Enumerates([i \in {} |-> 0], R, T)
    BY <1>3, <2>1 DEF Enumerates
  <2> QED
    BY <2>2
<1>4. ASSUME T # {} PROVE FALSE
  <2>1. PICK m \in T : \A x \in T \ {m} : <<m, x>> \in R
    <3>1. Orders(R, T)
      BY <1>2 DEF Orders
    <3> QED
      BY <1>2, <1>4, <3>1, FirstElement
  <2>2. T \ {m} \notin Bad
    BY <1>1, <2>1
  <2>3. PICK r : Enumerates(r, R, T \ {m})
    BY <1>2, <2>2
  <2> DEFINE n == Cardinality(T \ {m})
  <2>4. Cardinality(T) = n + 1 /\ n \in Nat
    <3>1. IsFiniteSet(T \ {m}) /\ Cardinality(T \ {m}) = Cardinality(T) - 1
      BY <1>2, <2>1, FS_RemoveElement
    <3>2. Cardinality(T) \in Nat /\ Cardinality(T \ {m}) \in Nat
      BY <1>2, <3>1, FS_CardinalityType
    <3> QED
      BY <3>1, <3>2
  <2> HIDE DEF n
  <2>5. r \in [1..n -> T \ {m}] /\ \A i, j \in 1..n : i < j => <<r[i], r[j]>> \in R
    BY <2>3 DEF Enumerates, n
  <2> DEFINE q == [i \in 1..(n + 1) |-> IF i = 1 THEN m ELSE r[i - 1]]
  <2>6. \A i \in 1..(n + 1) : i # 1 => i - 1 \in 1..n
    BY <2>4
  <2>7. q \in [1..(n + 1) -> T]
    BY <2>1, <2>5, <2>6
  <2>8. \A i, j \in 1..(n + 1) : i < j => <<q[i], q[j]>> \in R
    <3> SUFFICES ASSUME NEW i \in 1..(n + 1), NEW j \in 1..(n + 1), i < j
                 PROVE  <<q[i], q[j]>> \in R
      OBVIOUS
    <3>1. j # 1 /\ j - 1 \in 1..n /\ q[j] = r[j - 1] /\ r[j - 1] \in T \ {m}
      BY <2>4, <2>5, <2>6
    <3>2. CASE i = 1
      BY <2>1, <3>1, <3>2
    <3>3. CASE i # 1
      <4>1. i - 1 \in 1..n /\ i - 1 < j - 1 /\ q[i] = r[i - 1]
        BY <2>4, <2>6, <3>3
      <4> QED
        BY <2>5, <3>1, <4>1
    <3> QED
      BY <3>2, <3>3
  <2>9. Enumerates(q, R, T)
    BY <2>4, <2>7, <2>8 DEF Enumerates
  <2> QED
    BY <2>9
<1> QED
  BY <1>3, <1>4

(* A set of numbers that is not empty has a least one. *)
LEMMA LeastOf ==
  ASSUME NEW S \in SUBSET Nat, S # {}
  PROVE  Least(S) \in S /\ \A y \in S : Least(S) <= y
<1>1. PICK m \in S : \A k \in S : <<k, m>> \notin OpToRel(<, Nat)
  BY NatLessThanWellFounded, WFMin
<1>2. \A k \in S : m <= k
  <2>1. \A k \in S : ~(k < m)
    BY <1>1 DEF OpToRel
  <2> QED
    BY <2>1
<1> QED
  BY <1>2 DEF Least

(* A listing of the server: rows in the order of their ids, each once. *)
LEMMA InOrder ==
  ASSUME NEW S \in SUBSET Ids
  PROVE  /\ IsFiniteSet(S) /\ Cardinality(S) \in Nat
         /\ Descending(S) \in [1..Cardinality(S) -> S]
         /\ \A i, j \in 1..Cardinality(S) : i < j => Descending(S)[i] > Descending(S)[j]
         /\ Ascending(S) \in [1..Cardinality(S) -> S]
         /\ \A i, j \in 1..Cardinality(S) : i < j => Ascending(S)[i] < Ascending(S)[j]
<1>1. IsFiniteSet(S) /\ Cardinality(S) \in Nat /\ S \subseteq Nat
  BY TableAssumption, FS_Subset, FS_CardinalityType
<1> DEFINE Down == {p \in S \X S : p[1] > p[2]}
           Up == {p \in S \X S : p[1] < p[2]}
<1>2. Orders(Down, S) /\ Orders(Up, S)
  BY <1>1 DEF Orders
<1>3. \E q \in [1..Cardinality(S) -> S] : \A i, j \in DOMAIN q : i < j => q[i] > q[j]
  <2> HIDE DEF Down
  <2>1. PICK q : Enumerates(q, Down, S)
    BY <1>1, <1>2, Enumerated
  <2>2. q \in [1..Cardinality(S) -> S] /\ \A i, j \in DOMAIN q : i < j => q[i] > q[j]
    BY <2>1 DEF Enumerates, Down
  <2> QED
    BY <2>2
<1>4. \E q \in [1..Cardinality(S) -> S] : \A i, j \in DOMAIN q : i < j => q[i] < q[j]
  <2> HIDE DEF Up
  <2>1. PICK q : Enumerates(q, Up, S)
    BY <1>1, <1>2, Enumerated
  <2>2. q \in [1..Cardinality(S) -> S] /\ \A i, j \in DOMAIN q : i < j => q[i] < q[j]
    BY <2>1 DEF Enumerates, Up
  <2> QED
    BY <2>2
<1>5. /\ Descending(S) \in [1..Cardinality(S) -> S]
      /\ \A i, j \in DOMAIN Descending(S) : i < j => Descending(S)[i] > Descending(S)[j]
  BY <1>3 DEF Descending
<1>6. /\ Ascending(S) \in [1..Cardinality(S) -> S]
      /\ \A i, j \in DOMAIN Ascending(S) : i < j => Ascending(S)[i] < Ascending(S)[j]
  BY <1>4 DEF Ascending
<1> QED
  BY <1>1, <1>5, <1>6

-----------------------------------------------------------------------------
(* The machinery, under the names of the three interfaces.                 *)

(* The modules of the interfaces share the machinery: what they call Become, say,
   is Become.  For default. *)
LEMMA WordsD ==
  /\ D!None = None /\ D!InFlight = InFlight /\ D!NewGen = NewGen
  /\ D!Unneeded = Unneeded /\ D!Finding = Finding
  /\ \A S : D!Least(S) = Least(S)
  /\ \A n, m : D!CeilDiv(n, m) = CeilDiv(n, m)
  /\ \A l, u : D!Slice(l, u) = Slice(l, u)
  /\ \A op, id, act, from, base : D!Call(op, id, act, from, base) = Call(op, id, act, from, base)
  /\ \A from : D!Loading(from) = Loading(from)
  /\ \A c, from : D!Reloading(c, from) = Reloading(c, from)
  /\ \A c : /\ D!Fresh(c) = Fresh(c) /\ D!FreshObj(c) = FreshObj(c)
            /\ D!Replaced(c) = Replaced(c) /\ D!Spliced(c) = Spliced(c)
            /\ D!Pushed(c) = Pushed(c) /\ D!Copied(c) = Copied(c)
            /\ D!SwitchedBy(c) = SwitchedBy(c)
  /\ \A c, k : D!Without(c, k) = Without(c, k)
  /\ D!Sorted = Sorted
<1>1. /\ D!None = None /\ D!InFlight = InFlight /\ D!Unneeded = Unneeded
      /\ \A S : D!Least(S) = Least(S)
      /\ \A n, m : D!CeilDiv(n, m) = CeilDiv(n, m)
  BY DEF D!None, None, D!InFlight, InFlight, D!Unneeded, Unneeded, D!Least, Least,
         D!CeilDiv, CeilDiv
<1>0. \A S : D!Cardinality(S) = Cardinality(S)
  BY DEF D!Cardinality, Cardinality
<1>2. D!NewGen = NewGen
  BY <1>0 DEF D!NewGen, NewGen, D!Gens, Gens, D!InFlight, InFlight, D!None, None, D!Least, Least
<1>3. \A l, u : D!Slice(l, u) = Slice(l, u)
  BY DEF D!Slice, Slice, D!FirstOf, FirstOf, D!BerryViews, BerryViews
<1>4. \A op, id, act, from, base : D!Call(op, id, act, from, base) = Call(op, id, act, from, base)
  BY DEF D!Call, Call
<1>5. \A from : D!Loading(from) = Loading(from)
  BY <1>1, <1>4, Zenon DEF D!Loading, Loading
<1>6. \A c, from : D!Reloading(c, from) = Reloading(c, from)
  BY <1>1, Zenon DEF D!Reloading, Reloading
<1>7. D!Finding = Finding
  BY <1>1, <1>4, Zenon DEF D!Finding, Finding
<1>8. \A i : D!NewRef(i) = NewRef(i)
  BY <1>0 DEF D!NewRef, NewRef, D!Least, Least
<1>9. \A c : D!Fresh(c) = Fresh(c) /\ D!FreshObj(c) = FreshObj(c)
  BY <1>8, Zenon DEF D!Fresh, Fresh, D!FreshObj, FreshObj
<1>10. \A c : D!Replaced(c) = Replaced(c) /\ D!Spliced(c) = Spliced(c)
             /\ D!Pushed(c) = Pushed(c) /\ D!Copied(c) = Copied(c)
             /\ D!SwitchedBy(c) = SwitchedBy(c)
  <2>1. \A q, at, new : D!SpliceAt(q, at, new) = SpliceAt(q, at, new)
    BY DEF D!SpliceAt, SpliceAt
  <2> QED
    BY <1>2, <1>9, <2>1, Zenon DEF D!Replaced, Replaced, D!Spliced, Spliced, D!Pushed, Pushed,
       D!Copied, Copied, D!SwitchedBy, SwitchedBy, D!Shifted, Shifted, D!OutOfPlace, OutOfPlace
<1>11. \A c, k : D!Without(c, k) = Without(c, k)
  BY <1>2, Zenon DEF D!Without, Without
<1>12. D!Sorted = Sorted
  BY <1>2, Zenon DEF D!Sorted, Sorted
<1> QED
  BY <1>1, <1>2, <1>3, <1>4, <1>5, <1>6, <1>7, <1>9, <1>10, <1>11, <1>12

(* ... and so are the steps. *)
LEMMA StepsD ==
  /\ \A l, o, u, cs, sw, h : D!Become(l, o, u, cs, sw, h) <=> Become(l, o, u, cs, sw, h)
  /\ \A c, u : D!Begin(c, u) <=> Begin(c, u)
  /\ \A p : D!Turn(p) <=> Turn(p)
  /\ \A s, op : D!Served(s, op) <=> Served(s, op)
  /\ \A s, l, o, u, next, d, sw :
       D!SettleSwitched(s, l, o, u, next, d, sw) <=> SettleSwitched(s, l, o, u, next, d, sw)
  /\ \A s, l, o, u, next, d :
       D!Settle(s, l, o, u, next, d) <=> Settle(s, l, o, u, next, d)
  /\ \A s, flag, placed, count :
       D!LoadAnswered(s, flag, placed, count) <=> LoadAnswered(s, flag, placed, count)
  /\ \A s, first, count : D!FoundAnswered(s, first, count) <=> FoundAnswered(s, first, count)
<1>1. \A l, o, u, sw : D!Mounted(l, o, u, sw) = Mounted(l, o, u, sw)
  BY DEF D!Mounted, Mounted, D!IdsIn, IdsIn, D!BerryViews, BerryViews, D!Slice, Slice, D!FirstOf,
     FirstOf, D!Least, Least
<1>2. \A l, cs : D!Refs(l, cs) = Refs(l, cs)
  BY WordsD, Zenon DEF D!Refs, Refs
<1>3. \A l, o, u, cs, sw, h : D!Become(l, o, u, cs, sw, h) <=> Become(l, o, u, cs, sw, h)
  BY DEF D!Become, Become, D!Mounted, Mounted, D!Refs, Refs, D!None, None, D!IdsIn, IdsIn,
     D!BerryViews, BerryViews, D!Slice, Slice, D!FirstOf, FirstOf, D!Least, Least
<1>4. \A c, d : D!Apart(c, d) <=> Apart(c, d)
  BY Zenon DEF D!Apart, Apart, D!DefaultViews, DefaultViews
<1>5. \A c, u : D!Begin(c, u) <=> Begin(c, u)
  BY <1>3, <1>4, WordsD, Zenon DEF D!Begin, Begin
<1>6. \A p : D!Turn(p) <=> Turn(p)
  BY <1>3, Zenon DEF D!Turn, Turn
<1>7. \A s, op : D!Served(s, op) <=> Served(s, op)
  BY WordsD, Zenon DEF D!Served, Served
<1>8. \A s, l, o, u, next, d, sw :
        D!SettleSwitched(s, l, o, u, next, d, sw) <=> SettleSwitched(s, l, o, u, next, d, sw)
  BY <1>3, Zenon DEF D!SettleSwitched, SettleSwitched
<1>9. \A s, l, o, u, next, d : D!Settle(s, l, o, u, next, d) <=> Settle(s, l, o, u, next, d)
  BY <1>8, Zenon DEF D!Settle, Settle
<1>10. \A s, flag, placed, count :
         D!LoadAnswered(s, flag, placed, count) <=> LoadAnswered(s, flag, placed, count)
  <2> SUFFICES ASSUME NEW s, NEW flag, NEW placed, NEW count
               PROVE  D!LoadAnswered(s, flag, placed, count) <=> LoadAnswered(s, flag, placed, count)
    OBVIOUS
  <2>1. /\ D!FreshObj(calls[s]) = FreshObj(calls[s]) /\ D!SwitchedBy(calls[s]) = SwitchedBy(calls[s])
        /\ D!Loading(0) = Loading(0) /\ D!None = None
        /\ D!Served(s, "load") <=> Served(s, "load")
    BY <1>7, WordsD
  <2> QED
    BY <1>8, <2>1, Zenon DEF D!LoadAnswered, LoadAnswered
<1>11. \A s, first, count : D!FoundAnswered(s, first, count) <=> FoundAnswered(s, first, count)
  BY <1>7, <1>9, WordsD, Zenon DEF D!FoundAnswered, FoundAnswered
<1> QED
  BY <1>3, <1>5, <1>6, <1>7, <1>8, <1>9, <1>10, <1>11

(* The modules of the interfaces share the machinery: what they call Become, say,
   is Become.  For air. *)
LEMMA WordsA ==
  /\ A!None = None /\ A!InFlight = InFlight /\ A!NewGen = NewGen
  /\ A!Unneeded = Unneeded /\ A!Finding = Finding
  /\ \A S : A!Least(S) = Least(S)
  /\ \A n, m : A!CeilDiv(n, m) = CeilDiv(n, m)
  /\ \A l, u : A!Slice(l, u) = Slice(l, u)
  /\ \A op, id, act, from, base : A!Call(op, id, act, from, base) = Call(op, id, act, from, base)
  /\ \A from : A!Loading(from) = Loading(from)
  /\ \A c, from : A!Reloading(c, from) = Reloading(c, from)
  /\ \A c : /\ A!Fresh(c) = Fresh(c) /\ A!FreshObj(c) = FreshObj(c)
            /\ A!Replaced(c) = Replaced(c) /\ A!Spliced(c) = Spliced(c)
            /\ A!Pushed(c) = Pushed(c) /\ A!Copied(c) = Copied(c)
            /\ A!SwitchedBy(c) = SwitchedBy(c)
  /\ \A c, k : A!Without(c, k) = Without(c, k)
  /\ A!Sorted = Sorted
<1>1. /\ A!None = None /\ A!InFlight = InFlight /\ A!Unneeded = Unneeded
      /\ \A S : A!Least(S) = Least(S)
      /\ \A n, m : A!CeilDiv(n, m) = CeilDiv(n, m)
  BY DEF A!None, None, A!InFlight, InFlight, A!Unneeded, Unneeded, A!Least, Least,
         A!CeilDiv, CeilDiv
<1>0. \A S : A!Cardinality(S) = Cardinality(S)
  BY DEF A!Cardinality, Cardinality
<1>2. A!NewGen = NewGen
  BY <1>0 DEF A!NewGen, NewGen, A!Gens, Gens, A!InFlight, InFlight, A!None, None, A!Least, Least
<1>3. \A l, u : A!Slice(l, u) = Slice(l, u)
  BY DEF A!Slice, Slice, A!FirstOf, FirstOf, A!BerryViews, BerryViews
<1>4. \A op, id, act, from, base : A!Call(op, id, act, from, base) = Call(op, id, act, from, base)
  BY DEF A!Call, Call
<1>5. \A from : A!Loading(from) = Loading(from)
  BY <1>1, <1>4, Zenon DEF A!Loading, Loading
<1>6. \A c, from : A!Reloading(c, from) = Reloading(c, from)
  BY <1>1, Zenon DEF A!Reloading, Reloading
<1>7. A!Finding = Finding
  BY <1>1, <1>4, Zenon DEF A!Finding, Finding
<1>8. \A i : A!NewRef(i) = NewRef(i)
  BY <1>0 DEF A!NewRef, NewRef, A!Least, Least
<1>9. \A c : A!Fresh(c) = Fresh(c) /\ A!FreshObj(c) = FreshObj(c)
  BY <1>8, Zenon DEF A!Fresh, Fresh, A!FreshObj, FreshObj
<1>10. \A c : A!Replaced(c) = Replaced(c) /\ A!Spliced(c) = Spliced(c)
             /\ A!Pushed(c) = Pushed(c) /\ A!Copied(c) = Copied(c)
             /\ A!SwitchedBy(c) = SwitchedBy(c)
  <2>1. \A q, at, new : A!SpliceAt(q, at, new) = SpliceAt(q, at, new)
    BY DEF A!SpliceAt, SpliceAt
  <2> QED
    BY <1>2, <1>9, <2>1, Zenon DEF A!Replaced, Replaced, A!Spliced, Spliced, A!Pushed, Pushed,
       A!Copied, Copied, A!SwitchedBy, SwitchedBy, A!Shifted, Shifted, A!OutOfPlace, OutOfPlace
<1>11. \A c, k : A!Without(c, k) = Without(c, k)
  BY <1>2, Zenon DEF A!Without, Without
<1>12. A!Sorted = Sorted
  BY <1>2, Zenon DEF A!Sorted, Sorted
<1> QED
  BY <1>1, <1>2, <1>3, <1>4, <1>5, <1>6, <1>7, <1>9, <1>10, <1>11, <1>12

(* ... and so are the steps. *)
LEMMA StepsA ==
  /\ \A l, o, u, cs, sw, h : A!Become(l, o, u, cs, sw, h) <=> Become(l, o, u, cs, sw, h)
  /\ \A c, u : A!Begin(c, u) <=> Begin(c, u)
  /\ \A p : A!Turn(p) <=> Turn(p)
  /\ \A s, op : A!Served(s, op) <=> Served(s, op)
  /\ \A s, l, o, u, next, d, sw :
       A!SettleSwitched(s, l, o, u, next, d, sw) <=> SettleSwitched(s, l, o, u, next, d, sw)
  /\ \A s, l, o, u, next, d :
       A!Settle(s, l, o, u, next, d) <=> Settle(s, l, o, u, next, d)
  /\ \A s, flag, placed, count :
       A!LoadAnswered(s, flag, placed, count) <=> LoadAnswered(s, flag, placed, count)
  /\ \A s, first, count : A!FoundAnswered(s, first, count) <=> FoundAnswered(s, first, count)
<1>1. \A l, o, u, sw : A!Mounted(l, o, u, sw) = Mounted(l, o, u, sw)
  BY DEF A!Mounted, Mounted, A!IdsIn, IdsIn, A!BerryViews, BerryViews, A!Slice, Slice, A!FirstOf,
     FirstOf, A!Least, Least
<1>2. \A l, cs : A!Refs(l, cs) = Refs(l, cs)
  BY WordsA, Zenon DEF A!Refs, Refs
<1>3. \A l, o, u, cs, sw, h : A!Become(l, o, u, cs, sw, h) <=> Become(l, o, u, cs, sw, h)
  BY DEF A!Become, Become, A!Mounted, Mounted, A!Refs, Refs, A!None, None, A!IdsIn, IdsIn,
     A!BerryViews, BerryViews, A!Slice, Slice, A!FirstOf, FirstOf, A!Least, Least
<1>4. \A c, d : A!Apart(c, d) <=> Apart(c, d)
  BY Zenon DEF A!Apart, Apart, A!DefaultViews, DefaultViews
<1>5. \A c, u : A!Begin(c, u) <=> Begin(c, u)
  BY <1>3, <1>4, WordsA, Zenon DEF A!Begin, Begin
<1>6. \A p : A!Turn(p) <=> Turn(p)
  BY <1>3, Zenon DEF A!Turn, Turn
<1>7. \A s, op : A!Served(s, op) <=> Served(s, op)
  BY WordsA, Zenon DEF A!Served, Served
<1>8. \A s, l, o, u, next, d, sw :
        A!SettleSwitched(s, l, o, u, next, d, sw) <=> SettleSwitched(s, l, o, u, next, d, sw)
  BY <1>3, Zenon DEF A!SettleSwitched, SettleSwitched
<1>9. \A s, l, o, u, next, d : A!Settle(s, l, o, u, next, d) <=> Settle(s, l, o, u, next, d)
  BY <1>8, Zenon DEF A!Settle, Settle
<1>10. \A s, flag, placed, count :
         A!LoadAnswered(s, flag, placed, count) <=> LoadAnswered(s, flag, placed, count)
  <2> SUFFICES ASSUME NEW s, NEW flag, NEW placed, NEW count
               PROVE  A!LoadAnswered(s, flag, placed, count) <=> LoadAnswered(s, flag, placed, count)
    OBVIOUS
  <2>1. /\ A!FreshObj(calls[s]) = FreshObj(calls[s]) /\ A!SwitchedBy(calls[s]) = SwitchedBy(calls[s])
        /\ A!Loading(0) = Loading(0) /\ A!None = None
        /\ A!Served(s, "load") <=> Served(s, "load")
    BY <1>7, WordsA
  <2> QED
    BY <1>8, <2>1, Zenon DEF A!LoadAnswered, LoadAnswered
<1>11. \A s, first, count : A!FoundAnswered(s, first, count) <=> FoundAnswered(s, first, count)
  BY <1>7, <1>9, WordsA, Zenon DEF A!FoundAnswered, FoundAnswered
<1> QED
  BY <1>3, <1>5, <1>6, <1>7, <1>8, <1>9, <1>10, <1>11

(* The modules of the interfaces share the machinery: what they call Become, say,
   is Become.  For berry. *)
LEMMA WordsB ==
  /\ B!None = None /\ B!InFlight = InFlight /\ B!NewGen = NewGen
  /\ B!Unneeded = Unneeded /\ B!Finding = Finding
  /\ \A S : B!Least(S) = Least(S)
  /\ \A n, m : B!CeilDiv(n, m) = CeilDiv(n, m)
  /\ \A l, u : B!Slice(l, u) = Slice(l, u)
  /\ \A op, id, act, from, base : B!Call(op, id, act, from, base) = Call(op, id, act, from, base)
  /\ \A from : B!Loading(from) = Loading(from)
  /\ \A c, from : B!Reloading(c, from) = Reloading(c, from)
  /\ \A c : /\ B!Fresh(c) = Fresh(c) /\ B!FreshObj(c) = FreshObj(c)
            /\ B!Replaced(c) = Replaced(c) /\ B!Spliced(c) = Spliced(c)
            /\ B!Pushed(c) = Pushed(c) /\ B!Copied(c) = Copied(c)
            /\ B!SwitchedBy(c) = SwitchedBy(c)
  /\ \A c, k : B!Without(c, k) = Without(c, k)
  /\ B!Sorted = Sorted
<1>1. /\ B!None = None /\ B!InFlight = InFlight /\ B!Unneeded = Unneeded
      /\ \A S : B!Least(S) = Least(S)
      /\ \A n, m : B!CeilDiv(n, m) = CeilDiv(n, m)
  BY DEF B!None, None, B!InFlight, InFlight, B!Unneeded, Unneeded, B!Least, Least,
         B!CeilDiv, CeilDiv
<1>0. \A S : B!Cardinality(S) = Cardinality(S)
  BY DEF B!Cardinality, Cardinality
<1>2. B!NewGen = NewGen
  BY <1>0 DEF B!NewGen, NewGen, B!Gens, Gens, B!InFlight, InFlight, B!None, None, B!Least, Least
<1>3. \A l, u : B!Slice(l, u) = Slice(l, u)
  BY DEF B!Slice, Slice, B!FirstOf, FirstOf, B!BerryViews, BerryViews
<1>4. \A op, id, act, from, base : B!Call(op, id, act, from, base) = Call(op, id, act, from, base)
  BY DEF B!Call, Call
<1>5. \A from : B!Loading(from) = Loading(from)
  BY <1>1, <1>4, Zenon DEF B!Loading, Loading
<1>6. \A c, from : B!Reloading(c, from) = Reloading(c, from)
  BY <1>1, Zenon DEF B!Reloading, Reloading
<1>7. B!Finding = Finding
  BY <1>1, <1>4, Zenon DEF B!Finding, Finding
<1>8. \A i : B!NewRef(i) = NewRef(i)
  BY <1>0 DEF B!NewRef, NewRef, B!Least, Least
<1>9. \A c : B!Fresh(c) = Fresh(c) /\ B!FreshObj(c) = FreshObj(c)
  BY <1>8, Zenon DEF B!Fresh, Fresh, B!FreshObj, FreshObj
<1>10. \A c : B!Replaced(c) = Replaced(c) /\ B!Spliced(c) = Spliced(c)
             /\ B!Pushed(c) = Pushed(c) /\ B!Copied(c) = Copied(c)
             /\ B!SwitchedBy(c) = SwitchedBy(c)
  <2>1. \A q, at, new : B!SpliceAt(q, at, new) = SpliceAt(q, at, new)
    BY DEF B!SpliceAt, SpliceAt
  <2> QED
    BY <1>2, <1>9, <2>1, Zenon DEF B!Replaced, Replaced, B!Spliced, Spliced, B!Pushed, Pushed,
       B!Copied, Copied, B!SwitchedBy, SwitchedBy, B!Shifted, Shifted, B!OutOfPlace, OutOfPlace
<1>11. \A c, k : B!Without(c, k) = Without(c, k)
  BY <1>2, Zenon DEF B!Without, Without
<1>12. B!Sorted = Sorted
  BY <1>2, Zenon DEF B!Sorted, Sorted
<1> QED
  BY <1>1, <1>2, <1>3, <1>4, <1>5, <1>6, <1>7, <1>9, <1>10, <1>11, <1>12

(* ... and so are the steps. *)
LEMMA StepsB ==
  /\ \A l, o, u, cs, sw, h : B!Become(l, o, u, cs, sw, h) <=> Become(l, o, u, cs, sw, h)
  /\ \A c, u : B!Begin(c, u) <=> Begin(c, u)
  /\ \A p : B!Turn(p) <=> Turn(p)
  /\ \A s, op : B!Served(s, op) <=> Served(s, op)
  /\ \A s, l, o, u, next, d, sw :
       B!SettleSwitched(s, l, o, u, next, d, sw) <=> SettleSwitched(s, l, o, u, next, d, sw)
  /\ \A s, l, o, u, next, d :
       B!Settle(s, l, o, u, next, d) <=> Settle(s, l, o, u, next, d)
  /\ \A s, flag, placed, count :
       B!LoadAnswered(s, flag, placed, count) <=> LoadAnswered(s, flag, placed, count)
  /\ \A s, first, count : B!FoundAnswered(s, first, count) <=> FoundAnswered(s, first, count)
<1>1. \A l, o, u, sw : B!Mounted(l, o, u, sw) = Mounted(l, o, u, sw)
  BY DEF B!Mounted, Mounted, B!IdsIn, IdsIn, B!BerryViews, BerryViews, B!Slice, Slice, B!FirstOf,
     FirstOf, B!Least, Least
<1>2. \A l, cs : B!Refs(l, cs) = Refs(l, cs)
  BY WordsB, Zenon DEF B!Refs, Refs
<1>3. \A l, o, u, cs, sw, h : B!Become(l, o, u, cs, sw, h) <=> Become(l, o, u, cs, sw, h)
  BY DEF B!Become, Become, B!Mounted, Mounted, B!Refs, Refs, B!None, None, B!IdsIn, IdsIn,
     B!BerryViews, BerryViews, B!Slice, Slice, B!FirstOf, FirstOf, B!Least, Least
<1>4. \A c, d : B!Apart(c, d) <=> Apart(c, d)
  BY Zenon DEF B!Apart, Apart, B!DefaultViews, DefaultViews
<1>5. \A c, u : B!Begin(c, u) <=> Begin(c, u)
  BY <1>3, <1>4, WordsB, Zenon DEF B!Begin, Begin
<1>6. \A p : B!Turn(p) <=> Turn(p)
  BY <1>3, Zenon DEF B!Turn, Turn
<1>7. \A s, op : B!Served(s, op) <=> Served(s, op)
  BY WordsB, Zenon DEF B!Served, Served
<1>8. \A s, l, o, u, next, d, sw :
        B!SettleSwitched(s, l, o, u, next, d, sw) <=> SettleSwitched(s, l, o, u, next, d, sw)
  BY <1>3, Zenon DEF B!SettleSwitched, SettleSwitched
<1>9. \A s, l, o, u, next, d : B!Settle(s, l, o, u, next, d) <=> Settle(s, l, o, u, next, d)
  BY <1>8, Zenon DEF B!Settle, Settle
<1>10. \A s, flag, placed, count :
         B!LoadAnswered(s, flag, placed, count) <=> LoadAnswered(s, flag, placed, count)
  <2> SUFFICES ASSUME NEW s, NEW flag, NEW placed, NEW count
               PROVE  B!LoadAnswered(s, flag, placed, count) <=> LoadAnswered(s, flag, placed, count)
    OBVIOUS
  <2>1. /\ B!FreshObj(calls[s]) = FreshObj(calls[s]) /\ B!SwitchedBy(calls[s]) = SwitchedBy(calls[s])
        /\ B!Loading(0) = Loading(0) /\ B!None = None
        /\ B!Served(s, "load") <=> Served(s, "load")
    BY <1>7, WordsB
  <2> QED
    BY <1>8, <2>1, Zenon DEF B!LoadAnswered, LoadAnswered
<1>11. \A s, first, count : B!FoundAnswered(s, first, count) <=> FoundAnswered(s, first, count)
  BY <1>7, <1>9, WordsB, Zenon DEF B!FoundAnswered, FoundAnswered
<1> QED
  BY <1>3, <1>5, <1>6, <1>7, <1>8, <1>9, <1>10, <1>11

-----------------------------------------------------------------------------
(* Types                                                                   *)

\* A row of a list: its id and the number of the answer it came with.
Pairs == Ids \X Nat
Lists == [rows : Seq(Pairs), base : {"all", "some", "found", "sorted", "cut"}, mixed : BOOLEAN,
          gen : Nat \cup {-1}]
Objects == [status : 0..2, gone : BOOLEAN, measured : BOOLEAN]
Answers == [id : Ids, status : 0..2]
States == [page : Nat, size : {PAGE, 2 * PAGE}, order : {"all", "some"}, count : Nat,
           loading : BOOLEAN, searching : BOOLEAN]
Actions == {"none", "delete", "enable", "disable", "test", "balance", "balances", "priority",
            "promote", "role", "purge"}
Records == [op : {"load", "search", "manage"}, id : Ids \cup {0}, act : Actions, from : Nat,
            base : {"all", "some", "found"}, then : Nat \cup {-1}, clear : BOOLEAN, list : Lists,
            page : Nat, size : {PAGE, 2 * PAGE}, idx : Nat, set : 0..2, alive : BOOLEAN,
            phase : {"asked", "served"}, ok : BOOLEAN, data : Seq(Answers)]
History == [asked : Nat, troubles : Nat, moved : BOOLEAN,
            disturbed : BOOLEAN, threw : BOOLEAN]

TypeOK ==
  /\ view \in DefaultViews \cup AirViews \cup BerryViews
  /\ db \in [Ids -> 0..2] /\ list \in Lists /\ ui \in States /\ hist \in History
  /\ calls \in [Slots -> Records \cup {None}]
  /\ obj \in [Refs(list, calls) -> Objects]

(* No call in flight is mistaken for none. *)
LEMMA NoneIsNoRecord == None \notin Records
BY DEF None, Records

(* What is taken from a finite set one by one is finite. *)
LEMMA FiniteImage ==
  ASSUME NEW S, IsFiniteSet(S), NEW f
  PROVE  IsFiniteSet({f[x] : x \in S})
<1> DEFINE T == {f[x] : x \in S}
           g == [x \in S |-> f[x]]
<1>1. g \in Surjection(S, T)
  BY DEF Surjection
<1> HIDE DEF T, g
<1>2. IsFiniteSet(T)
  BY <1>1, FS_Surjection
<1> QED
  BY <1>2 DEF T

(* Only finitely many row objects are held. *)
LEMMA FiniteRefs ==
  ASSUME NEW l \in Lists, NEW cs \in [Slots -> Records \cup {None}]
  PROVE  IsFiniteSet(Refs(l, cs)) /\ Refs(l, cs) \subseteq Pairs
<1> DEFINE of(m) == {m.rows[k] : k \in DOMAIN m.rows}
           held == {t \in Slots : cs[t] # None}
           f == [s \in held |-> of(cs[s].list)]
           all == {f[s] : s \in held}
<1>1. ASSUME NEW m \in Lists PROVE IsFiniteSet(of(m)) /\ of(m) \subseteq Pairs
  <2>1. m.rows \in Seq(Pairs)
    BY DEF Lists
  <2>2. DOMAIN m.rows = 1..Len(m.rows) /\ Len(m.rows) \in Nat
        /\ \A k \in DOMAIN m.rows : m.rows[k] \in Pairs
    BY <2>1, LenProperties, ElementOfSeq
  <2>3. IsFiniteSet(DOMAIN m.rows)
    BY <2>2, FS_Interval
  <2> QED
    BY <2>2, <2>3, FiniteImage
<1>2. \A s \in held : cs[s].list \in Lists
  BY NoneIsNoRecord DEF Records
<1>3. IsFiniteSet(held)
  BY TableAssumption, FS_Subset
<1>4. IsFiniteSet(all)
  <2> HIDE DEF held, f
  <2> QED
    BY <1>3, FiniteImage
<1>5. \A T \in all : IsFiniteSet(T) /\ T \subseteq Pairs
  BY <1>1, <1>2
<1>6. IsFiniteSet(UNION all)
  <2> HIDE DEF all
  <2> QED
    BY <1>4, <1>5, FS_UNION
<1>7. IsFiniteSet(of(l) \cup UNION all) /\ of(l) \cup UNION all \subseteq Pairs
  <2> HIDE DEF of, all
  <2> QED
    BY <1>1, <1>5, <1>6, FS_Union
<1>8. Refs(l, cs) = of(l) \cup UNION all
  <2>1. all = {of(cs[s].list) : s \in held}
    OBVIOUS
  <2>2. Refs(l, cs) = of(l) \cup UNION {of(cs[s].list) : s \in held}
    BY Zenon DEF Refs
  <2> HIDE DEF all, of, held
  <2> QED
    BY <2>1, <2>2
<1> QED
  BY <1>7, <1>8

(* More numbers than elements: one of them is free. *)
LEMMA FreeNumber ==
  ASSUME NEW S, IsFiniteSet(S)
  PROVE  (0..Cardinality(S)) \ S # {}
<1>1. Cardinality(S) \in Nat
  BY FS_CardinalityType
<1>2. IsFiniteSet(0..Cardinality(S)) /\ Cardinality(0..Cardinality(S)) = Cardinality(S) + 1
  BY <1>1, FS_Interval
<1>3. ASSUME 0..Cardinality(S) \subseteq S PROVE FALSE
  <2>1. Cardinality(0..Cardinality(S)) <= Cardinality(S)
    BY <1>3, FS_Subset
  <2> QED
    BY <1>1, <1>2, <2>1
<1> QED
  BY <1>3

(* A new list, and a new row object, get a number that is not in use. *)
LEMMA NewNumbers ==
  ASSUME TypeOK
  PROVE  /\ NewGen \in Nat /\ NewGen \notin Gens
         /\ \A i \in Ids : NewRef(i) \in Pairs /\ NewRef(i)[1] = i /\ NewRef(i) \notin DOMAIN obj
<1>1. IsFiniteSet(Gens)
  <2> DEFINE g == [s \in InFlight |-> calls[s].list.gen]
  <2>1. IsFiniteSet(InFlight)
    BY TableAssumption, FS_Subset DEF InFlight
  <2>2. IsFiniteSet({g[s] : s \in InFlight})
    <3> HIDE DEF g
    <3> QED
      BY <2>1, FiniteImage
  <2>3. IsFiniteSet({list.gen} \cup {g[s] : s \in InFlight})
    <3> HIDE DEF g
    <3> QED
      BY <2>2, FS_Singleton, FS_Union
  <2> QED
    BY <2>3 DEF Gens
<1>2. NewGen \in (0..Cardinality(Gens)) \ Gens
  <2> DEFINE S == (0..Cardinality(Gens)) \ Gens
  <2>1. S # {} /\ S \in SUBSET Nat
    BY <1>1, FreeNumber, FS_CardinalityType
  <2>2. Least(S) \in S
    <3> HIDE DEF S
    <3> QED
      BY <2>1, LeastOf
  <2> QED
    BY <2>2 DEF NewGen
<1>3. IsFiniteSet(DOMAIN obj)
  BY FiniteRefs DEF TypeOK
<1>4. ASSUME NEW i \in Ids
      PROVE  NewRef(i) \in Pairs /\ NewRef(i)[1] = i /\ NewRef(i) \notin DOMAIN obj
  <2> DEFINE N == {n \in 0..Cardinality(DOMAIN obj) : <<i, n>> \notin DOMAIN obj}
             used == {r \in DOMAIN obj : r[1] = i /\ r = <<i, r[2]>>}
             f == [r \in used |-> r[2]]
             nums == {f[r] : r \in used}
  <2>1. IsFiniteSet(used) /\ Cardinality(used) <= Cardinality(DOMAIN obj)
    BY <1>3, FS_Subset
  <2>2. IsFiniteSet(nums) /\ Cardinality(nums) <= Cardinality(used)
    <3>1. f \in Surjection(used, nums)
      BY DEF Surjection
    <3> HIDE DEF used, f, nums
    <3> QED
      BY <2>1, <3>1, FS_Surjection
  <2>3. (0..Cardinality(nums)) \ nums # {}
    <3> HIDE DEF nums
    <3> QED
      BY <2>2, FreeNumber
  <2>4. PICK n \in 0..Cardinality(nums) : n \notin nums
    BY <2>3
  <2>5. /\ Cardinality(nums) \in Nat /\ Cardinality(used) \in Nat
        /\ Cardinality(DOMAIN obj) \in Nat
    BY <1>3, <2>1, <2>2, FS_CardinalityType
  <2>6. n \in 0..Cardinality(DOMAIN obj)
    BY <2>1, <2>2, <2>4, <2>5
  <2>7. <<i, n>> \notin DOMAIN obj
    <3>1. ASSUME <<i, n>> \in DOMAIN obj PROVE FALSE
      <4>1. <<i, n>> \in used /\ f[<<i, n>>] = n
        BY <3>1
      <4> QED
        BY <2>4, <4>1
    <3> QED
      BY <3>1
  <2>8. N # {} /\ N \in SUBSET Nat
    BY <2>6, <2>7
  <2>9. Least(N) \in N
    <3> HIDE DEF N
    <3> QED
      BY <2>8, LeastOf
  <2> QED
    BY <2>8, <2>9 DEF NewRef, Pairs
<1> QED
  BY <1>2, <1>4, FS_CardinalityType, <1>1

(* A call finds a slot that is free. *)
LEMMA FreeSlot ==
  ASSUME InFlight # Slots
  PROVE  Least(Slots \ InFlight) \in Slots /\ calls[Least(Slots \ InFlight)] = None
<1> DEFINE free == Slots \ InFlight
<1>1. free # {} /\ free \in SUBSET Nat
  BY TableAssumption DEF InFlight
<1>2. Least(free) \in free
  <2> HIDE DEF free
  <2> QED
    BY <1>1, LeastOf
<1> QED
  BY <1>2 DEF InFlight

-----------------------------------------------------------------------------
(* What the lists of the server and of the tables are made of.             *)

(* A sequence is a function on the first numbers. *)
LEMMA SeqIs ==
  ASSUME NEW S, NEW q \in Seq(S)
  PROVE  Len(q) \in Nat /\ DOMAIN q = 1..Len(q) /\ \A k \in DOMAIN q : q[k] \in S
BY LenProperties, ElementOfSeq

(* A function on the first n numbers is a sequence of length n. *)
LEMMA FunctionIsSeq ==
  ASSUME NEW S, NEW n \in Nat, NEW q \in [1..n -> S]
  PROVE  q \in Seq(S) /\ Len(q) = n
<1>1. q \in Seq(S)
  OBVIOUS
<1> QED
  BY <1>1, LenProperties

(* A listing has each of its rows once. *)
LEMMA ListingIs ==
  ASSUME TypeOK, NEW base \in {"all", "some", "found"}
  PROVE  /\ Listing(base) \in Seq(Rows) /\ Listing(base) \in Seq(Ids)
         /\ \A i, j \in DOMAIN Listing(base) : Listing(base)[i] = Listing(base)[j] => i = j
<1>1. ASSUME NEW S \in SUBSET Rows, NEW q,
             q \in [1..Cardinality(S) -> S], Cardinality(S) \in Nat,
             \/ \A i, j \in 1..Cardinality(S) : i < j => q[i] > q[j]
             \/ \A i, j \in 1..Cardinality(S) : i < j => q[i] < q[j]
      PROVE  /\ q \in Seq(Rows) /\ q \in Seq(Ids)
             /\ \A i, j \in DOMAIN q : q[i] = q[j] => i = j
  <2>1. S \subseteq Ids /\ S \subseteq Nat
    BY TableAssumption DEF Rows
  <2>2. q \in [1..Cardinality(S) -> Rows] /\ q \in [1..Cardinality(S) -> Ids]
    BY <1>1, <2>1
  <2>3. \A i, j \in 1..Cardinality(S) : q[i] = q[j] => i = j
    <3> SUFFICES ASSUME NEW i \in 1..Cardinality(S), NEW j \in 1..Cardinality(S), q[i] = q[j], i # j
                 PROVE  FALSE
      OBVIOUS
    <3>1. q[i] \in Nat /\ q[j] \in Nat
      BY <1>1, <2>1
    <3>2. i < j \/ j < i
      OBVIOUS
    <3> QED
      BY <1>1, <3>1, <3>2
  <2> QED
    BY <1>1, <2>2, <2>3, FunctionIsSeq
<1>2. \A S \in SUBSET Rows : S \in SUBSET Ids
  BY DEF Rows
<1>3. \A S \in SUBSET Rows : /\ Descending(S) \in Seq(Rows) /\ Descending(S) \in Seq(Ids)
                             /\ \A i, j \in DOMAIN Descending(S) :
                                  Descending(S)[i] = Descending(S)[j] => i = j
  BY <1>1, <1>2, InOrder
<1>4. \A S \in SUBSET Rows : /\ Ascending(S) \in Seq(Rows) /\ Ascending(S) \in Seq(Ids)
                             /\ \A i, j \in DOMAIN Ascending(S) :
                                  Ascending(S)[i] = Ascending(S)[j] => i = j
  BY <1>1, <1>2, InOrder
<1>5. Listing(base) \in {Descending(Rows), Descending(Rows \cap Matching), Ascending(Rows)}
  BY DEF Listing
<1> QED
  BY <1>3, <1>4, <1>5

(* A page of a listing. *)
LEMMA PageIs ==
  ASSUME NEW S, NEW q \in Seq(S), NEW from \in Nat
  PROVE  /\ PageOf(q, from) \in Seq(S)
         /\ from * PAGE \in Nat
         /\ Len(PageOf(q, from)) = IF Len(q) <= from * PAGE THEN 0
                                   ELSE IF Len(q) <= from * PAGE + PAGE THEN Len(q) - from * PAGE
                                   ELSE PAGE
         /\ \A k \in DOMAIN PageOf(q, from) :
              from * PAGE + k \in DOMAIN q /\ PageOf(q, from)[k] = q[from * PAGE + k]
<1> DEFINE at == from * PAGE
           to == IF at + PAGE < Len(q) THEN at + PAGE ELSE Len(q)
<1>1. at \in Nat /\ (from + 1) * PAGE = at + PAGE /\ PAGE \in Nat \ {0}
  BY TableAssumption
<1>2. PageOf(q, from) = SubSeq(q, at + 1, to)
  BY <1>1 DEF PageOf
<1> HIDE DEF at
<1>3. Len(q) \in Nat /\ DOMAIN q = 1..Len(q) /\ to \in Nat
      /\ \A k \in (at + 1)..to : k \in DOMAIN q /\ q[k] \in S
  BY <1>1, SeqIs
<1> HIDE DEF to
<1>4. /\ SubSeq(q, at + 1, to) \in Seq(S)
      /\ Len(SubSeq(q, at + 1, to)) = IF at + 1 <= to THEN to - (at + 1) + 1 ELSE 0
      /\ \A i \in 1..(to - (at + 1) + 1) : SubSeq(q, at + 1, to)[i] = q[at + 1 + i - 1]
  BY <1>1, <1>3, SubSeqProperties
<1>5. \A k \in DOMAIN PageOf(q, from) :
        k \in 1..(to - (at + 1) + 1) /\ at + k \in DOMAIN q /\ at + 1 + k - 1 = at + k
  BY <1>1, <1>2, <1>3, <1>4, SeqIs
<1>6. /\ Len(PageOf(q, from)) = IF at + 1 <= to THEN to - at ELSE 0
      /\ \A k \in DOMAIN PageOf(q, from) : PageOf(q, from)[k] = q[at + k]
  BY <1>1, <1>2, <1>3, <1>4, <1>5
<1>7. Len(PageOf(q, from)) = IF Len(q) <= at THEN 0
                             ELSE IF Len(q) <= at + PAGE THEN Len(q) - at ELSE PAGE
  <2> DEFINE n == Len(PageOf(q, from))
             m == Len(q)
  <2>1. n = IF at + 1 <= to THEN to - at ELSE 0
    BY <1>6
  <2>2. m \in Nat /\ at \in Nat /\ PAGE \in Nat /\ PAGE > 0
    BY <1>1, <1>3
  <2>3. to = IF at + PAGE < m THEN at + PAGE ELSE m
    BY DEF to
  <2> HIDE DEF n, m
  <2>4. n = IF m <= at THEN 0 ELSE IF m <= at + PAGE THEN m - at ELSE PAGE
    <3>1. CASE m <= at
      <4>1. to = m /\ ~(at + 1 <= to)
        BY <2>2, <2>3, <3>1
      <4> QED
        BY <2>1, <3>1, <4>1
    <3>2. CASE m > at /\ m <= at + PAGE
      <4>1. to = m /\ at + 1 <= to /\ ~(m <= at)
        BY <2>2, <2>3, <3>2
      <4> QED
        BY <2>1, <3>2, <4>1
    <3>3. CASE m > at + PAGE
      <4>1. to = at + PAGE /\ at + 1 <= to /\ ~(m <= at) /\ ~(m <= at + PAGE) /\ to - at = PAGE
        BY <2>2, <2>3, <3>3
      <4> QED
        BY <2>1, <4>1
    <3> QED
      BY <2>2, <3>1, <3>2, <3>3
  <2> QED
    BY <2>4 DEF n, m
<1> QED
  BY <1>1, <1>2, <1>4, <1>5, <1>6, <1>7 DEF at

(* Rows put in the place of others. *)
LEMMA SpliceIs ==
  ASSUME NEW S, NEW q \in Seq(S), NEW at \in Nat, NEW new \in Seq(S)
  PROVE  LET a == IF at < Len(q) THEN at ELSE Len(q)
             r == SpliceAt(q, at, new)
         IN  /\ r \in Seq(S)
             /\ Len(r) = IF a + Len(new) < Len(q) THEN Len(q) ELSE a + Len(new)
             /\ \A k \in DOMAIN r : r[k] = IF k > a /\ k <= a + Len(new) THEN new[k - a] ELSE q[k]
             /\ \A k \in DOMAIN r : k > a /\ k <= a + Len(new) => k - a \in DOMAIN new
             /\ \A k \in DOMAIN r : ~(k > a /\ k <= a + Len(new)) => k \in DOMAIN q
<1> DEFINE a == IF at < Len(q) THEN at ELSE Len(q)
           n == Len(new)
           before == SubSeq(q, 1, a)
           after == SubSeq(q, a + n + 1, Len(q))
<1>1. Len(q) \in Nat /\ DOMAIN q = 1..Len(q) /\ n \in Nat /\ DOMAIN new = 1..n
      /\ a \in Nat /\ a <= Len(q)
      /\ \A k \in 1..Len(q) : q[k] \in S
  BY SeqIs
<1>2. SpliceAt(q, at, new) = before \o new \o after
  BY DEF SpliceAt
<1> HIDE DEF a, n
<1>3. before \in Seq(S) /\ Len(before) = a /\ \A k \in 1..a : before[k] = q[k]
  <2>1. \A k \in 1..a : q[k] \in S
    BY <1>1
  <2> QED
    BY <1>1, <2>1, SubSeqProperties
<1>4. /\ after \in Seq(S) /\ Len(after) = IF a + n + 1 <= Len(q) THEN Len(q) - (a + n) ELSE 0
      /\ \A k \in 1..(Len(q) - (a + n)) : after[k] = q[a + n + k]
  <2>1. \A k \in (a + n + 1)..Len(q) : q[k] \in S
    BY <1>1
  <2>2. /\ after \in Seq(S)
        /\ Len(after) = IF a + n + 1 <= Len(q) THEN Len(q) - (a + n + 1) + 1 ELSE 0
        /\ \A k \in 1..(Len(q) - (a + n + 1) + 1) : after[k] = q[a + n + 1 + k - 1]
    BY <1>1, <2>1, SubSeqProperties
  <2>3. Len(q) - (a + n + 1) + 1 = Len(q) - (a + n)
        /\ \A k \in 1..(Len(q) - (a + n)) : a + n + 1 + k - 1 = a + n + k
    BY <1>1
  <2> QED
    BY <2>2, <2>3
<1> HIDE DEF before, after
<1>5. /\ before \o new \in Seq(S) /\ Len(before \o new) = a + n
      /\ \A k \in 1..(a + n) : (before \o new)[k] = IF k <= a THEN before[k] ELSE new[k - a]
  BY <1>1, <1>3, ConcatProperties DEF n
<1> DEFINE front == before \o new
           r == SpliceAt(q, at, new)
<1>6. /\ r \in Seq(S) /\ Len(r) = a + n + Len(after)
      /\ \A k \in 1..(a + n + Len(after)) : r[k] = IF k <= a + n THEN front[k] ELSE after[k - (a + n)]
  <2>1. r = front \o after
    BY <1>2
  <2> HIDE DEF front, r
  <2>2. front \in Seq(S) /\ Len(front) = a + n
    BY <1>5 DEF front
  <2>3. after \in Seq(S)
    BY <1>4
  <2>4. /\ front \o after \in Seq(S) /\ Len(front \o after) = Len(front) + Len(after)
        /\ \A k \in 1..(Len(front) + Len(after)) :
             (front \o after)[k] = IF k <= Len(front) THEN front[k] ELSE after[k - Len(front)]
    BY <2>2, <2>3, ConcatProperties
  <2> QED
    BY <2>1, <2>2, <2>4
<1> HIDE DEF r
<1> DEFINE m == Len(q)
           d == Len(after)
           z == Len(r)
<1>9. m \in Nat /\ a \in Nat /\ n \in Nat /\ a <= m
      /\ d = (IF a + n + 1 <= m THEN m - (a + n) ELSE 0) /\ z = a + n + d
  BY <1>1, <1>4, <1>6
<1>7. r \in Seq(S) /\ Len(r) = (IF a + n < Len(q) THEN Len(q) ELSE a + n)
      /\ DOMAIN r = 1..Len(r)
  <2>1. DOMAIN r = 1..Len(r)
    BY <1>6, SeqIs
  <2>2. z = IF a + n < m THEN m ELSE a + n
    <3> HIDE DEF m, d, z
    <3> QED
      BY <1>9
  <2> QED
    BY <1>6, <2>1, <2>2
<1>8. ASSUME NEW k \in DOMAIN r
      PROVE  /\ r[k] = IF k > a /\ k <= a + n THEN new[k - a] ELSE q[k]
             /\ k > a /\ k <= a + n => k - a \in DOMAIN new
             /\ ~(k > a /\ k <= a + n) => k \in DOMAIN q
  <2>1. k \in 1..(a + n + Len(after)) /\ Len(after) \in Nat
    BY <1>1, <1>4, <1>7
  <2>2. r[k] = IF k <= a + n THEN front[k] ELSE after[k - (a + n)]
    BY <1>6, <2>1
  <2>3. CASE k <= a
    <3>1. r[k] = q[k] /\ k \in DOMAIN q
      BY <1>1, <1>3, <1>5, <2>1, <2>2, <2>3
    <3> QED
      BY <1>1, <2>1, <2>3, <3>1
  <2>4. CASE k > a /\ k <= a + n
    <3>1. r[k] = new[k - a] /\ k - a \in DOMAIN new
      BY <1>1, <1>5, <2>1, <2>2, <2>4
    <3> QED
      BY <2>4, <3>1
  <2>5. CASE k > a + n
    <3>1. k - (a + n) \in 1..(Len(q) - (a + n)) /\ a + n + (k - (a + n)) = k
      <4>1. k \in Int /\ a + n \in Int /\ Len(q) \in Int /\ k > a + n
        BY <1>9, <2>1, <2>5
      <4>2. k <= a + n + d
        BY <2>1
      <4>3. d = (IF a + n + 1 <= m THEN m - (a + n) ELSE 0) /\ m = Len(q)
        BY <1>9
      <4>4. a \in Nat /\ n \in Nat
        BY <1>9
      <4> HIDE DEF a, n, m, d, z
      <4>5. CASE a + n + 1 <= m
        BY <4>1, <4>2, <4>3, <4>4, <4>5
      <4>6. CASE ~(a + n + 1 <= m)
        BY <4>1, <4>2, <4>3, <4>4, <4>6
      <4> QED
        BY <4>5, <4>6
    <3>2. k \in 1..Len(q)
      BY <1>1, <2>5, <3>1
    <3>3. r[k] = after[k - (a + n)]
      BY <1>1, <2>1, <2>2, <2>5
    <3>4. after[k - (a + n)] = q[a + n + (k - (a + n))]
      BY <1>4, <3>1
    <3>5. r[k] = q[k] /\ k \in DOMAIN q
      BY <1>1, <3>1, <3>2, <3>3, <3>4
    <3> QED
      BY <1>1, <2>1, <2>5, <3>5
  <2> QED
    BY <1>1, <2>1, <2>3, <2>4, <2>5
<1> QED
  BY <1>7, <1>8 DEF a, n, r


(* The rows of an answer: new objects, one for each row, with its id. *)
LEMMA FreshIs ==
  ASSUME TypeOK, NEW c \in Records
  PROVE  /\ Fresh(c) \in Seq(Pairs) /\ Len(Fresh(c)) = Len(c.data) /\ Len(c.data) \in Nat
         /\ DOMAIN c.data = 1..Len(c.data) /\ DOMAIN Fresh(c) = DOMAIN c.data
         /\ \A k \in DOMAIN c.data : /\ Fresh(c)[k][1] = c.data[k].id /\ c.data[k].id \in Ids
                                     /\ Fresh(c)[k] \notin DOMAIN obj
         /\ FreshObj(c) \in [{Fresh(c)[k] : k \in DOMAIN c.data} -> Objects]
         /\ \A r \in DOMAIN FreshObj(c) :
              \E k \in DOMAIN c.data : /\ r[1] = c.data[k].id
                                       /\ FreshObj(c)[r].status = c.data[k].status
                                       /\ ~FreshObj(c)[r].gone
<1>1. c.data \in Seq(Answers)
  BY DEF Records
<1>2. Len(c.data) \in Nat /\ DOMAIN c.data = 1..Len(c.data)
        /\ \A k \in DOMAIN c.data : c.data[k] \in Answers
  BY <1>1, SeqIs
<1>3. \A k \in DOMAIN c.data : c.data[k].id \in Ids /\ c.data[k].status \in 0..2
  BY <1>2 DEF Answers
<1>4. \A k \in DOMAIN c.data : /\ NewRef(c.data[k].id) \in Pairs
                               /\ NewRef(c.data[k].id)[1] = c.data[k].id
                               /\ NewRef(c.data[k].id) \notin DOMAIN obj
  BY <1>3, NewNumbers
<1>5. Fresh(c) \in [1..Len(c.data) -> Pairs]
  BY <1>2, <1>4 DEF Fresh
<1>6. Fresh(c) \in Seq(Pairs) /\ Len(Fresh(c)) = Len(c.data)
  BY <1>2, <1>5, FunctionIsSeq
<1>7. \A k \in DOMAIN c.data : Fresh(c)[k] = NewRef(c.data[k].id)
  BY DEF Fresh
<1>8. \A r \in {NewRef(c.data[k].id) : k \in DOMAIN c.data} :
        \E k \in DOMAIN c.data :
          /\ r[1] = c.data[k].id
          /\ (CHOOSE d \in {c.data[m] : m \in DOMAIN c.data} : d.id = r[1]) = c.data[k]
  <2> SUFFICES ASSUME NEW j \in DOMAIN c.data, NEW r, r = NewRef(c.data[j].id)
               PROVE  \E k \in DOMAIN c.data :
                        /\ r[1] = c.data[k].id
                        /\ (CHOOSE d \in {c.data[m] : m \in DOMAIN c.data} : d.id = r[1]) = c.data[k]
    OBVIOUS
  <2> DEFINE T == {c.data[m] : m \in DOMAIN c.data}
             d == CHOOSE e \in T : e.id = r[1]
  <2>1. c.data[j] \in T /\ c.data[j].id = r[1]
    BY <1>4
  <2>2. d \in T /\ d.id = r[1]
    <3> HIDE DEF T
    <3> QED
      BY <2>1
  <2>3. PICK k \in DOMAIN c.data : c.data[k] = d
    BY <2>2
  <2> QED
    BY <2>2, <2>3
<1>9. DOMAIN FreshObj(c) = {NewRef(c.data[k].id) : k \in DOMAIN c.data}
      /\ {Fresh(c)[k] : k \in DOMAIN c.data} = {NewRef(c.data[k].id) : k \in DOMAIN c.data}
  BY <1>7 DEF FreshObj
<1>10. ASSUME NEW r \in DOMAIN FreshObj(c)
       PROVE  /\ FreshObj(c)[r] \in Objects
              /\ \E k \in DOMAIN c.data : /\ r[1] = c.data[k].id
                                          /\ FreshObj(c)[r].status = c.data[k].status
                                          /\ ~FreshObj(c)[r].gone
  <2>1. PICK k \in DOMAIN c.data :
          /\ r[1] = c.data[k].id
          /\ (CHOOSE d \in {c.data[m] : m \in DOMAIN c.data} : d.id = r[1]) = c.data[k]
    BY <1>8, <1>9
  <2>2. FreshObj(c)[r] = [status |-> c.data[k].status, gone |-> FALSE, measured |-> FALSE]
    BY <1>9, <2>1 DEF FreshObj
  <2> QED
    BY <1>3, <2>1, <2>2 DEF Objects
<1>11. FreshObj(c) \in [{Fresh(c)[k] : k \in DOMAIN c.data} -> Objects]
  BY <1>9, <1>10, Zenon DEF FreshObj
<1>12. DOMAIN Fresh(c) = DOMAIN c.data
  BY DEF Fresh
<1> QED
  BY <1>2, <1>3, <1>4, <1>6, <1>7, <1>10, <1>11, <1>12

(* Sorting keeps each row, at another place. *)
LEMMA SortedIs ==
  ASSUME TypeOK, list.rows # <<>>
  PROVE  /\ Sorted \in Lists /\ Sorted.gen = NewGen /\ Sorted.base = "sorted"
         /\ Sorted.mixed = list.mixed
         /\ \E p \in [DOMAIN list.rows -> DOMAIN list.rows] :
              /\ \A i, j \in DOMAIN list.rows : p[i] = p[j] => i = j
              /\ Sorted.rows = [k \in DOMAIN list.rows |-> list.rows[p[k]]]
<1> DEFINE dom == DOMAIN list.rows
           n == Len(list.rows)
           Id(k) == list.rows[k][1]
           Before == {x \in dom \X dom : Id(x[1]) < Id(x[2]) \/ (Id(x[1]) = Id(x[2]) /\ x[1] < x[2])}
           Good(q) == \A i, j \in dom : i < j => Id(q[i]) < Id(q[j]) \/ (Id(q[i]) = Id(q[j]) /\ q[i] < q[j])
           p == CHOOSE q \in [dom -> dom] : Good(q)
<1>1. list.rows \in Seq(Pairs)
  BY DEF TypeOK, Lists
<1>2. n \in Nat /\ dom = 1..n /\ \A k \in dom : list.rows[k] \in Pairs
  BY <1>1, SeqIs
<1>3. \A k \in dom : Id(k) \in Nat
  BY <1>2, TableAssumption DEF Pairs
<1>4. IsFiniteSet(dom) /\ Cardinality(dom) = n
  BY <1>2, FS_Interval
<1>5. Orders(Before, dom)
  <2>1. \A x, y \in dom : x = y \/ <<x, y>> \in Before \/ <<y, x>> \in Before
    BY <1>2, <1>3
  <2>2. \A x, y, z \in dom : <<x, y>> \in Before /\ <<y, z>> \in Before => <<x, z>> \in Before
    BY <1>2, <1>3
  <2> QED
    BY <2>1, <2>2, Zenon DEF Orders
<1>6. \E q \in [dom -> dom] : Good(q)
  <2>1. PICK q : Enumerates(q, Before, dom)
    <3> HIDE DEF dom, Before
    <3> QED
      BY <1>4, <1>5, Enumerated
  <2>2. q \in [dom -> dom] /\ DOMAIN q = dom
    BY <1>2, <1>4, <2>1 DEF Enumerates
  <2>3. \A i, j \in dom : i < j => <<q[i], q[j]>> \in Before
    BY <2>1, <2>2 DEF Enumerates
  <2> QED
    BY <2>2, <2>3
<1>7. p \in [dom -> dom] /\ Good(p)
  <2> HIDE DEF dom, Good
  <2> QED
    BY <1>6
<1> HIDE DEF p
<1>8. \A i, j \in dom : p[i] = p[j] => i = j
  <2> SUFFICES ASSUME NEW i \in dom, NEW j \in dom, p[i] = p[j], i # j
               PROVE  FALSE
    OBVIOUS
  <2>1. i < j \/ j < i
    BY <1>2
  <2>2. p[i] \in dom /\ p[j] \in dom /\ Id(p[i]) \in Nat /\ p[i] \in Nat
    BY <1>2, <1>3, <1>7
  <2> QED
    BY <1>7, <2>1, <2>2
<1> DEFINE turned == [k \in dom |-> p[n + 1 - k]]
<1>9. /\ turned \in [dom -> dom] /\ \A i, j \in dom : turned[i] = turned[j] => i = j
  <2>1. \A k \in dom : n + 1 - k \in dom
    BY <1>2
  <2>2. \A i, j \in dom : n + 1 - i = n + 1 - j => i = j
    BY <1>2
  <2> QED
    BY <1>7, <1>8, <2>1, <2>2
<1>10. Sorted = [list EXCEPT !.base = "sorted", !.gen = NewGen,
                   !.rows = IF Id(p[1]) = Id(1) THEN [k \in dom |-> list.rows[p[n + 1 - k]]]
                                                ELSE [k \in dom |-> list.rows[p[k]]]]
  BY Zenon DEF Sorted, p
<1>11. PICK f \in [dom -> dom] :
         /\ \A i, j \in dom : f[i] = f[j] => i = j
         /\ Sorted = [list EXCEPT !.base = "sorted", !.gen = NewGen,
                        !.rows = [k \in dom |-> list.rows[f[k]]]]
  <2>1. CASE Id(p[1]) = Id(1)
    <3>1. [k \in dom |-> list.rows[p[n + 1 - k]]] = [k \in dom |-> list.rows[turned[k]]]
      OBVIOUS
    <3> HIDE DEF turned
    <3> QED
      BY <1>9, <1>10, <2>1, <3>1
  <2>2. CASE Id(p[1]) # Id(1)
    BY <1>7, <1>8, <1>10, <2>2
  <2> QED
    BY <2>1, <2>2
<1>12. [k \in dom |-> list.rows[f[k]]] \in Seq(Pairs)
  <2>1. [k \in dom |-> list.rows[f[k]]] \in [1..n -> Pairs]
    BY <1>2
  <2> QED
    BY <1>2, <2>1, FunctionIsSeq
<1>13. list \in Lists /\ NewGen \in Nat
  BY NewNumbers DEF TypeOK
<1>14. Sorted \in Lists
  BY <1>11, <1>12, <1>13 DEF Lists
<1>15. /\ Sorted.gen = NewGen /\ Sorted.base = "sorted" /\ Sorted.mixed = list.mixed
       /\ Sorted.rows = [k \in dom |-> list.rows[f[k]]]
  BY <1>11, <1>13 DEF Lists
<1> QED
  BY <1>11, <1>14, <1>15

(* A row of the page is one of the list. *)
LEMMA SliceRow ==
  ASSUME NEW l \in Lists, NEW u \in States, FirstOf(u) \in Nat
  PROVE  \A k \in DOMAIN Slice(l, u) :
           /\ k \in Nat \ {0}
           /\ FirstOf(u) + k \in DOMAIN l.rows /\ Slice(l, u)[k] = l.rows[FirstOf(u) + k]
<1> DEFINE at == FirstOf(u)
           q == l.rows
           to == IF at + u.size < Len(q) THEN at + u.size ELSE Len(q)
<1>1. q \in Seq(Pairs) /\ u.size \in Nat /\ at \in Nat
  BY TableAssumption DEF Lists, States
<1>2. Len(q) \in Nat /\ DOMAIN q = 1..Len(q) /\ \A k \in DOMAIN q : q[k] \in Pairs
  BY <1>1, SeqIs
<1>3. Slice(l, u) = SubSeq(q, at + 1, to)
  BY DEF Slice
<1>4. to \in Nat /\ to <= Len(q)
  BY <1>1, <1>2
<1> HIDE DEF at, q, to
<1>5. \A k \in (at + 1)..to : q[k] \in Pairs
  BY <1>1, <1>2, <1>4
<1>6. /\ SubSeq(q, at + 1, to) \in Seq(Pairs)
      /\ Len(SubSeq(q, at + 1, to)) = IF at + 1 <= to THEN to - (at + 1) + 1 ELSE 0
      /\ \A i \in 1..(to - (at + 1) + 1) : SubSeq(q, at + 1, to)[i] = q[at + 1 + i - 1]
  BY <1>1, <1>4, <1>5, SubSeqProperties
<1>7. DOMAIN SubSeq(q, at + 1, to) = 1..Len(SubSeq(q, at + 1, to))
  BY <1>6, SeqIs
<1>8. \A k \in DOMAIN SubSeq(q, at + 1, to) :
        k \in 1..(to - (at + 1) + 1) /\ at + k \in DOMAIN q /\ at + 1 + k - 1 = at + k
             /\ k \in Nat \ {0}
  BY <1>1, <1>2, <1>4, <1>6, <1>7
<1> QED
  BY <1>3, <1>6, <1>8 DEF at, q


-----------------------------------------------------------------------------
(* The calls and the arrays they share.                                    *)

\* The number of the first page, and the arrays that the table and its handlers hold.
First == IF view \in BerryViews THEN 0 ELSE 1
Arrays == {Unneeded, list} \cup {calls[s].list : s \in InFlight}

\* Arrays of one number are one array.
OneArray == \A L, M \in Arrays : L.gen = M.gen => L = M

\* The rows of l are the first ones of m.
Grown(m, l) ==
  /\ m.gen = l.gen
  /\ \A k \in DOMAIN l.rows : k \in DOMAIN m.rows /\ m.rows[k] = l.rows[k]

\* The place in its array where a handler looks for the row it was started for.
Place(c) == (c.page - 1) * c.size + c.idx
Addressed(c) == Place(c) \in DOMAIN c.list.rows /\ c.list.rows[Place(c)][1] = c.id

ChannelViews == {"default/channels", "air/channels", "berry/channels"}

\* What a call is made with.
Fits(c) ==
  /\ c.op \in {"load", "manage"} => c.base \in {"all", "some"}
  /\ c.op = "load" => c.act = "none"
  /\ c.op = "search" => c.base = "found" /\ c.act = "none"
  /\ c.op = "manage" => /\ c.page >= First
                        /\ c.id = 0 <=> c.act \in {"purge", "balances"}
                        /\ c.act = "balances" => view \in BerryViews
                        /\ c.act = "purge" => view \in ChannelViews
  /\ view \notin BerryViews /\ (c.op = "manage" \/ c.from # 0) => c.list.gen # -1
  /\ view \notin AirViews => c.size = PAGE
  /\ c.then = -1 \/ c.then >= First
  /\ c.op = "manage" /\ c.id # 0 /\ view \notin BerryViews => Addressed(c)
  /\ c.op = "manage" /\ c.phase = "served" /\ c.ok =>
       /\ c.act = "delete" => hist.moved
       /\ c.id # 0 => 1 \in DOMAIN c.data

\* The state beside the list, as far as the interface uses it.
UiFits(u) ==
  /\ u \in States /\ u.page >= First
  /\ view \notin AirViews => u.size = PAGE
  /\ view \in BerryViews => ~u.loading

\* The invariant all others build on.
Base ==
  /\ TypeOK /\ OneArray
  /\ list.gen # -1 /\ UiFits(ui)
  /\ \A s \in InFlight : Fits(calls[s])

(* No view is of two interfaces. *)
LEMMA ViewsApart ==
  /\ DefaultViews \cap AirViews = {} /\ DefaultViews \cap BerryViews = {}
  /\ AirViews \cap BerryViews = {}
BY DEF DefaultViews, AirViews, BerryViews

(* The array no handler needs is an empty list with a number of its own. *)
LEMMA UnneededIs == Unneeded \in Lists /\ Unneeded.gen = -1 /\ Unneeded.rows = <<>>
BY DEF Unneeded, Lists

(* Every array in use is a list, and every call in flight is a record. *)
LEMMA ArraysAreLists ==
  ASSUME TypeOK
  PROVE  /\ \A L \in Arrays : L \in Lists
         /\ \A s \in InFlight : calls[s] \in Records /\ s \in Slots /\ calls[s] # None
BY UnneededIs DEF TypeOK, Arrays, InFlight, Records

\* All that a step sets is of the right kind.
Prepared(l, o, u, cs, h) ==
  /\ l \in Lists /\ l.gen # -1
  /\ \A L \in Arrays : L.gen = l.gen => Grown(l, L)
  /\ cs \in [Slots -> Records \cup {None}]
  /\ \A s \in Slots : cs[s] # None => cs[s].list \in Arrays /\ Fits(cs[s])
  /\ UiFits(u)
  /\ \A r \in Refs(l, cs) : o[r] \in Objects

\* What stays of a call when only its answer, its list or its row component do not.
Likewise(d, c) ==
  /\ d \in Records /\ d.op = c.op /\ d.id = c.id /\ d.act = c.act /\ d.from = c.from
  /\ d.base = c.base /\ d.then = c.then /\ d.page = c.page /\ d.size = c.size /\ d.idx = c.idx

(* What becomes of the state when a list takes the place of the one that was there:
   a new array, or one that was known and may have grown at its end. *)
LEMMA Becomes ==
  ASSUME Base, NEW l, NEW o, NEW u, NEW cs, NEW sw, NEW h, Become(l, o, u, cs, sw, h),
         Prepared(l, o, u, cs, h), h \in History, hist.moved => h.moved, db' \in [Ids -> 0..2]
  PROVE  /\ Base'
         /\ Arrays' \subseteq {l} \cup {L \in Arrays : L.gen # l.gen}
         /\ list' = l /\ ui' = u /\ hist' = h /\ view' = view
         /\ DOMAIN obj' = Refs(l, cs) /\ \A r \in DOMAIN obj' : obj'[r] = o[r]
         /\ InFlight' = {s \in Slots : cs[s] # None}
         /\ \A s \in Slots : cs[s] = None <=> calls'[s] = None
         /\ \A s \in InFlight' :
              /\ Likewise(calls'[s], cs[s]) /\ calls'[s].phase = cs[s].phase
              /\ calls'[s].ok = cs[s].ok /\ calls'[s].data = cs[s].data
              /\ calls'[s].list = IF cs[s].list.gen = l.gen THEN l ELSE cs[s].list
<1> /\ l \in Lists /\ l.gen # -1 /\ (\A L \in Arrays : L.gen = l.gen => Grown(l, L))
    /\ cs \in [Slots -> Records \cup {None}]
    /\ \A s \in Slots : cs[s] # None => cs[s].list \in Arrays /\ Fits(cs[s])
    /\ UiFits(u) /\ \A r \in Refs(l, cs) : o[r] \in Objects
  BY DEF Prepared
<1>1. list' = l /\ ui' = u /\ hist' = h /\ view' = view
  BY DEF Become
<1> DEFINE next(s) == [cs[s] EXCEPT !.alive = @ /\ (view \in BerryViews => cs[s].id \in IdsIn(Slice(l, u))),
                                    !.list = IF @.gen = l.gen THEN l ELSE @]
<1>2. calls' = [s \in Slots |-> IF cs[s] = None THEN None ELSE next(s)]
  BY Zenon DEF Become
<1>3. ASSUME NEW s \in Slots, cs[s] # None
      PROVE  /\ calls'[s] \in Records
             /\ \E a \in BOOLEAN : calls'[s] = [cs[s] EXCEPT !.alive = a,
                                   !.list = IF cs[s].list.gen = l.gen THEN l ELSE cs[s].list]
  <2>1. cs[s] \in Records
    BY <1>3
  <2> DEFINE a == cs[s].alive /\ (view \in BerryViews => cs[s].id \in IdsIn(Slice(l, u)))
             m == IF cs[s].list.gen = l.gen THEN l ELSE cs[s].list
  <2>2. a \in BOOLEAN /\ m \in Lists
    BY <2>1 DEF Records
  <2>3. calls'[s] = [cs[s] EXCEPT !.alive = a, !.list = m]
    <3>1. calls'[s] = next(s)
      BY <1>2, <1>3, Zenon
    <3>2. next(s) = [cs[s] EXCEPT !.alive = a, !.list = m]
      <4>1. [cs[s] EXCEPT !.alive = a].list = cs[s].list
        BY <2>1 DEF Records
      <4> QED
        BY <4>1, Zenon
    <3> QED
      BY <3>1, <3>2
  <2> HIDE DEF a, m
  <2>4. [cs[s] EXCEPT !.alive = a, !.list = m] \in Records
    BY <2>1, <2>2 DEF Records
  <2> QED
    BY <2>2, <2>3, <2>4 DEF m
<1>4. ASSUME NEW s \in Slots, cs[s] = None PROVE calls'[s] = None
  BY <1>2, <1>4, Zenon
<1>5. \A s \in Slots : cs[s] = None <=> calls'[s] = None
  BY <1>3, <1>4, NoneIsNoRecord
<1>6. calls' \in [Slots -> Records \cup {None}]
  <2>1. \A s \in Slots : calls'[s] \in Records \cup {None}
    BY <1>3, <1>4
  <2>2. DOMAIN calls' = Slots /\ calls' = [s \in Slots |-> calls'[s]]
    BY <1>2
  <2> HIDE DEF next
  <2> QED
    BY <2>1, <2>2
<1>7. InFlight' = {s \in Slots : cs[s] # None}
  BY <1>5 DEF InFlight
<1>8. ASSUME NEW s \in Slots, cs[s] # None
      PROVE  calls'[s].list = IF cs[s].list.gen = l.gen THEN l ELSE cs[s].list
  <2>1. cs[s] \in Records
    BY <1>8
  <2> QED
    BY <1>3, <1>8, <2>1 DEF Records
<1>9. Arrays' \subseteq {l} \cup {L \in Arrays : L.gen # l.gen}
  <2>1. Unneeded \in Arrays /\ Unneeded' = Unneeded /\ Unneeded.gen # l.gen
    BY UnneededIs DEF Arrays, Unneeded
  <2>2. \A s \in InFlight' : calls'[s].list \in {l} \cup {L \in Arrays : L.gen # l.gen}
    BY <1>7, <1>8
  <2> QED
    BY <1>1, <2>1, <2>2 DEF Arrays
<1>10. OneArray'
  <2>1. \A L, M \in Arrays : L.gen = M.gen => L = M
    BY DEF Base, OneArray
  <2>2. \A L, M \in Arrays' : L.gen = M.gen => L = M
    BY <1>9, <2>1
  <2> QED
    BY <2>2 DEF OneArray
<1>11. Refs(l, cs) = Refs(list, calls)'
  <2> DEFINE of(m) == {m.rows[k] : k \in DOMAIN m.rows}
             some == {s \in Slots : cs[s] # None}
  <2>1. Refs(l, cs) = of(l) \cup UNION {of(cs[s].list) : s \in some}
    BY Zenon DEF Refs
  <2>2. Refs(list, calls)' = of(l) \cup UNION {of(calls'[s].list) : s \in some}
    <3>1. Refs(list, calls)' = of(list') \cup UNION {of(calls'[s].list) : s \in {t \in Slots : calls'[t] # None'}}
      BY DEF Refs
    <3>2. {t \in Slots : calls'[t] # None'} = some
      BY <1>5 DEF None
    <3> HIDE DEF of, some
    <3> QED
      BY <1>1, <3>1, <3>2
  <2>3. ASSUME NEW s \in some
        PROVE  of(cs[s].list) \subseteq of(calls'[s].list)
               /\ of(calls'[s].list) \subseteq of(l) \cup of(cs[s].list)
    <3>1. CASE cs[s].list.gen = l.gen
      <4>1. Grown(l, cs[s].list) /\ calls'[s].list = l
        BY <1>8, <2>3, <3>1
      <4> QED
        BY <4>1 DEF Grown
    <3>2. CASE cs[s].list.gen # l.gen
      BY <1>8, <2>3, <3>2
    <3> QED
      BY <3>1, <3>2
  <2> HIDE DEF of, some
  <2>4. UNION {of(cs[s].list) : s \in some} \subseteq UNION {of(calls'[s].list) : s \in some}
    BY <2>3
  <2>5. UNION {of(calls'[s].list) : s \in some} \subseteq of(l) \cup UNION {of(cs[s].list) : s \in some}
    BY <2>3
  <2> QED
    BY <2>1, <2>2, <2>4, <2>5
<1>12. obj' = [r \in Refs(l, cs) |-> o[r]]
  BY DEF Become
<1>13. DOMAIN obj' = Refs(l, cs) /\ \A r \in DOMAIN obj' : obj'[r] = o[r]
  BY <1>12
<1>14. TypeOK'
  <2>1. obj' \in [Refs(list, calls)' -> Objects]
    BY <1>11, <1>12
  <2>2. /\ view' \in DefaultViews \cup AirViews \cup BerryViews
        /\ list' \in Lists /\ ui' \in States /\ hist' \in History
    BY <1>1 DEF Base, TypeOK, UiFits
  <2> QED
    BY <1>6, <2>1, <2>2 DEF TypeOK
<1>15. \A s \in InFlight' : Fits(calls[s])'
  <2> SUFFICES ASSUME NEW s \in InFlight' PROVE Fits(calls[s])'
    OBVIOUS
  <2>1. s \in Slots /\ cs[s] # None /\ cs[s] \in Records /\ Fits(cs[s]) /\ cs[s].list \in Arrays
    BY <1>7
  <2> DEFINE c == cs[s]
             d == calls'[s]
  <2>2. /\ d.op = c.op /\ d.base = c.base /\ d.act = c.act /\ d.page = c.page /\ d.id = c.id
        /\ d.from = c.from /\ d.size = c.size /\ d.then = c.then /\ d.phase = c.phase
        /\ d.ok = c.ok /\ d.data = c.data /\ d.idx = c.idx
    <3>1. PICK a \in BOOLEAN : d = [c EXCEPT !.alive = a,
                                  !.list = IF c.list.gen = l.gen THEN l ELSE c.list]
      BY <1>3, <2>1
    <3>2. c \in Records
      BY <2>1
    <3> HIDE DEF c, d
    <3> QED
      BY <3>1, <3>2 DEF Records
  <2>3. d.list.gen = c.list.gen /\ Grown(d.list, c.list)
    <3>1. CASE c.list.gen = l.gen
      BY <1>8, <2>1, <3>1
    <3>2. CASE c.list.gen # l.gen
      BY <1>8, <2>1, <3>2 DEF Grown
    <3> QED
      BY <3>1, <3>2
  <2>4. Place(c) = Place(d)
    BY <2>2 DEF Place
  <2>5. Addressed(c) => Addressed(d)
    BY <2>2, <2>3, <2>4 DEF Addressed, Grown
  <2>6. Place(calls[s])' = Place(d) /\ Addressed(calls[s])' = Addressed(d)
    BY DEF Place, Addressed
  <2> HIDE DEF c, d
  <2>7. First' = First /\ hist'.moved = h.moved
    BY <1>1 DEF First
  <2>8. Fits(c)
    BY <2>1 DEF c
  <2>9. calls'[s] = d
    BY DEF d
  <2> QED
    BY <1>1, <2>2, <2>3, <2>5, <2>6, <2>7, <2>8, <2>9 DEF Fits
<1>16. list'.gen # -1 /\ UiFits(ui)'
  BY <1>1 DEF UiFits, First
<1>17. Base'
  BY <1>10, <1>14, <1>15, <1>16 DEF Base
<1>18. ASSUME NEW s \in InFlight'
      PROVE  /\ Likewise(calls'[s], cs[s]) /\ calls'[s].phase = cs[s].phase
             /\ calls'[s].ok = cs[s].ok /\ calls'[s].data = cs[s].data
             /\ calls'[s].list = IF cs[s].list.gen = l.gen THEN l ELSE cs[s].list
  <2> DEFINE c == cs[s]
             m == IF c.list.gen = l.gen THEN l ELSE c.list
  <2>1. s \in Slots /\ c # None /\ c \in Records
    BY <1>7
  <2>2. PICK a \in BOOLEAN : calls'[s] = [c EXCEPT !.alive = a, !.list = m]
    BY <1>3, <2>1
  <2>3. m \in Lists
    BY <2>1 DEF Records
  <2> DEFINE e == [c EXCEPT !.alive = a, !.list = m]
  <2> HIDE DEF m, c
  <2>4. /\ e \in Records /\ e.op = c.op /\ e.id = c.id /\ e.act = c.act /\ e.from = c.from
        /\ e.base = c.base /\ e.then = c.then /\ e.page = c.page /\ e.size = c.size /\ e.idx = c.idx
        /\ e.phase = c.phase /\ e.ok = c.ok /\ e.data = c.data /\ e.list = m
    BY <2>1, <2>3 DEF Records
  <2>5. calls'[s] = e
    BY <2>2
  <2> HIDE DEF e
  <2>6. Likewise(calls'[s], c) /\ calls'[s].phase = c.phase /\ calls'[s].ok = c.ok
        /\ calls'[s].data = c.data /\ calls'[s].list = m
    BY <2>4, <2>5 DEF Likewise
  <2> QED
    BY <2>6 DEF c, m
<1> QED
  BY <1>1, <1>5, <1>7, <1>9, <1>13, <1>17, <1>18


-----------------------------------------------------------------------------
(* The calls that are made, and the lists answers make.                    *)

NewCall(c) ==
  c \in Records /\ Fits(c) /\ c.list \in {list, Unneeded} /\ c.phase = "asked"

\* A call for a page.
Load(c) ==
  /\ c \in Records /\ c.op = "load" /\ c.act = "none" /\ c.base \in {"all", "some"}
  /\ c.phase = "asked" /\ c.list = (IF c.from = 0 THEN Unneeded ELSE list)
  /\ view \notin AirViews => c.size = PAGE
  /\ c.then = -1 \/ c.then >= First

(* The fields of a call that is made now: the page, the array and the closure are those
   of now, the row component is the first. *)
LEMMA CallIs ==
  ASSUME Base, NEW op \in {"load", "search", "manage"}, NEW id \in Ids \cup {0},
         NEW act \in Actions, NEW from \in Nat, NEW base \in {"all", "some", "found"}
  PROVE  LET c == Call(op, id, act, from, base)
         IN  /\ c \in Records
             /\ c.op = op /\ c.id = id /\ c.act = act /\ c.from = from /\ c.base = base
             /\ c.then = -1 /\ c.list = list /\ c.page = ui.page /\ c.size = ui.size
             /\ c.phase = "asked" /\ c.idx = 0
<1>1. ui.page \in Nat /\ ui.size \in {PAGE, 2 * PAGE} /\ list \in Lists
  BY DEF Base, TypeOK, States
<1>2. <<>> \in Seq(Answers)
  OBVIOUS
<1> QED
  BY <1>1, <1>2 DEF Call, Records

(* The calls for a page, in every form the interfaces give them, are calls for a page. *)
LEMMA LoadForms ==
  ASSUME Base
  PROVE  /\ \A from \in Nat : Load(Loading(from)) /\ Loading(from).from = from
         /\ \A c : Load(c) => NewCall(c) /\ c.op = "load"
         /\ \A c, t : Load(c) /\ t \in Nat /\ t >= First =>
              Load([c EXCEPT !.then = t]) /\ [c EXCEPT !.then = t].from = c.from
         /\ \A c, b : Load(c) /\ b \in BOOLEAN => Load([c EXCEPT !.clear = b])
         /\ \A c, b : Load(c) /\ b \in {"all", "some"} => Load([c EXCEPT !.base = b])
         /\ \A c, p : Load(c) /\ p \in Nat => Load([c EXCEPT !.page = p])
         /\ \A c, n : Load(c) /\ (n = PAGE \/ (view \in AirViews /\ n \in {PAGE, 2 * PAGE})) =>
              Load([c EXCEPT !.size = n])
<1>1. ui.page \in Nat /\ ui.size \in {PAGE, 2 * PAGE} /\ list \in Lists /\ Unneeded \in Lists
      /\ ui.order \in {"all", "some"} /\ (view \notin AirViews => ui.size = PAGE) /\ list.gen # -1
  BY UnneededIs DEF Base, TypeOK, States, UiFits
<1>2. ASSUME NEW from \in Nat
      PROVE  Load(Loading(from)) /\ Loading(from).from = from
  <2> DEFINE c == Call("load", 0, "none", from, ui.order)
             m == IF from = 0 THEN Unneeded ELSE c.list
  <2>1. /\ c \in Records
        /\ c.op = "load" /\ c.act = "none" /\ c.from = from /\ c.base = ui.order
        /\ c.then = -1 /\ c.list = list /\ c.size = ui.size /\ c.phase = "asked"
    <3>1. "none" \in Actions /\ "load" \in {"load", "search", "manage"} /\ 0 \in Ids \cup {0}
          /\ ui.order \in {"all", "some", "found"}
      BY <1>1 DEF Actions
    <3>2. <<>> \in Seq(Answers)
      OBVIOUS
    <3> QED
      BY <1>1, <3>1, <3>2 DEF Call, Records
  <2>2. Loading(from) = [c EXCEPT !.list = m, !.page = 0]
    BY Zenon DEF Loading
  <2> HIDE DEF c
  <2>3. m = (IF from = 0 THEN Unneeded ELSE list) /\ m \in Lists
    BY <1>1, <2>1
  <2> HIDE DEF m
  <2>4. [c EXCEPT !.list = m, !.page = 0] \in Records
    BY <2>1, <2>3 DEF Records
  <2> DEFINE d == [c EXCEPT !.list = m, !.page = 0]
  <2>5. /\ d.op = "load" /\ d.act = "none" /\ d.from = from /\ d.base = ui.order
        /\ d.then = -1 /\ d.list = m /\ d.size = ui.size /\ d.phase = "asked"
    BY <2>1 DEF Records
  <2> HIDE DEF d
  <2> QED
    BY <1>1, <2>2, <2>3, <2>4, <2>5 DEF Load, d
<1>3. ASSUME NEW c, Load(c)
      PROVE  NewCall(c) /\ c.op = "load"
  BY <1>1, <1>3 DEF Load, NewCall, Fits
<1>4. ASSUME NEW c, Load(c)
      PROVE  /\ \A t \in Nat : t >= First =>
                  Load([c EXCEPT !.then = t]) /\ [c EXCEPT !.then = t].from = c.from
             /\ \A b \in BOOLEAN : Load([c EXCEPT !.clear = b])
             /\ \A b \in {"all", "some"} : Load([c EXCEPT !.base = b])
             /\ \A p \in Nat : Load([c EXCEPT !.page = p])
             /\ \A n : (n = PAGE \/ (view \in AirViews /\ n \in {PAGE, 2 * PAGE})) =>
                  Load([c EXCEPT !.size = n])
  <2>1. c \in Records
    BY <1>4 DEF Load
  <2>2. ASSUME NEW t \in Nat, t >= First
        PROVE  Load([c EXCEPT !.then = t]) /\ [c EXCEPT !.then = t].from = c.from
    BY <1>4, <2>1, <2>2 DEF Load, Records
  <2>3. \A b \in BOOLEAN : Load([c EXCEPT !.clear = b])
    BY <1>4, <2>1 DEF Load, Records
  <2>4. \A b \in {"all", "some"} : Load([c EXCEPT !.base = b])
    BY <1>4, <2>1 DEF Load, Records
  <2>5. \A p \in Nat : Load([c EXCEPT !.page = p])
    BY <1>4, <2>1 DEF Load, Records
  <2>6. ASSUME NEW n, n = PAGE \/ (view \in AirViews /\ n \in {PAGE, 2 * PAGE})
        PROVE  Load([c EXCEPT !.size = n])
    BY <1>4, <2>1, <2>6 DEF Load, Records
  <2> QED
    BY <2>2, <2>3, <2>4, <2>5, <2>6
<1> QED
  BY <1>2, <1>3, <1>4

(* A search is a call that fits. *)
LEMMA FindingForm ==
  ASSUME Base
  PROVE  NewCall(Finding) /\ Finding.op = "search"
<1> DEFINE c == Call("search", 0, "none", 0, "found")
<1>1. /\ c \in Records
      /\ c.op = "search" /\ c.act = "none" /\ c.from = 0 /\ c.base = "found"
      /\ c.then = -1 /\ c.list = list /\ c.size = ui.size /\ c.phase = "asked"
  <2>1. "none" \in Actions /\ "search" \in {"load", "search", "manage"} /\ 0 \in Ids \cup {0}
        /\ 0 \in Nat /\ "found" \in {"all", "some", "found"}
    BY DEF Actions
  <2>2. ui.page \in Nat /\ ui.size \in {PAGE, 2 * PAGE} /\ list \in Lists
    BY DEF Base, TypeOK, States
  <2>3. <<>> \in Seq(Answers)
    OBVIOUS
  <2> QED
    BY <2>1, <2>2, <2>3 DEF Call, Records
<1>2. Finding = [c EXCEPT !.list = Unneeded, !.page = 0]
  BY Zenon DEF Finding
<1> HIDE DEF c
<1> DEFINE d == [c EXCEPT !.list = Unneeded, !.page = 0]
<1>3. d \in Records
  BY <1>1, UnneededIs DEF Records
<1>4. /\ d.op = "search" /\ d.act = "none" /\ d.from = 0 /\ d.base = "found"
      /\ d.then = -1 /\ d.list = Unneeded /\ d.size = ui.size /\ d.phase = "asked"
  BY <1>1 DEF Records
<1> HIDE DEF d
<1>5. view \notin AirViews => ui.size = PAGE
  BY DEF Base, UiFits
<1> QED
  BY <1>2, <1>3, <1>4, <1>5 DEF NewCall, Fits, d

(* A call for an operation on a row, or on all. *)
LEMMA ManageForm ==
  ASSUME Base, NEW c \in Records,
         c.op = "manage", c.from = 0, c.base = "all", c.then = -1, c.page = ui.page,
         c.size = ui.size, c.phase = "asked", c.list \in {list, Unneeded},
         c.id = 0 <=> c.act \in {"purge", "balances"},
         c.act = "balances" => view \in BerryViews, c.act = "purge" => view \in ChannelViews,
         view \notin BerryViews => c.list = list,
         c.id # 0 /\ view \notin BerryViews =>
           /\ (ui.page - 1) * ui.size + c.idx \in DOMAIN list.rows
           /\ list.rows[(ui.page - 1) * ui.size + c.idx][1] = c.id
  PROVE  NewCall(c)
<1>1. list.gen # -1 /\ ui.page >= First /\ (view \notin AirViews => ui.size = PAGE)
  BY DEF Base, UiFits
<1>2. c.id # 0 /\ view \notin BerryViews => Addressed(c)
  BY DEF Addressed, Place
<1>3. Fits(c)
  BY <1>1, <1>2 DEF Fits
<1> QED
  BY <1>3 DEF NewCall

(* The page again, in the same closure. *)
LEMMA ReloadingForm ==
  ASSUME Base, NEW s \in InFlight, NEW from \in Nat, calls[s].op = "manage",
         view \notin BerryViews => calls[s].list.gen # -1
  PROVE  LET c == Reloading(calls[s], from)
         IN  /\ c \in Records /\ Fits(c) /\ c.list \in {calls[s].list, Unneeded}
             /\ c.phase = "asked" /\ c.op = "load" /\ c.act = "none" /\ c.list \in Arrays
<1> DEFINE c == calls[s]
           m == IF from = 0 THEN Unneeded ELSE c.list
           d == [c EXCEPT !.op = "load", !.act = "none", !.from = from, !.phase = "asked",
                          !.ok = FALSE, !.data = <<>>, !.list = m]
<1>1. Fits(c) /\ c \in Records /\ c.list \in Arrays /\ Unneeded \in Arrays
  BY ArraysAreLists DEF Base, Arrays
<1>2. Reloading(c, from) = d
  <2>1. [c EXCEPT !.op = "load", !.act = "none", !.from = from, !.phase = "asked",
                  !.ok = FALSE, !.data = <<>>].list = c.list
    BY <1>1 DEF Records
  <2> QED
    BY <2>1, Zenon DEF Reloading
<1>3. <<>> \in Seq(Answers) /\ "none" \in Actions /\ m \in Lists
  <2>1. c.list \in Lists /\ Unneeded \in Lists
    BY <1>1, UnneededIs DEF Records
  <2> QED
    BY <2>1 DEF Actions
<1>8. m \in {c.list, Unneeded} /\ m \in Arrays /\ (from # 0 => m = c.list)
  BY <1>1
<1> HIDE DEF c, m
<1>4. d \in Records
  BY <1>1, <1>3 DEF Records
<1>5. /\ d.op = "load" /\ d.act = "none" /\ d.from = from /\ d.phase = "asked" /\ d.list = m
      /\ d.size = c.size /\ d.then = c.then /\ d.base = c.base
  BY <1>1 DEF Records
<1> HIDE DEF d
<1>6. Fits(d)
  BY <1>1, <1>5, <1>8 DEF Fits, c
<1> QED
  BY <1>2, <1>4, <1>5, <1>6, <1>8 DEF c


(* The lists that answers make of the one their handler holds. *)
LEMMA PlacedAreLists ==
  ASSUME Base, NEW s \in InFlight
  PROVE  LET c == calls[s]
         IN  /\ Replaced(c) \in Lists /\ Replaced(c).gen = NewGen /\ Replaced(c).rows = Fresh(c)
             /\ Replaced(c).base = c.base /\ ~Replaced(c).mixed
             /\ Spliced(c) \in Lists /\ Spliced(c).gen = NewGen /\ Spliced(c).base = c.list.base
             /\ Spliced(c).rows = SpliceAt(c.list.rows, c.from * c.size, Fresh(c))
             /\ Spliced(c).mixed = (Shifted(c) \/ OutOfPlace(c)) /\ c.from * c.size \in Nat
             /\ Pushed(c) \in Lists /\ Pushed(c).gen = c.list.gen /\ Pushed(c).base = c.list.base
             /\ Pushed(c).rows = c.list.rows \o Fresh(c)
             /\ Pushed(c).mixed = (Shifted(c) \/ (c.data # <<>> /\ Len(c.list.rows) # c.from * PAGE))
             /\ Copied(c) \in Lists /\ Copied(c).gen = NewGen /\ Copied(c).rows = c.list.rows
             /\ Copied(c).base = c.list.base /\ Copied(c).mixed = c.list.mixed
<1> DEFINE c == calls[s]
           L == c.list
<1>1. c \in Records /\ TypeOK
  BY ArraysAreLists DEF Base
<1>2. /\ L \in Lists /\ L.rows \in Seq(Pairs) /\ L.mixed \in BOOLEAN
        /\ c.base \in {"all", "some", "found"}
      /\ L.base \in {"all", "some", "found", "sorted", "cut"} /\ c.from \in Nat /\ c.size \in Nat
  BY <1>1, TableAssumption DEF Records, Lists
<1>3. Fresh(c) \in Seq(Pairs) /\ NewGen \in Nat
  BY <1>1, FreshIs, NewNumbers
<1>4. c.from * c.size \in Nat
  BY <1>2
<1>5. SpliceAt(L.rows, c.from * c.size, Fresh(c)) \in Seq(Pairs)
  <2> HIDE DEF c, L
  <2> QED
    BY <1>2, <1>3, <1>4, SpliceIs
<1>6. L.rows \o Fresh(c) \in Seq(Pairs)
  <2> HIDE DEF c, L
  <2> QED
    BY <1>2, <1>3, ConcatProperties
<1>7. Shifted(c) \in BOOLEAN /\ OutOfPlace(c) \in BOOLEAN
  BY <1>1, <1>2 DEF Shifted, OutOfPlace, TypeOK, History
<1> HIDE DEF c
<1>8. /\ Replaced(c) \in Lists /\ Replaced(c).gen = NewGen /\ Replaced(c).rows = Fresh(c)
      /\ Replaced(c).base = c.base /\ ~Replaced(c).mixed
  BY <1>2, <1>3 DEF Replaced, Lists
<1>9. /\ Spliced(c) \in Lists /\ Spliced(c).gen = NewGen /\ Spliced(c).base = L.base
      /\ Spliced(c).rows = SpliceAt(L.rows, c.from * c.size, Fresh(c))
      /\ Spliced(c).mixed = (Shifted(c) \/ OutOfPlace(c))
  BY <1>2, <1>3, <1>5, <1>7 DEF Spliced, Lists
<1> DEFINE mix == Shifted(c) \/ (c.data # <<>> /\ Len(L.rows) # c.from * PAGE)
<1>10. Pushed(c) = [L EXCEPT !.rows = L.rows \o Fresh(c), !.mixed = mix]
  BY <1>2 DEF Pushed, Lists
<1>11. mix \in BOOLEAN
  BY <1>7
<1>12. Copied(c) = [L EXCEPT !.gen = NewGen]
  BY DEF Copied
<1> HIDE DEF L, mix
<1>13. /\ Pushed(c) \in Lists /\ Pushed(c).gen = L.gen /\ Pushed(c).base = L.base
       /\ Pushed(c).rows = L.rows \o Fresh(c) /\ Pushed(c).mixed = mix
  BY <1>2, <1>6, <1>10, <1>11 DEF Lists
<1>14. /\ Copied(c) \in Lists /\ Copied(c).gen = NewGen /\ Copied(c).rows = L.rows
       /\ Copied(c).base = L.base /\ Copied(c).mixed = L.mixed
  BY <1>2, <1>3, <1>12 DEF Lists
<1> QED
  BY <1>4, <1>8, <1>9, <1>13, <1>14 DEF c, L, mix

(* A list without one of its rows. *)
LEMMA WithoutIs ==
  ASSUME NEW q \in Seq(Pairs), NEW k \in 1..Len(q)
  PROVE  LET r == SubSeq(q, 1, k - 1) \o SubSeq(q, k + 1, Len(q))
         IN  /\ r \in Seq(Pairs)
             /\ \A i \in DOMAIN r : \E j \in DOMAIN q : j # k /\ r[i] = q[j]
                  /\ j = (IF i < k THEN i ELSE i + 1)
<1> DEFINE a == SubSeq(q, 1, k - 1)
           b == SubSeq(q, k + 1, Len(q))
<1>1. Len(q) \in Nat /\ DOMAIN q = 1..Len(q) /\ \A i \in 1..Len(q) : q[i] \in Pairs
  BY SeqIs
<1>2. a \in Seq(Pairs) /\ Len(a) = k - 1 /\ \A i \in 1..(k - 1) : a[i] = q[i]
  <2>1. k - 1 \in Nat /\ 1 <= k /\ \A i \in 1..(k - 1) : q[i] \in Pairs
    BY <1>1
  <2>2. /\ a \in Seq(Pairs) /\ Len(a) = IF 1 <= k - 1 THEN k - 1 - 1 + 1 ELSE 0
        /\ \A i \in 1..(k - 1 - 1 + 1) : a[i] = q[1 + i - 1]
    BY <1>1, <2>1, SubSeqProperties
  <2> HIDE DEF a
  <2>3. Len(a) = k - 1
    BY <2>1, <2>2
  <2>4. \A i \in 1..(k - 1) : a[i] = q[i]
    <3>1. \A i \in 1..(k - 1) : i \in 1..(k - 1 - 1 + 1) /\ 1 + i - 1 = i
      BY <2>1
    <3> QED
      BY <2>2, <3>1
  <2> QED
    BY <2>2, <2>3, <2>4
<1>3. b \in Seq(Pairs) /\ Len(b) = Len(q) - k /\ \A i \in 1..(Len(q) - k) : b[i] = q[k + i]
  <2>1. k \in Nat /\ k <= Len(q) /\ \A i \in (k + 1)..Len(q) : q[i] \in Pairs
    BY <1>1
  <2>2. /\ b \in Seq(Pairs) /\ Len(b) = IF k + 1 <= Len(q) THEN Len(q) - (k + 1) + 1 ELSE 0
        /\ \A i \in 1..(Len(q) - (k + 1) + 1) : b[i] = q[k + 1 + i - 1]
    BY <1>1, <2>1, SubSeqProperties
  <2> DEFINE m == Len(q)
             n == Len(b)
  <2>3. n = (IF k + 1 <= m THEN m - (k + 1) + 1 ELSE 0) /\ m \in Nat /\ k \in Nat /\ k <= m
    BY <1>1, <2>1, <2>2
  <2>4. n = m - k
    <3> HIDE DEF m, n
    <3> QED
      BY <2>3
  <2>5. \A i \in 1..(Len(q) - k) : b[i] = q[k + i]
    <3>1. \A i \in 1..(Len(q) - k) : i \in 1..(Len(q) - (k + 1) + 1) /\ k + 1 + i - 1 = k + i
      BY <1>1, <2>1
    <3> HIDE DEF b
    <3> QED
      BY <2>2, <3>1
  <2> QED
    BY <2>2, <2>4, <2>5
<1> HIDE DEF a, b
<1>4. /\ a \o b \in Seq(Pairs) /\ Len(a \o b) = Len(a) + Len(b)
      /\ \A i \in 1..(Len(a) + Len(b)) : (a \o b)[i] = IF i <= Len(a) THEN a[i] ELSE b[i - Len(a)]
  BY <1>2, <1>3, ConcatProperties
<1>5. Len(a \o b) = Len(q) - 1 /\ DOMAIN (a \o b) = 1..(Len(q) - 1)
  <2>1. Len(a) + Len(b) = Len(q) - 1
    BY <1>1, <1>2, <1>3
  <2> QED
    BY <1>4, <2>1, SeqIs
<1>6. ASSUME NEW i \in DOMAIN (a \o b)
      PROVE  \E j \in DOMAIN q : j # k /\ (a \o b)[i] = q[j] /\ j = (IF i < k THEN i ELSE i + 1)
  <2>1. i \in 1..(Len(q) - 1) /\ i \in 1..(Len(a) + Len(b))
    <3>1. Len(a) + Len(b) = Len(q) - 1
      BY <1>1, <1>2, <1>3
    <3> QED
      BY <1>5, <3>1
  <2>2. CASE i < k
    <3>1. i <= Len(a) /\ i \in 1..(k - 1) /\ i \in DOMAIN q /\ i # k
      BY <1>1, <1>2, <2>1, <2>2
    <3> QED
      BY <1>2, <1>4, <2>1, <2>2, <3>1
  <2>3. CASE ~(i < k)
    <3>1. ~(i <= Len(a)) /\ i - Len(a) \in 1..(Len(q) - k) /\ i + 1 \in DOMAIN q /\ i + 1 # k
          /\ k + (i - Len(a)) = i + 1
      BY <1>1, <1>2, <2>1, <2>3
    <3> QED
      BY <1>3, <1>4, <2>1, <2>3, <3>1
  <2> QED
    BY <2>2, <2>3
<1> QED
  BY <1>4, <1>6 DEF a, b

\* What is left of a list when its handler takes a row off it.
Cut(c) ==
  LET at == {k \in DOMAIN c.list.rows : c.list.rows[k][1] = c.id}
  IN  IF at = {} THEN Copied(c) ELSE [Without(c, Least(at)) EXCEPT !.base = IF c.ok THEN @ ELSE "cut"]

(* A list without the row of its handler: a new array of the other rows, in order, or a
   copy when the row is not there. *)
LEMMA CutIs ==
  ASSUME Base, NEW s \in InFlight
  PROVE  LET c == calls[s]
             L == c.list
         IN  /\ Cut(c) \in Lists /\ Cut(c).gen = NewGen /\ Cut(c).mixed = L.mixed
             /\ Cut(c) = Copied(c) \/ Cut(c).base = (IF c.ok THEN L.base ELSE "cut")
             /\ Cut(c) = Copied(c) => \A k \in DOMAIN L.rows : L.rows[k][1] # c.id
             /\ Cut(c) # Copied(c) =>
                  \E k \in DOMAIN L.rows :
                    /\ L.rows[k][1] = c.id
                    /\ \A i \in DOMAIN Cut(c).rows : \E j \in DOMAIN L.rows :
                         j # k /\ Cut(c).rows[i] = L.rows[j] /\ j = (IF i < k THEN i ELSE i + 1)
<1> DEFINE c == calls[s]
           L == c.list
           at == {k \in DOMAIN L.rows : L.rows[k][1] = c.id}
           k == Least(at)
           rest == SubSeq(L.rows, 1, k - 1) \o SubSeq(L.rows, k + 1, Len(L.rows))
<1>1. c \in Records /\ TypeOK
  BY ArraysAreLists DEF Base
<1>2. L \in Lists /\ L.rows \in Seq(Pairs) /\ NewGen \in Nat /\ c.ok \in BOOLEAN
  BY <1>1, NewNumbers DEF Records, Lists
<1>3. Len(L.rows) \in Nat /\ DOMAIN L.rows = 1..Len(L.rows)
  BY <1>2, SeqIs
<1>4. Copied(c) \in Lists /\ Copied(c).gen = NewGen /\ Copied(c).mixed = L.mixed
        /\ Copied(c).rows = L.rows
  BY PlacedAreLists
<1>5. CASE at = {}
  <2>1. Cut(c) = Copied(c)
    BY <1>5 DEF Cut
  <2> QED
    BY <1>4, <1>5, <2>1
<1>6. CASE at # {}
  <2>1. k \in at
    <3>1. at \in SUBSET Nat
      BY <1>3
    <3> HIDE DEF at
    <3> QED
      BY <1>6, <3>1, LeastOf
  <2>2. k \in 1..Len(L.rows) /\ L.rows[k][1] = c.id
    BY <1>3, <2>1
  <2>3. Cut(c) = [Without(c, k) EXCEPT !.base = IF c.ok THEN @ ELSE "cut"]
    BY <1>6, Zenon DEF Cut
  <2>4. Without(c, k) = [L EXCEPT !.gen = NewGen, !.rows = rest]
    <3>1. [L EXCEPT !.gen = NewGen].rows = L.rows
      BY <1>2 DEF Lists
    <3> QED
      BY <3>1, Zenon DEF Without
  <2> HIDE DEF k, at
  <2>5. /\ rest \in Seq(Pairs)
        /\ \A i \in DOMAIN rest : \E j \in DOMAIN L.rows :
             j # k /\ rest[i] = L.rows[j] /\ j = (IF i < k THEN i ELSE i + 1)
    <3> HIDE DEF c, L
    <3> QED
      BY <1>2, <2>2, WithoutIs
  <2> HIDE DEF rest, L
  <2>6. /\ Without(c, k) \in Lists /\ Without(c, k).gen = NewGen /\ Without(c, k).rows = rest
        /\ Without(c, k).base = L.base /\ Without(c, k).mixed = L.mixed
    BY <1>2, <2>4, <2>5 DEF Lists
  <2> DEFINE W == Without(c, k)
  <2> HIDE DEF W
  <2>7. Cut(c) = [W EXCEPT !.base = IF c.ok THEN W.base ELSE "cut"]
    BY <2>3, Zenon DEF W
  <2>8. /\ Cut(c) \in Lists /\ Cut(c).gen = NewGen /\ Cut(c).mixed = L.mixed
        /\ Cut(c).base = (IF c.ok THEN L.base ELSE "cut") /\ Cut(c).rows = rest
    <3>1. W \in Lists /\ W.gen = NewGen /\ W.rows = rest /\ W.base = L.base /\ W.mixed = L.mixed
      BY <2>6 DEF W
    <3> HIDE DEF c
    <3> QED
      BY <1>2, <2>7, <3>1 DEF Lists
  <2>9. Cut(c) # Copied(c)
    <3>1. rest # L.rows
      <4>1. ASSUME rest = L.rows PROVE FALSE
        <5>1. Len(L.rows) \in DOMAIN L.rows /\ ~(Len(L.rows) < k)
          BY <1>3, <2>2 DEF L
        <5>2. \E j \in DOMAIN L.rows : j = (IF Len(L.rows) < k THEN Len(L.rows) ELSE Len(L.rows) + 1)
          BY <2>5, <4>1, <5>1
        <5>3. Len(L.rows) + 1 \notin DOMAIN L.rows
          BY <1>3 DEF L
        <5> QED
          BY <5>1, <5>2, <5>3
      <4> QED
        BY <4>1
    <3> QED
      BY <1>4, <2>8, <3>1 DEF L
  <2> QED
    BY <1>3, <2>2, <2>5, <2>8, <2>9 DEF L
<1> QED
  BY <1>5, <1>6


-----------------------------------------------------------------------------
(***************************************************************************)
(* The steps of the fifteen tables, by what they do.                       *)
(***************************************************************************)

\* The two spinners.
Flags == {"loading", "searching"}
\* The calls whose answer clears a spinner.
Ends(c, flag) ==
  \/ c.op = (IF flag = "searching" THEN "search" ELSE "load")
  \/ flag = "loading" /\ view = "air/tokens" /\ c.op = "manage"
  \/ flag = "searching" /\ view \in BerryViews /\ (c.op = "load" \/ c.act = "balances")
\* The spinner of a page that loads, the operations that change rows, and the row an
\* operation is for.
Flag == IF view \in BerryViews THEN "searching" ELSE "loading"
Changing == {"enable", "disable", "delete", "purge"}
Pointed(c) == c.list.rows[Place(c)]

\* A call is made; a spinner that starts is one its answer clears.
Asks ==
  \E c, u : /\ Begin(c, u) /\ NewCall(c) /\ UiFits(u)
            /\ \A flag \in Flags : u[flag] => ui[flag] \/ Ends(c, flag)
\* Another page, or another order, is chosen.
Stands ==
  \E u : /\ UiFits(u) /\ \A flag \in Flags : u[flag] = ui[flag]
         /\ UNCHANGED db
         /\ \E h \in {hist, [hist EXCEPT !.asked = @ + 1]} : Become(list, obj, u, calls, switch, h)
\* The list is sorted by a column.
Sorts ==
  /\ list.rows # <<>> /\ UNCHANGED db
  /\ Become(Sorted, obj, [ui EXCEPT !.loading = FALSE], calls, switch, [hist EXCEPT !.asked = @ + 1])
\* A page has come, and takes its place.
Loads ==
  \E s \in Slots, count \in Nat :
    LET c == calls[s]
    IN  \/ LoadAnswered(s, Flag, IF c.from = 0 THEN Replaced(c) ELSE Spliced(c), count)
        \/ /\ view \notin BerryViews
           /\ LoadAnswered(s, Flag, IF c.from = 0 THEN Replaced(c) ELSE Pushed(c), count)
\* The result of a search has come.
Finds == \E s \in Slots, count \in Nat : FoundAnswered(s, First, count)
\* An operation ends: its answer changes the row it was for, or nothing.
Touches(c, o) ==
  \E new \in Objects :
    /\ o = [obj EXCEPT ![Pointed(c)] = new]
    /\ obj[Pointed(c)].gone => new.gone
    /\ \/ new.gone
       \/ c.ok /\ new.status = c.data[1].status
       \/ ~(c.ok /\ c.act \in Changing) /\ new.status = obj[Pointed(c)].status
Settles ==
  \E s \in Slots : \E l, o, u, sw :
    LET c == calls[s]
    IN  /\ Served(s, "manage") /\ SettleSwitched(s, l, o, u, None, FALSE, sw)
        /\ l \in {list, Copied(c)} /\ (view \in BerryViews => l = list)
        /\ \/ o = obj /\ (c.ok /\ c.act \in Changing => view \in BerryViews)
           \/ view \notin BerryViews /\ c.id # 0 /\ Touches(c, o)
        /\ UiFits(u)
        /\ u.searching => ui.searching /\ c.act # "balances"
        /\ u.loading => ui.loading /\ view # "air/tokens"
\* A row is taken off the list.
Cuts ==
  \E s \in Slots : \E u, sw :
    LET c == calls[s]
    IN  /\ Served(s, "manage") /\ SettleSwitched(s, Cut(c), obj, u, None, FALSE, sw)
        /\ view \in AirViews /\ c.act = "delete"
        /\ UiFits(u)
        /\ u.searching => ui.searching
        /\ u.loading => ui.loading /\ view # "air/tokens"
\* An operation goes on with loading a page.
Reloads ==
  \E s \in Slots, from \in Nat, d \in BOOLEAN :
    /\ Served(s, "manage") /\ (view \notin BerryViews => d)
    /\ Settle(s, list, obj, [ui EXCEPT ![Flag] = TRUE], Reloading(calls[s], from), d)
\* The logs of berry start again.
Restarts == view = "berry/logs" /\ B!LogsRefresh

\* All that a button or a handler does.
Works == Asks \/ Stands \/ Sorts \/ Loads \/ Finds \/ Settles \/ Cuts \/ Reloads \/ Restarts

\* The button of a row.
RowAsks(k, act) ==
  LET q == Slice(list, ui)
  IN  /\ k \in DOMAIN q
      /\ Begin([Call("manage", q[k][1], act, 0, "all") EXCEPT !.idx = k], ui)

(* The quotient of numbers. *)
LEMMA Quotient ==
  ASSUME NEW a \in Nat, NEW b \in Nat \ {0}
  PROVE  a \div b \in Nat
BY SMT

(* The types of the state beside the list, from Base. *)
LEMMA UiIs ==
  ASSUME Base
  PROVE  /\ ui.page \in Nat /\ ui.size \in {PAGE, 2 * PAGE} /\ ui.order \in {"all", "some"}
         /\ ui.count \in Nat /\ UiFits(ui) /\ list.gen # -1 /\ list \in Lists
         /\ Len(list.rows) \in Nat /\ DOMAIN list.rows = 1..Len(list.rows)
         /\ list.rows \in Seq(Pairs)
         /\ view \notin BerryViews => ui.page - 1 \in Nat /\ ui.page >= 1
<1>1. list \in Lists /\ ui \in States /\ UiFits(ui) /\ list.gen # -1
  BY DEF Base, TypeOK
<1>2. list.rows \in Seq(Pairs)
  BY <1>1 DEF Lists
<1>3. ui.page \in Nat /\ (view \notin BerryViews => ui.page >= 1)
  BY <1>1 DEF UiFits, First, States
<1> QED
  BY <1>1, <1>2, <1>3, SeqIs DEF States

(* Asking for a page is making a call. *)
LEMMA LoadAsks ==
  ASSUME Base, NEW c, Load(c), NEW u, UiFits(u), Begin(c, u),
         u.searching => ui.searching \/ view \in BerryViews
  PROVE  Asks
<1>1. NewCall(c) /\ c.op = "load"
  BY LoadForms
<1>2. \A flag \in Flags : u[flag] => ui[flag] \/ Ends(c, flag)
  BY <1>1 DEF Flags, Ends
<1> QED
  BY <1>1, <1>2 DEF Asks

(* Searching is making a call. *)
LEMMA FindAsks ==
  ASSUME Base, Begin(Finding, [ui EXCEPT !.searching = TRUE])
  PROVE  Asks
<1> DEFINE u == [ui EXCEPT !.searching = TRUE]
<1>1. UiFits(u) /\ (u.loading => ui.loading)
  BY UiIs DEF UiFits, States
<1>2. NewCall(Finding) /\ Finding.op = "search"
  BY FindingForm
<1> HIDE DEF u
<1>3. \A flag \in Flags : u[flag] => ui[flag] \/ Ends(Finding, flag)
  BY <1>1, <1>2 DEF Flags, Ends
<1> QED
  BY <1>1, <1>2, <1>3 DEF Asks, u

(* In default and in air a row is addressed by its place on the page. *)
LEMMA RowIsAsked ==
  ASSUME Base, view \notin BerryViews, NEW k, NEW act \in Actions, act \notin {"purge", "balances"},
         NEW u, UiFits(u), u.searching => ui.searching,
         u.loading => ui.loading \/ view = "air/tokens",
         k \in DOMAIN Slice(list, ui),
         Begin([Call("manage", Slice(list, ui)[k][1], act, 0, "all") EXCEPT !.idx = k], u)
  PROVE  Asks
<1> DEFINE id == Slice(list, ui)[k][1]
<1>1. list \in Lists /\ ui \in States /\ ui.page - 1 \in Nat /\ ui.size \in Nat
  BY UiIs, TableAssumption DEF UiFits
<1>2. FirstOf(ui) = (ui.page - 1) * ui.size /\ FirstOf(ui) \in Nat
  BY <1>1 DEF FirstOf
<1>3. /\ k \in Nat \ {0} /\ FirstOf(ui) + k \in DOMAIN list.rows
      /\ Slice(list, ui)[k] = list.rows[FirstOf(ui) + k]
  BY <1>1, <1>2, SliceRow
<1>4. id \in Ids
  <2>1. list.rows[FirstOf(ui) + k] \in Pairs
    BY <1>3, UiIs, SeqIs
  <2> QED
    BY <1>3, <2>1 DEF Pairs
<1>5. id # 0
  BY <1>4, TableAssumption
<1> DEFINE e == Call("manage", id, act, 0, "all")
           d == [e EXCEPT !.idx = k]
<1>6. /\ e \in Records
      /\ e.op = "manage" /\ e.id = id /\ e.act = act /\ e.from = 0 /\ e.base = "all"
      /\ e.then = -1 /\ e.list = list /\ e.page = ui.page /\ e.size = ui.size
      /\ e.phase = "asked"
  <2>1. "manage" \in {"load", "search", "manage"} /\ id \in Ids \cup {0} /\ 0 \in Nat
        /\ "all" \in {"all", "some", "found"}
    BY <1>4
  <2> HIDE DEF id
  <2> QED
    BY <2>1, CallIs
<1> HIDE DEF id, e
<1>7. /\ d \in Records
      /\ d.op = "manage" /\ d.id = id /\ d.act = act /\ d.from = 0 /\ d.base = "all"
      /\ d.then = -1 /\ d.list = list /\ d.page = ui.page /\ d.size = ui.size
      /\ d.phase = "asked" /\ d.idx = k
  BY <1>3, <1>6 DEF Records
<1>8. Begin(d, u)
  BY DEF id, e
<1> HIDE DEF d
<1>9. NewCall(d)
  <2>1. /\ (ui.page - 1) * ui.size + d.idx \in DOMAIN list.rows
        /\ list.rows[(ui.page - 1) * ui.size + d.idx][1] = d.id
    BY <1>2, <1>3, <1>7 DEF id
  <2> QED
    BY <1>5, <1>7, <2>1, ManageForm
<1>10. \A flag \in Flags : u[flag] => ui[flag] \/ Ends(d, flag)
  BY <1>7 DEF Flags, Ends
<1> QED
  BY <1>8, <1>9, <1>10 DEF Asks

(* The purge of the disabled channels. *)
LEMMA PurgeAsks ==
  ASSUME Base, view \in ChannelViews, Begin(Call("manage", 0, "purge", 0, "all"), ui)
  PROVE  Asks
<1> DEFINE c == Call("manage", 0, "purge", 0, "all")
<1>1. /\ c \in Records
      /\ c.op = "manage" /\ c.id = 0 /\ c.act = "purge" /\ c.from = 0 /\ c.base = "all"
      /\ c.then = -1 /\ c.list = list /\ c.page = ui.page /\ c.size = ui.size
      /\ c.phase = "asked"
  <2>1. "manage" \in {"load", "search", "manage"} /\ 0 \in Ids \cup {0} /\ 0 \in Nat
        /\ "all" \in {"all", "some", "found"} /\ "purge" \in Actions
    BY DEF Actions
  <2> QED
    BY <2>1, CallIs
<1>2. Begin(c, ui)
  OBVIOUS
<1> HIDE DEF c
<1>3. NewCall(c)
  BY <1>1, ManageForm
<1>4. UiFits(ui)
  BY UiIs
<1> QED
  BY <1>2, <1>3, <1>4 DEF Asks

(* Turning to another page changes only the page. *)
LEMMA TurnStands ==
  ASSUME Base, NEW p \in Nat, p >= First, Turn(p)
  PROVE  Stands
<1> DEFINE u == [ui EXCEPT !.page = p]
<1>1. UiFits(u) /\ \A flag \in Flags : u[flag] = ui[flag]
  BY UiIs DEF UiFits, States, Flags
<1>2. Become(list, obj, u, calls, switch, hist) /\ UNCHANGED db
  BY DEF Turn
<1> HIDE DEF u
<1> QED
  BY <1>1, <1>2 DEF Stands


(* The row an operation is for is one that is held. *)
LEMMA PointedIs ==
  ASSUME Base, NEW s \in Slots, Served(s, "manage"), view \notin BerryViews, calls[s].id # 0
  PROVE  LET c == calls[s]
         IN  /\ Addressed(c) /\ Pointed(c) \in DOMAIN obj /\ Pointed(c)[1] = c.id
             /\ obj[Pointed(c)] \in Objects
             /\ c.ok => c.data[1].status \in 0..2
<1> DEFINE c == calls[s]
<1>1. s \in InFlight /\ c.op = "manage" /\ c.phase = "served" /\ c # None
  BY DEF Served, InFlight
<1>2. Fits(c) /\ c \in Records /\ TypeOK
  BY <1>1, ArraysAreLists DEF Base
<1>3. Addressed(c) /\ (c.ok => 1 \in DOMAIN c.data)
  BY <1>1, <1>2 DEF Fits
<1>4. Place(c) \in DOMAIN c.list.rows /\ Pointed(c) = c.list.rows[Place(c)]
  BY <1>3 DEF Addressed, Pointed
<1>5. Pointed(c) \in Refs(list, calls)
  <2>1. Pointed(c) \in {c.list.rows[k] : k \in DOMAIN c.list.rows}
    BY <1>4
  <2>2. s \in {t \in Slots : calls[t] # None}
    BY <1>1
  <2> QED
    BY <2>1, <2>2 DEF Refs
<1>6. Pointed(c) \in DOMAIN obj /\ obj[Pointed(c)] \in Objects
  BY <1>2, <1>5 DEF TypeOK
<1>7. c.ok => c.data[1].status \in 0..2
  <2>1. c.data \in Seq(Answers)
    BY <1>2 DEF Records
  <2>2. c.ok => c.data[1] \in Answers
    BY <1>3, <2>1, SeqIs
  <2> QED
    BY <2>2 DEF Answers
<1> QED
  BY <1>3, <1>4, <1>6, <1>7 DEF Addressed

(* The answer to an operation touches nothing but its row. *)
LEMMA AnswerSettles ==
  ASSUME Base, NEW s \in Slots, Served(s, "manage"), view \notin BerryViews, calls[s].id # 0,
         NEW l \in {list, Copied(calls[s])}, NEW o,
         NEW u, UiFits(u), u.searching => ui.searching, u.loading => ui.loading /\ view # "air/tokens",
         Settle(s, l, o, u, None, FALSE),
         \/ o = obj /\ ~(calls[s].ok /\ calls[s].act \in Changing)
         \/ Touches(calls[s], o)
  PROVE  Settles
<1>1. calls[s].act # "balances"
  <2>1. s \in InFlight /\ calls[s].op = "manage"
    BY DEF Served, InFlight
  <2> QED
    BY <2>1 DEF Base, Fits
<1>2. SettleSwitched(s, l, o, u, None, FALSE, switch)
  BY DEF Settle
<1> QED
  BY <1>1, <1>2 DEF Settles

(* What handlers make of the object of the row. *)
LEMMA ObjectIs ==
  ASSUME NEW o \in Objects
  PROVE  /\ o.gone \in BOOLEAN
         /\ LET n == [o EXCEPT !.gone = TRUE] IN n \in Objects /\ n.gone
         /\ \A x \in 0..2 : LET n == [o EXCEPT !.status = x]
                            IN  n \in Objects /\ n.gone = o.gone /\ n.status = x
         /\ LET n == [o EXCEPT !.measured = TRUE]
            IN  n \in Objects /\ n.gone = o.gone /\ n.status = o.status
BY DEF Objects

-----------------------------------------------------------------------------
(* Default.                                                                *)

LEMMA DTurns ==
  ASSUME Base, view \in DefaultViews, NEW p \in 1..D!Pages, D!TurnOrLoad(p)
  PROVE  Asks \/ Stands
<1> DEFINE n == CeilDiv(Len(list.rows), PAGE)
<1>1. D!Pages = n + (IF Len(list.rows) % PAGE = 0 THEN 1 ELSE 0)
  BY WordsD DEF D!Pages
<1>2. n \in Nat
  <2>1. Len(list.rows) + PAGE - 1 \in Nat /\ PAGE \in Nat \ {0}
    BY UiIs, TableAssumption
  <2> QED
    BY <2>1, Quotient DEF CeilDiv
<1> HIDE DEF n
<1>3. p \in Nat /\ p >= 1 /\ p - 1 \in Nat /\ First = 1
  <2>1. D!Pages \in Nat
    BY <1>1, <1>2
  <2> QED
    BY <2>1, ViewsApart DEF First
<1>4. CASE p = n + 1
  <2> DEFINE c == [Loading(p - 1) EXCEPT !.then = p]
  <2>1. Begin(c, ui)
    BY <1>4, WordsD, StepsD, Zenon DEF D!TurnOrLoad, n
  <2>2. Load(c)
    BY <1>3, LoadForms
  <2> HIDE DEF c
  <2> QED
    BY <2>1, <2>2, UiIs, LoadAsks
<1>5. CASE p # n + 1
  <2>1. Turn(p)
    BY <1>5, WordsD, StepsD, Zenon DEF D!TurnOrLoad, n
  <2> QED
    BY <1>3, <2>1, TurnStands
<1> QED
  BY <1>4, <1>5

(* The searches, orders and loads of default are calls that are made. *)
LEMMA DAsks ==
  ASSUME Base, view \in DefaultViews
  PROVE  /\ \A blank \in BOOLEAN, clear \in BOOLEAN : D!Search(blank, clear) => Asks
         /\ \A v \in {"all", "some"} : D!OrderBy(v) => Asks
         /\ \A from \in Nat : Begin(Loading(from), [ui EXCEPT !.loading = TRUE]) => Asks
<1>1. First = 1 /\ view \notin BerryViews
  BY ViewsApart DEF First
<1>2. ASSUME NEW blank \in BOOLEAN, NEW clear \in BOOLEAN, D!Search(blank, clear)
      PROVE  Asks
  <2>1. CASE blank
    <3> DEFINE c == [Loading(0) EXCEPT !.then = 1, !.clear = clear]
    <3>1. Begin(c, ui)
      BY <1>2, <2>1, WordsD, StepsD, Zenon DEF D!Search
    <3>2. Load(c)
      <4>1. Load([Loading(0) EXCEPT !.then = 1])
        <5>1. Load(Loading(0)) /\ 1 \in Nat /\ 1 >= First
          BY <1>1, LoadForms
        <5> QED
          BY <5>1, LoadForms
      <4> QED
        BY <4>1, LoadForms
    <3> HIDE DEF c
    <3> QED
      BY <3>1, <3>2, UiIs, LoadAsks
  <2>2. CASE ~blank
    <3>1. Begin(Finding, [ui EXCEPT !.searching = TRUE])
      BY <1>2, <2>2, WordsD, StepsD, Zenon DEF D!Search
    <3> QED
      BY <3>1, FindAsks
  <2> QED
    BY <2>1, <2>2
<1>3. ASSUME NEW v \in {"all", "some"}, D!OrderBy(v)
      PROVE  Asks
  <2> DEFINE c == [Loading(0) EXCEPT !.base = v]
             u == [ui EXCEPT !.order = v, !.page = 1]
  <2>1. Begin(c, u)
    BY <1>3, WordsD, StepsD, Zenon DEF D!OrderBy
  <2>2. Load(c)
    BY LoadForms
  <2>3. UiFits(u) /\ u.searching = ui.searching
    <3>1. ui \in States
      BY UiIs DEF UiFits
    <3>2. u \in States /\ u.page = 1 /\ u.size = ui.size /\ u.searching = ui.searching
            /\ u.loading = ui.loading
      BY <3>1 DEF States
    <3> HIDE DEF u
    <3> QED
      BY <1>1, <3>2, UiIs DEF UiFits
  <2> HIDE DEF c, u
  <2> QED
    BY <2>1, <2>2, <2>3, LoadAsks
<1>4. ASSUME NEW from \in Nat, Begin(Loading(from), [ui EXCEPT !.loading = TRUE])
      PROVE  Asks
  <2> DEFINE u == [ui EXCEPT !.loading = TRUE]
  <2>1. UiFits(u) /\ u.searching = ui.searching
    BY <1>1, UiIs DEF UiFits, States
  <2> HIDE DEF u
  <2>2. Begin(Loading(from), u)
    BY <1>4 DEF u
  <2> QED
    BY <2>1, <2>2, LoadForms, LoadAsks
<1> QED
  BY <1>2, <1>3, <1>4

(* Sorting in default sorts the list. *)
LEMMA DSorts ==
  ASSUME D!Sort
  PROVE  Sorts
BY WordsD, StepsD, Zenon DEF D!Sort, Sorts

(* The answer to an operation on a row. *)
LEMMA DSettles ==
  ASSUME Base, view \in DefaultViews, NEW s \in Slots, Served(s, "manage"), calls[s].act # "purge",
         \/ D!AtRealIdx(s, D!Managed)
         \/ D!AtRealIdx(s, D!Measured) /\ calls[s].act = "balance"
         \/ calls[s].act = "test" /\ Settle(s, Copied(calls[s]),
              [obj EXCEPT ![calls[s].list.rows[D!RealIdx(calls[s])]].measured = TRUE], ui, None, FALSE)
  PROVE  Settles
<1> DEFINE c == calls[s]
           r == Pointed(c)
<1>1. view \notin BerryViews /\ view \notin AirViews
  BY ViewsApart
<1>2. Fits(c) /\ c \in Records /\ c.op = "manage"
  <2>1. s \in InFlight /\ c.op = "manage"
    BY DEF Served, InFlight
  <2> QED
    BY <2>1, ArraysAreLists DEF Base
<1>3. c.id # 0 /\ c.size = PAGE /\ c.act \notin {"purge", "balances"}
  BY <1>1, <1>2 DEF Fits
<1>4. /\ r \in DOMAIN obj /\ obj[r] \in Objects /\ c.ok \in BOOLEAN
      /\ c.ok => c.data[1].status \in 0..2
  BY <1>1, <1>2, <1>3, PointedIs DEF Records
<1>5. c.list.rows[D!RealIdx(c)] = r
  BY <1>3 DEF D!RealIdx, Pointed, Place
<1>6. UiFits(ui) /\ view # "air/tokens"
  BY <1>1, UiIs DEF AirViews
<1>7. /\ [obj[r] EXCEPT !.gone = TRUE] \in Objects /\ [obj[r] EXCEPT !.gone = TRUE].gone
      /\ [obj[r] EXCEPT !.measured = TRUE] \in Objects
      /\ [obj[r] EXCEPT !.measured = TRUE].gone = obj[r].gone
      /\ [obj[r] EXCEPT !.measured = TRUE].status = obj[r].status
  BY <1>4, ObjectIs
<1>13. ASSUME c.ok
       PROVE  /\ [obj[r] EXCEPT !.status = c.data[1].status] \in Objects
              /\ [obj[r] EXCEPT !.status = c.data[1].status].gone = obj[r].gone
              /\ [obj[r] EXCEPT !.status = c.data[1].status].status = c.data[1].status
  <2> DEFINE x == c.data[1].status
             w == obj[r]
  <2>1. x \in 0..2 /\ w \in Objects
    BY <1>4, <1>13
  <2> HIDE DEF x, w
  <2>2. /\ [w EXCEPT !.status = x] \in Objects /\ [w EXCEPT !.status = x].gone = w.gone
        /\ [w EXCEPT !.status = x].status = x
    BY <2>1 DEF Objects
  <2> QED
    BY <2>2 DEF x, w
<1>8. CASE D!AtRealIdx(s, D!Managed) /\ ~c.ok
  <2>1. Settle(s, list, obj, ui, None, FALSE)
    BY <1>8, WordsD, StepsD, Zenon DEF D!AtRealIdx
  <2> QED
    BY <1>1, <1>3, <1>6, <1>8, <2>1, AnswerSettles
<1>9. CASE D!AtRealIdx(s, D!Measured) /\ ~c.ok
  <2>1. Settle(s, list, obj, ui, None, FALSE)
    BY <1>9, WordsD, StepsD, Zenon DEF D!AtRealIdx
  <2> QED
    BY <1>1, <1>3, <1>6, <1>9, <2>1, AnswerSettles
<1>10. CASE D!AtRealIdx(s, D!Managed) /\ c.ok
  <2> DEFINE new == IF c.act = "delete" THEN [obj[r] EXCEPT !.gone = TRUE]
                                        ELSE [obj[r] EXCEPT !.status = c.data[1].status]
             o == [obj EXCEPT ![r] = new]
  <2>1. Settle(s, Copied(c), o, ui, None, FALSE)
    BY <1>5, <1>10, WordsD, StepsD, Zenon DEF D!AtRealIdx, D!Managed
  <2>2. new \in Objects /\ (obj[r].gone => new.gone)
        /\ (new.gone \/ (c.ok /\ new.status = c.data[1].status))
    <3>1. CASE c.act = "delete"
      <4>1. new = [obj[r] EXCEPT !.gone = TRUE]
        BY <3>1
      <4>2. new \in Objects /\ new.gone
        BY <1>7, <4>1, Zenon
      <4> HIDE DEF new
      <4> QED
        BY <4>2, Zenon
    <3>2. CASE c.act # "delete"
      <4>1. new = [obj[r] EXCEPT !.status = c.data[1].status]
        BY <3>2
      <4> HIDE DEF new
      <4> QED
        BY <1>10, <1>13, <4>1
    <3> QED
      BY <3>1, <3>2
  <2> HIDE DEF new
  <2>3. Touches(c, o)
    BY <2>2, Zenon DEF Touches
  <2> HIDE DEF o
  <2> QED
    BY <1>1, <1>3, <1>6, <2>1, <2>3, AnswerSettles
<1>11. CASE c.act \in {"balance", "test"}
         /\ Settle(s, Copied(c), [obj EXCEPT ![r].measured = TRUE], ui, None, FALSE)
  <2> DEFINE new == [obj[r] EXCEPT !.measured = TRUE]
             o == [obj EXCEPT ![r] = new]
  <2>1. Settle(s, Copied(c), o, ui, None, FALSE)
    BY <1>11, Zenon
  <2>2. new \in Objects /\ (obj[r].gone => new.gone) /\ new.status = obj[r].status
    BY <1>7
  <2>3. c.act \notin Changing
    BY <1>11 DEF Changing
  <2> HIDE DEF new
  <2>4. Touches(c, o)
    BY <2>2, <2>3, Zenon DEF Touches
  <2> HIDE DEF o
  <2> QED
    BY <1>1, <1>3, <1>6, <2>1, <2>4, AnswerSettles
<1>12. CASE D!AtRealIdx(s, D!Measured) /\ c.ok /\ c.act = "balance"
  <2>1. Settle(s, Copied(c), [obj EXCEPT ![r] = [obj[r] EXCEPT !.measured = TRUE]], ui, None, FALSE)
    BY <1>5, <1>12, WordsD, StepsD, Zenon DEF D!AtRealIdx, D!Measured
  <2>2. Settle(s, Copied(c), [obj EXCEPT ![r].measured = TRUE], ui, None, FALSE)
    BY <2>1, Zenon
  <2> QED
    BY <1>11, <1>12, <2>2
<1> QED
  BY <1>5, <1>8, <1>9, <1>10, <1>11, <1>12


(* Each step of default is one of these. *)
LEMMA DefaultWorks ==
  ASSUME Base, D!DefaultNext
  PROVE  Works
<1> DEFINE A1 == \E s \in Slots : \E count \in Nat :
             \/ LoadAnswered(s, "loading",
                  IF calls[s].from = 0 THEN Replaced(calls[s]) ELSE Spliced(calls[s]), count)
             \/ LoadAnswered(s, "loading",
                  IF calls[s].from = 0 THEN Replaced(calls[s]) ELSE Pushed(calls[s]), count)
           A2 == \E s \in Slots : \E count \in Nat : FoundAnswered(s, 1, count)
           A3 == \E s \in Slots : /\ Served(s, "manage") /\ calls[s].act # "purge"
                    /\ \/ D!AtRealIdx(s, D!Managed)
                       \/ D!AtRealIdx(s, D!Measured) /\ calls[s].act = "balance"
                       \/ calls[s].act = "test" /\ Settle(s, Copied(calls[s]),
                            [obj EXCEPT ![calls[s].list.rows[D!RealIdx(calls[s])]].measured = TRUE],
                            ui, None, FALSE)
           A4 == \E s \in Slots : D!ChannelsPurged(s)
           A5 == \E p \in 1..D!Pages : D!TurnOrLoad(p)
           A6 == \E k : \E act \in Actions \ {"purge", "balances"} : RowAsks(k, act)
           A7 == \E blank \in BOOLEAN, clear \in BOOLEAN : D!Search(blank, clear)
           A8 == \E v \in {"all", "some"} : D!OrderBy(v)
           A9 == Begin(Loading(ui.page - 1), [ui EXCEPT !.loading = TRUE])
           A10 == D!Sort
           A11 == view \in ChannelViews /\ Begin(Call("manage", 0, "purge", 0, "all"), ui)
           A12 == \E v \in {"all", "some"} : D!LogsType(v)
           A13 == D!RedemptionsRefresh \/ D!LogsRefresh
           Any == A1 \/ A2 \/ A3 \/ A4 \/ A5 \/ A6 \/ A7 \/ A8 \/ A9 \/ A10 \/ A11 \/ A12 \/ A13
<1>1. view \in DefaultViews /\ view \notin BerryViews /\ view \notin AirViews
  <2>1. view \in DefaultViews
    BY DEF D!DefaultNext, D!Channels, D!Tokens, D!Users, D!Redemptions, D!Logs, DefaultViews
  <2> QED
    BY <2>1, ViewsApart
<1>2. First = 1 /\ Flag = "loading" /\ view # "air/tokens"
  BY <1>1 DEF First, Flag, AirViews
<1>3. ui.count \in Nat
  BY UiIs
<1>4. ASSUME NEW s \in Slots, Served(s, "manage"), view \notin ChannelViews
      PROVE  calls[s].act # "purge"
  <2>1. s \in InFlight
    BY <1>4 DEF Served, InFlight
  <2> QED
    BY <1>4, <2>1 DEF Base, Fits, Served
<1>5. ASSUME D!Channels PROVE Any
  <2>1. ASSUME NEW s \in Slots, D!ChannelsLoaded(s) PROVE A1
    BY <1>3, <2>1, WordsD, StepsD, Zenon DEF D!ChannelsLoaded
  <2>2. ASSUME NEW s \in Slots, D!ChannelsManaged(s) PROVE A3
    <3>1. Served(s, "manage") /\ calls[s].act # "purge" /\ D!AtRealIdx(s, D!Managed)
      BY <2>2, StepsD DEF D!ChannelsManaged
    <3> QED
      BY <3>1
  <2>3. ASSUME NEW s \in Slots, D!ChannelsTested(s) PROVE A3
    BY <2>3, WordsD, StepsD, Zenon DEF D!ChannelsTested
  <2>4. ASSUME NEW s \in Slots, D!ChannelsBalanced(s) PROVE A3
    BY <2>4, StepsD DEF D!ChannelsBalanced
  <2>5. ASSUME NEW s \in Slots, D!ChannelsPurged(s) PROVE A4
    BY <2>5
  <2>6. ASSUME NEW s \in Slots, D!ChannelsFound(s) PROVE A2
    BY <1>3, <2>6, StepsD, Zenon DEF D!ChannelsFound
  <2>7. ASSUME NEW p \in 1..D!Pages, D!ChannelsPagination(p) PROVE A5
    BY <2>7 DEF D!ChannelsPagination
  <2>8. ASSUME NEW k, D!ChannelsRow(k) PROVE A6
    <3>1. \E a \in {"test", "balance", "priority", "delete", "enable", "disable"} : RowAsks(k, a)
      BY <2>8, WordsD, StepsD DEF D!ChannelsRow, D!Row, D!Toggle, RowAsks
    <3> QED
      BY <3>1 DEF Actions
  <2>9. ASSUME NEW blank \in BOOLEAN, D!ChannelsSearch(blank) PROVE A7
    BY <2>9 DEF D!ChannelsSearch
  <2>10. ASSUME D!ChannelsRefresh PROVE A9
    BY <2>10, WordsD, StepsD, Zenon DEF D!ChannelsRefresh
  <2>11. ASSUME D!ChannelsDeleteDisabled PROVE A11
    <3>1. Begin(Call("manage", 0, "purge", 0, "all"), ui)
      BY <2>11, WordsD, StepsD, Zenon DEF D!ChannelsDeleteDisabled
    <3>2. view \in ChannelViews
      BY <1>5 DEF D!Channels, ChannelViews
    <3> QED
      BY <3>1, <3>2
  <2>12. ASSUME D!ChannelsSort PROVE A10
    BY <2>12 DEF D!ChannelsSort
  <2> HIDE DEF A1, A2, A3, A4, A5, A6, A7, A8, A9, A10, A11, A12, A13
  <2> QED
    BY <1>5, <2>1, <2>2, <2>3, <2>4, <2>5, <2>6, <2>7, <2>8, <2>9, <2>10, <2>11, <2>12, Zenon
       DEF D!Channels, Any
<1>6. ASSUME D!Tokens PROVE Any
  <2>0. view \notin ChannelViews
    BY <1>6 DEF D!Tokens, ChannelViews
  <2>1. ASSUME NEW s \in Slots, D!TokensLoaded(s) PROVE A1
    BY <1>3, <2>1, WordsD, StepsD, Zenon DEF D!TokensLoaded
  <2>2. ASSUME NEW s \in Slots, D!TokensManaged(s) PROVE A3
    <3>1. Served(s, "manage") /\ calls[s].act # "purge" /\ D!AtRealIdx(s, D!Managed)
      BY <1>4, <2>0, <2>2, StepsD DEF D!TokensManaged
    <3> QED
      BY <3>1
  <2>3. ASSUME NEW s \in Slots, D!TokensFound(s) PROVE A2
    BY <1>3, <2>3, StepsD, Zenon DEF D!TokensFound
  <2>4. ASSUME NEW p \in 1..D!Pages, D!TokensPagination(p) PROVE A5
    BY <2>4 DEF D!TokensPagination
  <2>5. ASSUME NEW k, D!TokensRow(k) PROVE A6
    <3>1. \E a \in {"delete", "enable", "disable"} : RowAsks(k, a)
      BY <2>5, WordsD, StepsD DEF D!TokensRow, D!Row, D!Toggle, RowAsks
    <3> QED
      BY <3>1 DEF Actions
  <2>6. ASSUME NEW blank \in BOOLEAN, D!TokensSearch(blank) PROVE A7
    BY <2>6 DEF D!TokensSearch
  <2>7. ASSUME NEW v \in {"all", "some"}, D!TokensOrderBy(v) PROVE A8
    BY <2>7 DEF D!TokensOrderBy
  <2>8. ASSUME D!TokensRefresh PROVE A9
    BY <2>8, WordsD, StepsD, Zenon DEF D!TokensRefresh
  <2>9. ASSUME D!TokensSort PROVE A10
    BY <2>9 DEF D!TokensSort
  <2> HIDE DEF A1, A2, A3, A4, A5, A6, A7, A8, A9, A10, A11, A12, A13
  <2> QED
    BY <1>6, <2>1, <2>2, <2>3, <2>4, <2>5, <2>6, <2>7, <2>8, <2>9, Zenon
       DEF D!Tokens, Any
<1>7. ASSUME D!Users PROVE Any
  <2>0. view \notin ChannelViews
    BY <1>7 DEF D!Users, ChannelViews
  <2>1. ASSUME NEW s \in Slots, D!UsersLoaded(s) PROVE A1
    BY <1>3, <2>1, WordsD, StepsD, Zenon DEF D!UsersLoaded
  <2>2. ASSUME NEW s \in Slots, D!UsersManaged(s) PROVE A3
    <3>1. Served(s, "manage") /\ calls[s].act # "purge" /\ D!AtRealIdx(s, D!Managed)
      BY <1>4, <2>0, <2>2, StepsD DEF D!UsersManaged
    <3> QED
      BY <3>1
  <2>3. ASSUME NEW s \in Slots, D!UsersFound(s) PROVE A2
    BY <1>3, <2>3, StepsD, Zenon DEF D!UsersFound
  <2>4. ASSUME NEW p \in 1..D!Pages, D!UsersPagination(p) PROVE A5
    BY <2>4 DEF D!UsersPagination
  <2>5. ASSUME NEW k, D!UsersRow(k) PROVE A6
    <3>1. \E a \in {"promote", "delete", "enable", "disable"} : RowAsks(k, a)
      BY <2>5, WordsD, StepsD DEF D!UsersRow, D!Row, D!Toggle, RowAsks
    <3> QED
      BY <3>1 DEF Actions
  <2>6. ASSUME NEW blank \in BOOLEAN, D!UsersSearch(blank) PROVE A7
    BY <2>6 DEF D!UsersSearch
  <2>7. ASSUME NEW v \in {"all", "some"}, D!UsersOrderBy(v) PROVE A8
    BY <2>7 DEF D!UsersOrderBy
  <2>8. ASSUME D!UsersSort PROVE A10
    BY <2>8 DEF D!UsersSort
  <2> HIDE DEF A1, A2, A3, A4, A5, A6, A7, A8, A9, A10, A11, A12, A13
  <2> QED
    BY <1>7, <2>1, <2>2, <2>3, <2>4, <2>5, <2>6, <2>7, <2>8, Zenon
       DEF D!Users, Any
<1>8. ASSUME D!Redemptions PROVE Any
  <2>0. view \notin ChannelViews
    BY <1>8 DEF D!Redemptions, ChannelViews
  <2>1. ASSUME NEW s \in Slots, D!RedemptionsLoaded(s) PROVE A1
    BY <1>3, <2>1, WordsD, StepsD, Zenon DEF D!RedemptionsLoaded
  <2>2. ASSUME NEW s \in Slots, D!RedemptionsManaged(s) PROVE A3
    <3>1. Served(s, "manage") /\ calls[s].act # "purge" /\ D!AtRealIdx(s, D!Managed)
      BY <1>4, <2>0, <2>2, StepsD DEF D!RedemptionsManaged
    <3> QED
      BY <3>1
  <2>3. ASSUME NEW s \in Slots, D!RedemptionsFound(s) PROVE A2
    BY <1>3, <2>3, StepsD, Zenon DEF D!RedemptionsFound
  <2>4. ASSUME NEW p \in 1..D!Pages, D!RedemptionsPagination(p) PROVE A5
    BY <2>4 DEF D!RedemptionsPagination
  <2>5. ASSUME NEW k, D!RedemptionsRow(k) PROVE A6
    <3>1. \E a \in {"delete", "enable", "disable"} : RowAsks(k, a)
      BY <2>5, WordsD, StepsD DEF D!RedemptionsRow, D!Row, D!Toggle, RowAsks
    <3> QED
      BY <3>1 DEF Actions
  <2>6. ASSUME NEW blank \in BOOLEAN, D!RedemptionsSearch(blank) PROVE A7
    BY <2>6 DEF D!RedemptionsSearch
  <2>7. ASSUME D!RedemptionsRefresh PROVE A13
    BY <2>7
  <2>8. ASSUME D!RedemptionsSort PROVE A10
    BY <2>8 DEF D!RedemptionsSort
  <2> HIDE DEF A1, A2, A3, A4, A5, A6, A7, A8, A9, A10, A11, A12, A13
  <2> QED
    BY <1>8, <2>1, <2>2, <2>3, <2>4, <2>5, <2>6, <2>7, <2>8, Zenon
       DEF D!Redemptions, Any
<1>9. ASSUME D!Logs PROVE Any
  <2>1. ASSUME NEW s \in Slots, D!LogsLoaded(s) PROVE A1
    BY <1>3, <2>1, WordsD, StepsD, Zenon DEF D!LogsLoaded
  <2>2. ASSUME NEW p \in 1..D!Pages, D!LogsPagination(p) PROVE A5
    BY <2>2 DEF D!LogsPagination
  <2>3. ASSUME NEW v \in {"all", "some"}, D!LogsType(v) PROVE A12
    BY <2>3
  <2>4. ASSUME D!LogsRefresh PROVE A13
    BY <2>4
  <2>5. ASSUME D!LogsSort PROVE A10
    BY <2>5 DEF D!LogsSort
  <2> HIDE DEF A1, A2, A3, A4, A5, A6, A7, A8, A9, A10, A11, A12, A13
  <2> QED
    BY <1>9, <2>1, <2>2, <2>3, <2>4, <2>5, Zenon
       DEF D!Logs, Any
<1>10. Any
  BY <1>5, <1>6, <1>7, <1>8, <1>9, Zenon DEF D!DefaultNext
<1>11. CASE A1
  BY <1>1, <1>2, <1>11, Zenon DEF Loads, Works
<1>12. CASE A2
  BY <1>2, <1>12, Zenon DEF Finds, Works
<1>13. CASE A3
  <2>1. Settles
    BY <1>1, <1>13, DSettles
  <2> QED
    BY <2>1 DEF Works
<1>14. CASE A4
  <2>1. PICK s \in Slots : D!ChannelsPurged(s)
    BY <1>14
  <2> DEFINE c == calls[s]
  <2>2. /\ Served(s, "manage") /\ c.act = "purge"
        /\ IF c.ok
           THEN Settle(s, list, obj, [ui EXCEPT !.loading = TRUE], Reloading(c, c.page - 1), TRUE)
           ELSE Settle(s, list, obj, ui, None, FALSE)
    BY <2>1, WordsD, StepsD, Zenon DEF D!ChannelsPurged
  <2>3. c.page - 1 \in Nat
    <3>1. s \in InFlight /\ c.op = "manage"
      BY <2>2 DEF Served, InFlight
    <3>2. c \in Records /\ Fits(c)
      BY <3>1, ArraysAreLists DEF Base
    <3> QED
      BY <1>2, <3>1, <3>2 DEF Fits, Records
  <2>4. CASE c.ok
    <3>1. Settle(s, list, obj, [ui EXCEPT !.loading = TRUE], Reloading(c, c.page - 1), TRUE)
      BY <2>2, <2>4
    <3>2. Reloads
      BY <1>2, <2>2, <2>3, <3>1 DEF Reloads
    <3> QED
      BY <3>2 DEF Works
  <2>5. CASE ~c.ok
    <3>1. SettleSwitched(s, list, obj, ui, None, FALSE, switch)
      BY <2>2, <2>5 DEF Settle
    <3>2. UiFits(ui)
      BY UiIs
    <3>3. Settles
      BY <1>1, <1>2, <2>2, <2>5, <3>1, <3>2 DEF Settles
    <3> QED
      BY <3>3 DEF Works
  <2> QED
    BY <2>4, <2>5
<1>15. CASE A5
  BY <1>1, <1>15, DTurns DEF Works
<1>16. CASE A6
  <2>4. PICK k : \E act \in Actions \ {"purge", "balances"} : RowAsks(k, act)
    BY <1>16
  <2>1. PICK act \in Actions \ {"purge", "balances"} : RowAsks(k, act)
    BY <2>4
  <2>2. UiFits(ui)
    BY UiIs
  <2>3. Asks
    BY <1>1, <2>1, <2>2, RowIsAsked DEF RowAsks
  <2> QED
    BY <2>3 DEF Works
<1>17. CASE A7
  BY <1>1, <1>17, DAsks DEF Works
<1>18. CASE A8
  BY <1>1, <1>18, DAsks DEF Works
<1>19. CASE A9
  <2>1. ui.page - 1 \in Nat
    BY <1>1, UiIs
  <2> QED
    BY <1>1, <1>19, <2>1, DAsks DEF Works
<1>20. CASE A10
  BY <1>20, DSorts DEF Works
<1>21. CASE A11
  BY <1>21, PurgeAsks DEF Works
<1>22. CASE A12
  <2>1. PICK v \in {"all", "some"} : D!LogsType(v)
    BY <1>22
  <2> DEFINE c == [Loading(0) EXCEPT !.base = v]
             u == [ui EXCEPT !.order = v, !.loading = TRUE, !.page = 1]
  <2>2. Begin(c, u)
    BY <2>1, WordsD, StepsD, Zenon DEF D!LogsType
  <2>3. Load(c)
    BY LoadForms
  <2>4. UiFits(u) /\ u.searching = ui.searching
    <3>1. ui \in States
      BY UiIs DEF UiFits
    <3>2. u \in States /\ u.page = 1 /\ u.size = ui.size /\ u.searching = ui.searching
      BY <3>1 DEF States
    <3> HIDE DEF u
    <3> QED
      BY <1>1, <1>2, <3>2, UiIs DEF UiFits
  <2> HIDE DEF c, u
  <2>5. Asks
    BY <2>2, <2>3, <2>4, LoadAsks
  <2> QED
    BY <2>5 DEF Works
<1>23. CASE D!RedemptionsRefresh
  <2> DEFINE c == [Loading(0) EXCEPT !.then = 1]
             u == [ui EXCEPT !.loading = TRUE]
  <2>1. Begin(c, u)
    BY <1>23, WordsD, StepsD, Zenon DEF D!RedemptionsRefresh
  <2>2. Load(c)
    <3>1. Load(Loading(0)) /\ 1 \in Nat /\ 1 >= First
      BY <1>2, LoadForms
    <3> QED
      BY <3>1, LoadForms
  <2>3. UiFits(u) /\ u.searching = ui.searching
    BY <1>1, UiIs DEF UiFits, States
  <2> HIDE DEF c, u
  <2>4. Asks
    BY <2>1, <2>2, <2>3, LoadAsks
  <2> QED
    BY <2>4 DEF Works
<1>24. CASE D!LogsRefresh
  <2> DEFINE u == [ui EXCEPT !.loading = TRUE, !.page = 1]
  <2>1. Begin(Loading(0), u)
    BY <1>24, WordsD, StepsD, Zenon DEF D!LogsRefresh
  <2>2. Load(Loading(0))
    BY LoadForms
  <2>3. UiFits(u) /\ u.searching = ui.searching
    <3>1. ui \in States
      BY UiIs DEF UiFits
    <3>2. u \in States /\ u.page = 1 /\ u.size = ui.size /\ u.searching = ui.searching
      BY <3>1 DEF States
    <3> HIDE DEF u
    <3> QED
      BY <1>1, <1>2, <3>2, UiIs DEF UiFits
  <2> HIDE DEF u
  <2>4. Asks
    BY <2>1, <2>2, <2>3, LoadAsks
  <2> QED
    BY <2>4 DEF Works
<1> HIDE DEF A1, A2, A3, A4, A5, A6, A7, A8, A9, A10, A11, A12
<1> QED
  BY <1>10, <1>11, <1>12, <1>13, <1>14, <1>15, <1>16, <1>17, <1>18, <1>19, <1>20, <1>21, <1>22,
     <1>23, <1>24


-----------------------------------------------------------------------------
(* Air.                                                                    *)

(* What handlers set of the state beside the list. *)
LEMMA UiForms ==
  ASSUME Base, NEW u, UiFits(u)
  PROVE  /\ view \notin BerryViews =>
              LET n == [u EXCEPT !.loading = TRUE] IN UiFits(n) /\ n.searching = u.searching
         /\ \A x \in BOOLEAN : 
              LET n == [u EXCEPT !.searching = x]
              IN  UiFits(n) /\ n.searching = x /\ n.loading = u.loading
         /\ LET n == [u EXCEPT !.loading = FALSE]
            IN  UiFits(n) /\ n.searching = u.searching /\ ~n.loading
         /\ \A p \in Nat : p >= First =>
              LET n == [u EXCEPT !.page = p]
              IN  UiFits(n) /\ n.searching = u.searching /\ n.loading = u.loading
         /\ \A v \in {"all", "some"} :
              LET n == [u EXCEPT !.order = v]
              IN  UiFits(n) /\ n.searching = u.searching /\ n.loading = u.loading
         /\ \A x \in {PAGE, 2 * PAGE} : view \in AirViews =>
              LET n == [u EXCEPT !.size = x]
              IN  UiFits(n) /\ n.searching = u.searching /\ n.loading = u.loading
         /\ \A x \in Nat :
              LET n == [u EXCEPT !.count = x]
              IN  UiFits(n) /\ n.searching = u.searching /\ n.loading = u.loading
<1>1. u \in States
  BY DEF UiFits
<1>2. view \notin BerryViews =>
        LET n == [u EXCEPT !.loading = TRUE] IN UiFits(n) /\ n.searching = u.searching
  BY <1>1 DEF UiFits, States
<1>3. \A x \in BOOLEAN : 
        LET n == [u EXCEPT !.searching = x] IN UiFits(n) /\ n.searching = x /\ n.loading = u.loading
  BY <1>1 DEF UiFits, States
<1>4. LET n == [u EXCEPT !.loading = FALSE]
      IN  UiFits(n) /\ n.searching = u.searching /\ ~n.loading
  BY <1>1 DEF UiFits, States
<1>5. \A p \in Nat : p >= First =>
        LET n == [u EXCEPT !.page = p]
        IN  UiFits(n) /\ n.searching = u.searching /\ n.loading = u.loading
  BY <1>1 DEF UiFits, States
<1>6. \A v \in {"all", "some"} :
        LET n == [u EXCEPT !.order = v]
        IN  UiFits(n) /\ n.searching = u.searching /\ n.loading = u.loading
  BY <1>1 DEF UiFits, States
<1>7. \A x \in {PAGE, 2 * PAGE} : view \in AirViews =>
        LET n == [u EXCEPT !.size = x]
        IN  UiFits(n) /\ n.searching = u.searching /\ n.loading = u.loading
  BY <1>1, ViewsApart DEF UiFits, States
<1>8. \A x \in Nat :
        LET n == [u EXCEPT !.count = x]
        IN  UiFits(n) /\ n.searching = u.searching /\ n.loading = u.loading
  BY <1>1 DEF UiFits, States
<1> QED
  BY <1>2, <1>3, <1>4, <1>5, <1>6, <1>7, <1>8

(* The counts that air computes from its lists are numbers. *)
LEMMA ACounts ==
  ASSUME Base, NEW s \in InFlight
  PROVE  \A l \in {Replaced(calls[s]), Spliced(calls[s]), Pushed(calls[s]),
                Cut(calls[s]), Copied(calls[s]), list} :
           /\ Len(l.rows) \in Nat /\ Len(l.rows) + PAGE \in Nat
           /\ A!Padded(l, calls[s].size) \in Nat /\ A!OneMore(l, calls[s].page) \in Nat
<1>1. calls[s].size \in Nat /\ calls[s].page \in Nat /\ PAGE \in Nat
  BY ArraysAreLists, TableAssumption DEF Base, Records
<1> SUFFICES ASSUME NEW l \in {Replaced(calls[s]), Spliced(calls[s]), Pushed(calls[s]),
                              Cut(calls[s]), Copied(calls[s]), list}
             PROVE  /\ Len(l.rows) \in Nat /\ Len(l.rows) + PAGE \in Nat
                    /\ A!Padded(l, calls[s].size) \in Nat /\ A!OneMore(l, calls[s].page) \in Nat
  OBVIOUS
<1>2. l \in Lists
  BY PlacedAreLists, CutIs, UiIs
<1>3. l.rows \in Seq(Pairs)
  BY <1>2 DEF Lists
<1>4. Len(l.rows) \in Nat
  BY <1>3, SeqIs
<1> QED
  BY <1>1, <1>4 DEF A!Padded, A!OneMore

(* Turning a page in air loads it or stays with the list. *)
LEMMA ATurns ==
  ASSUME Base, view \in AirViews, NEW p \in 1..A!Pages, NEW base \in {"all", "some"},
         NEW flag \in BOOLEAN, A!TurnAndLoad(p, base, flag)
  PROVE  Asks \/ Stands
<1> DEFINE n == CeilDiv(Len(list.rows), ui.size)
<1>1. A!Pages = CeilDiv(ui.count, ui.size)
  BY WordsA DEF A!Pages
<1>2. n \in Nat /\ A!Pages \in Nat
  <2>1. /\ Len(list.rows) + ui.size - 1 \in Nat /\ ui.size \in Nat \ {0}
        /\ ui.count + ui.size - 1 \in Nat
    BY UiIs, TableAssumption
  <2> QED
    BY <1>1, <2>1, Quotient DEF CeilDiv
<1> HIDE DEF n
<1>3. p \in Nat /\ p >= 1 /\ p - 1 \in Nat /\ First = 1
  BY <1>2, ViewsApart DEF First
<1>4. CASE p = n + 1
  <2> DEFINE c == [Loading(p - 1) EXCEPT !.base = base, !.page = ui.page]
             u == [ui EXCEPT !.page = p, !.loading = flag \/ ui.loading]
  <2>1. Begin(c, u)
    <3>1. ui \in States
      BY UiIs DEF UiFits
    <3>2. [ui EXCEPT !.page = p].loading = ui.loading
      BY <3>1 DEF States
    <3> QED
      BY <1>4, <3>2, WordsA, StepsA, Zenon DEF A!TurnAndLoad, n
  <2>2. Load(c)
    <3>1. Load(Loading(p - 1)) /\ ui.page \in Nat
      BY <1>3, LoadForms, UiIs
    <3>2. Load([Loading(p - 1) EXCEPT !.base = base])
      BY <3>1, LoadForms
    <3> QED
      BY <3>1, <3>2, LoadForms
  <2>3. UiFits(u) /\ u.searching = ui.searching
    <3>1. ui \in States
      BY UiIs DEF UiFits
    <3>2. u \in States /\ u.page = p /\ u.size = ui.size /\ u.searching = ui.searching
      BY <1>3, <3>1 DEF States
    <3> HIDE DEF u
    <3> QED
      BY <1>3, <3>2, UiIs, ViewsApart DEF UiFits
  <2> HIDE DEF c, u
  <2> QED
    BY <2>1, <2>2, <2>3, LoadAsks
<1>5. CASE p # n + 1
  <2>1. Turn(p)
    BY <1>5, WordsA, StepsA, Zenon DEF A!TurnAndLoad, n
  <2> QED
    BY <1>3, <2>1, TurnStands
<1> QED
  BY <1>4, <1>5

(* The answer to an operation on a row. *)
LEMMA ASettles ==
  ASSUME Base, view \in AirViews, NEW s \in Slots, Served(s, "manage"), calls[s].act # "purge",
         NEW u, UiFits(u), u.searching => ui.searching, u.loading => ui.loading /\ view # "air/tokens",
         Settle(s, A!ManagedList(calls[s]), A!ManagedObj(calls[s]), u, None, FALSE)
  PROVE  Settles \/ Cuts
<1> DEFINE c == calls[s]
           r == Pointed(c)
<1>1. view \notin BerryViews
  BY ViewsApart
<1>2. Fits(c) /\ c \in Records /\ c.op = "manage"
  <2>1. s \in InFlight /\ c.op = "manage"
    BY DEF Served, InFlight
  <2> QED
    BY <2>1, ArraysAreLists DEF Base
<1>3. c.id # 0
  BY <1>1, <1>2 DEF Fits
<1>4. /\ r \in DOMAIN obj /\ obj[r] \in Objects /\ c.ok \in BOOLEAN
      /\ c.ok => c.data[1].status \in 0..2
  BY <1>1, <1>2, <1>3, PointedIs DEF Records
<1>5. A!Record(c) = r
  BY DEF A!Record, Pointed, Place
<1>6. CASE c.act = "delete"
  <2>1. A!ManagedList(c) = Cut(c) /\ A!ManagedObj(c) = obj
    BY <1>6, WordsA, Zenon DEF A!ManagedList, A!ManagedObj, A!Removed, Cut
  <2>2. SettleSwitched(s, Cut(c), obj, u, None, FALSE, switch)
    BY <2>1 DEF Settle
  <2> QED
    BY <1>6, <2>2 DEF Cuts
<1>7. CASE c.act # "delete" /\ ~c.ok
  <2>1. A!ManagedList(c) = list /\ A!ManagedObj(c) = obj
    BY <1>7 DEF A!ManagedList, A!ManagedObj
  <2>2. Settle(s, list, obj, u, None, FALSE)
    BY <2>1
  <2> QED
    BY <1>1, <1>3, <1>7, <2>2, AnswerSettles
<1>8. CASE c.act # "delete" /\ c.ok
  <2> DEFINE x == c.data[1].status
             w == obj[r]
             new == [w EXCEPT !.status = x]
             o == [obj EXCEPT ![r] = new]
  <2>1. A!ManagedList(c) = Copied(c)
    BY <1>8, WordsA DEF A!ManagedList
  <2>2. A!ManagedObj(c) = o
    BY <1>5, <1>8, Zenon DEF A!ManagedObj
  <2>3. new \in Objects /\ new.gone = w.gone /\ new.status = x
    <3>1. x \in 0..2 /\ w \in Objects
      BY <1>4, <1>8
    <3> HIDE DEF x, w
    <3> QED
      BY <3>1 DEF Objects
  <2>4. Settle(s, Copied(c), o, u, None, FALSE)
    BY <2>1, <2>2
  <2> HIDE DEF new
  <2>5. Touches(c, o)
    BY <1>8, <2>3, Zenon DEF Touches
  <2> HIDE DEF o
  <2> QED
    BY <1>1, <1>3, <2>4, <2>5, AnswerSettles
<1> QED
  BY <1>6, <1>7, <1>8

(* The answer to a test or a balance in air ends its operation. *)
LEMMA AMeasures ==
  ASSUME Base, view = "air/channels", NEW s \in Slots, A!MeasuredIn(s)
  PROVE  Settles
<1> DEFINE c == calls[s]
           r == Pointed(c)
<1>0. view \in AirViews /\ view # "air/tokens"
  BY DEF AirViews
<1>1. view \notin BerryViews
  BY <1>0, ViewsApart
<1>9. /\ Served(s, "manage") /\ c.act \in {"test", "balance"}
      /\ Settle(s, list, IF c.ok THEN [obj EXCEPT ![A!Record(c)].measured = TRUE] ELSE obj,
           ui, None, FALSE)
  BY WordsA, StepsA, Zenon DEF A!MeasuredIn
<1>2. Fits(c) /\ c \in Records /\ c.op = "manage"
  <2>1. s \in InFlight /\ c.op = "manage"
    BY <1>9 DEF Served, InFlight
  <2> QED
    BY <2>1, ArraysAreLists DEF Base
<1>3. c.id # 0 /\ c.act \notin Changing
  BY <1>1, <1>2, <1>9 DEF Fits, Changing
<1>4. r \in DOMAIN obj /\ obj[r] \in Objects
  BY <1>1, <1>3, <1>9, PointedIs
<1>5. A!Record(c) = r
  BY DEF A!Record, Pointed, Place
<1>6. UiFits(ui)
  BY UiIs
<1>7. CASE ~c.ok
  <2>1. Settle(s, list, obj, ui, None, FALSE)
    BY <1>7, <1>9
  <2> QED
    BY <1>0, <1>1, <1>3, <1>6, <1>7, <1>9, <2>1, AnswerSettles
<1>8. CASE c.ok
  <2> DEFINE w == obj[r]
             new == [w EXCEPT !.measured = TRUE]
             o == [obj EXCEPT ![r] = new]
  <2>1. Settle(s, list, o, ui, None, FALSE)
    BY <1>5, <1>8, <1>9, Zenon
  <2>2. new \in Objects /\ new.gone = w.gone /\ new.status = w.status
    <3>1. w \in Objects
      BY <1>4
    <3> HIDE DEF w
    <3> QED
      BY <3>1 DEF Objects
  <2> HIDE DEF new
  <2>3. Touches(c, o)
    BY <1>3, <2>2, Zenon DEF Touches
  <2> HIDE DEF o
  <2> QED
    BY <1>0, <1>1, <1>3, <1>6, <1>9, <2>1, <2>3, AnswerSettles
<1> QED
  BY <1>2, <1>7, <1>8 DEF Records


(* The calls for a page that air makes, and the state it makes them in. *)
LEMMA ALoadForms ==
  ASSUME Base, view \in AirViews
  PROVE  /\ Load(Loading(0)) /\ Load(Loading(ui.page - 1))
         /\ Load([Loading(ui.page - 1) EXCEPT !.page = ui.page])
         /\ Load([Loading(0) EXCEPT !.then = 1])
         /\ Load([Loading(0) EXCEPT !.then = 1, !.clear = TRUE])
         /\ Load([Loading(0) EXCEPT !.then = 1, !.clear = TRUE, !.page = ui.page])
         /\ Load([Loading(0) EXCEPT !.then = 1, !.page = ui.page])
         /\ \A v \in {"all", "some"} : /\ Load([Loading(0) EXCEPT !.base = v])
                                      /\ Load([Loading(0) EXCEPT !.base = v, !.page = 1])
         /\ \A x \in {PAGE, 2 * PAGE} : Load([Loading(0) EXCEPT !.size = x])
<1>1. First = 1 /\ ui.page - 1 \in Nat /\ ui.page \in Nat
  BY UiIs, ViewsApart DEF First
<1>2. Load(Loading(0)) /\ Load(Loading(ui.page - 1))
  BY <1>1, LoadForms
<1>3. Load([Loading(ui.page - 1) EXCEPT !.page = ui.page])
  BY <1>1, <1>2, LoadForms
<1>4. Load([Loading(0) EXCEPT !.then = 1])
  <2>1. 1 \in Nat /\ 1 >= First
    BY <1>1
  <2> QED
    BY <1>2, <2>1, LoadForms
<1>5. Load([Loading(0) EXCEPT !.then = 1, !.clear = TRUE])
  BY <1>4, LoadForms
<1>6. Load([Loading(0) EXCEPT !.then = 1, !.clear = TRUE, !.page = ui.page])
  BY <1>1, <1>5, LoadForms
<1>7. Load([Loading(0) EXCEPT !.then = 1, !.page = ui.page])
  BY <1>1, <1>4, LoadForms
<1>8. ASSUME NEW v \in {"all", "some"}
      PROVE  Load([Loading(0) EXCEPT !.base = v]) /\ Load([Loading(0) EXCEPT !.base = v, !.page = 1])
  <2>1. Load([Loading(0) EXCEPT !.base = v])
    BY <1>2, LoadForms
  <2> QED
    BY <2>1, LoadForms
<1>9. \A x \in {PAGE, 2 * PAGE} : Load([Loading(0) EXCEPT !.size = x])
  BY <1>2, LoadForms
<1> QED
  BY <1>2, <1>3, <1>4, <1>5, <1>6, <1>7, <1>8, <1>9

(* What the buttons of air set beside the list is of the right kind. *)
LEMMA AUiForms ==
  ASSUME Base, view \in AirViews
  PROVE  LET Good(n) == UiFits(n) /\ n.searching = ui.searching
         IN  /\ Good(ui) /\ Good([ui EXCEPT !.loading = TRUE])
             /\ Good([ui EXCEPT !.page = 1, !.loading = TRUE])
             /\ \A v \in {"all", "some"} : /\ Good([ui EXCEPT !.order = v, !.page = 1])
                                          /\ Good([ui EXCEPT !.order = v, !.page = 1, !.loading = TRUE])
             /\ \A x \in {PAGE, 2 * PAGE} : Good([ui EXCEPT !.size = x, !.page = 1, !.loading = TRUE])
<1>1. First = 1 /\ view \notin BerryViews
  BY ViewsApart DEF First
<1>2. ui \in States /\ ui.page >= 1 /\ UiFits(ui)
  BY UiIs, <1>1 DEF UiFits
<1>3. ASSUME NEW n, n \in States, n.page >= 1 PROVE UiFits(n)
  BY <1>1, <1>3 DEF UiFits
<1>4. UiFits([ui EXCEPT !.loading = TRUE])
      /\ ([ui EXCEPT !.loading = TRUE]).searching = ui.searching
  <2> DEFINE n == [ui EXCEPT !.loading = TRUE]
  <2>1. n \in States /\ n.page >= 1 /\ n.searching = ui.searching
    BY <1>2 DEF States
  <2> HIDE DEF n
  <2>2. UiFits(n) /\ n.searching = ui.searching
    BY <1>3, <2>1
  <2> QED
    BY <2>2 DEF n
<1>5. UiFits([ui EXCEPT !.page = 1, !.loading = TRUE])
      /\ ([ui EXCEPT !.page = 1, !.loading = TRUE]).searching = ui.searching
  <2> DEFINE n == [ui EXCEPT !.page = 1, !.loading = TRUE]
  <2>0. ui \in States
    BY <1>2
  <2>1. n \in States /\ n.page = 1 /\ n.searching = ui.searching
    BY <2>0 DEF States
  <2> HIDE DEF n
  <2>2. UiFits(n) /\ n.searching = ui.searching
    BY <1>3, <2>1
  <2> QED
    BY <2>2 DEF n
<1>6. ASSUME NEW v \in {"all", "some"}
      PROVE  UiFits([ui EXCEPT !.order = v, !.page = 1])
              /\ ([ui EXCEPT !.order = v, !.page = 1]).searching = ui.searching
  <2> DEFINE n == [ui EXCEPT !.order = v, !.page = 1]
  <2>0. ui \in States
    BY <1>2
  <2>1. n \in States /\ n.page = 1 /\ n.searching = ui.searching
    BY <2>0 DEF States
  <2> HIDE DEF n
  <2>2. UiFits(n) /\ n.searching = ui.searching
    BY <1>3, <2>1
  <2> QED
    BY <2>2 DEF n
<1>7. ASSUME NEW v \in {"all", "some"}
      PROVE  UiFits([ui EXCEPT !.order = v, !.page = 1, !.loading = TRUE])
              /\ ([ui EXCEPT !.order = v, !.page = 1, !.loading = TRUE]).searching = ui.searching
  <2> DEFINE n == [ui EXCEPT !.order = v, !.page = 1, !.loading = TRUE]
  <2>0. ui \in States
    BY <1>2
  <2>1. n \in States /\ n.page = 1 /\ n.searching = ui.searching
    BY <2>0 DEF States
  <2> HIDE DEF n
  <2>2. UiFits(n) /\ n.searching = ui.searching
    BY <1>3, <2>1
  <2> QED
    BY <2>2 DEF n
<1>8. ASSUME NEW x \in {PAGE, 2 * PAGE}
      PROVE  UiFits([ui EXCEPT !.size = x, !.page = 1, !.loading = TRUE])
              /\ ([ui EXCEPT !.size = x, !.page = 1, !.loading = TRUE]).searching = ui.searching
  <2> DEFINE n == [ui EXCEPT !.size = x, !.page = 1, !.loading = TRUE]
  <2>0. ui \in States
    BY <1>2
  <2>1. n \in States /\ n.page = 1 /\ n.searching = ui.searching
    BY <2>0 DEF States
  <2> HIDE DEF n
  <2>2. UiFits(n) /\ n.searching = ui.searching
    BY <1>3, <2>1
  <2> QED
    BY <2>2 DEF n
<1> QED
  BY <1>2, <1>4, <1>5, <1>6, <1>7, <1>8

(* Each step of air is one of these. *)
LEMMA AirWorks ==
  ASSUME Base, A!AirNext
  PROVE  Works
<1> DEFINE A1 == \E s \in Slots : \E count \in Nat :
             \/ LoadAnswered(s, "loading",
                  IF calls[s].from = 0 THEN Replaced(calls[s]) ELSE Spliced(calls[s]), count)
             \/ LoadAnswered(s, "loading",
                  IF calls[s].from = 0 THEN Replaced(calls[s]) ELSE Pushed(calls[s]), count)
           A2 == \E s \in Slots : \E count \in Nat : FoundAnswered(s, 1, count)
           A3 == \E s \in Slots : \E u :
                   /\ Served(s, "manage") /\ calls[s].act # "purge" /\ UiFits(u)
                   /\ u.searching => ui.searching
                   /\ u.loading => ui.loading /\ view # "air/tokens"
                   /\ Settle(s, A!ManagedList(calls[s]), A!ManagedObj(calls[s]), u, None, FALSE)
           A4 == view = "air/channels" /\ \E s \in Slots : A!MeasuredIn(s)
           A5 == \E s \in Slots : A!ChannelsPurged(s)
           A6 == \E p \in 1..A!Pages, base \in {"all", "some"}, flag \in BOOLEAN :
                A!TurnAndLoad(p, base, flag)
           A7 == \E c, u : Begin(c, u) /\ Load(c) /\ UiFits(u) /\ u.searching = ui.searching
           A8 == Begin(Finding, [ui EXCEPT !.searching = TRUE])
           A9 == \E k : \E act \in Actions \ {"purge", "balances"} :
                   \/ RowAsks(k, act)
                   \/ /\ view = "air/tokens" /\ k \in DOMAIN Slice(list, ui)
                      /\ Begin([Call("manage", Slice(list, ui)[k][1], act, 0, "all") EXCEPT !.idx = k],
                               [ui EXCEPT !.loading = TRUE])
           A10 == view \in ChannelViews /\ Begin(Call("manage", 0, "purge", 0, "all"), ui)
           Any == A1 \/ A2 \/ A3 \/ A4 \/ A5 \/ A6 \/ A7 \/ A8 \/ A9 \/ A10
<1>1. view \in AirViews /\ view \notin BerryViews /\ view \notin DefaultViews
  <2>1. view \in AirViews
    BY DEF A!AirNext, A!Channels, A!Tokens, A!Users, A!Redemptions, A!Logs, AirViews
  <2> QED
    BY <2>1, ViewsApart
<1>2. First = 1 /\ Flag = "loading"
  BY <1>1 DEF First, Flag
<1>3. ui.count \in Nat /\ UiFits(ui) /\ ui.order \in {"all", "some"} /\ ui.page - 1 \in Nat
  BY <1>1, UiIs
<1>4. ASSUME NEW s \in Slots, Served(s, "manage"), view \notin ChannelViews
      PROVE  calls[s].act # "purge"
  <2>1. s \in InFlight
    BY <1>4 DEF Served, InFlight
  <2> QED
    BY <1>4, <2>1 DEF Base, Fits, Served
<1>5. ASSUME NEW s, s \in InFlight
      PROVE  \A l \in {Replaced(calls[s]), Spliced(calls[s]), Pushed(calls[s]),
                    Cut(calls[s]), Copied(calls[s]), list} :
               /\ Len(l.rows) + PAGE \in Nat
               /\ A!Padded(l, calls[s].size) \in Nat /\ A!OneMore(l, calls[s].page) \in Nat
  BY <1>5, ACounts
<1>6. ASSUME NEW s \in Slots, Served(s, "load") \/ Served(s, "search") \/ Served(s, "manage")
      PROVE  s \in InFlight
  BY <1>6 DEF Served, InFlight
<1>7. ASSUME NEW s \in Slots, NEW placed, NEW count, A!LoadAnswered(s, "loading", placed, count)
      PROVE  LoadAnswered(s, "loading", placed, count) /\ s \in InFlight
  <2>1. LoadAnswered(s, "loading", placed, count)
    BY <1>7, StepsA
  <2> QED
    BY <1>6, <2>1 DEF LoadAnswered

<1>9. ASSUME A!Channels PROVE Any
  <2>1. ASSUME NEW s \in Slots, A!ChannelsLoaded(s) PROVE A1
    <3> DEFINE c == calls[s]
               X == IF c.from = 0 THEN Replaced(c) ELSE Spliced(c)
               n == A!Padded(X, calls[s].size)
    <3>1. A!ChannelsPlaced(c) = X
      BY WordsA DEF A!ChannelsPlaced
    <3>2. A!LoadAnswered(s, "loading", X, n)
      BY <2>1, <3>1, Zenon DEF A!ChannelsLoaded
    <3>3. LoadAnswered(s, "loading", X, n) /\ s \in InFlight
      BY <1>7, <3>2
    <3>4. n \in Nat
      <4>1. X \in {Replaced(c), Spliced(c), Pushed(c), Cut(c), Copied(c), list}
        OBVIOUS
      <4> HIDE DEF X
      <4> QED
        BY <1>5, <3>3, <4>1
    <3> HIDE DEF n
    <3> QED
      BY <3>3, <3>4, Zenon
  <2>2. ASSUME NEW s \in Slots, A!ChannelsManaged(s) PROVE A3
    <3>1. /\ Served(s, "manage") /\ calls[s].act # "purge"
          /\ Settle(s, A!ManagedList(calls[s]), A!ManagedObj(calls[s]), ui, None, FALSE)
      <4>1. Served(s, "manage") /\ calls[s].act # "purge"
        BY <2>2, StepsA DEF A!ChannelsManaged
      <4>2. Settle(s, A!ManagedList(calls[s]), A!ManagedObj(calls[s]), ui, None, FALSE)
        BY <2>2, WordsA, StepsA, Zenon DEF A!ChannelsManaged
      <4> QED
        BY <4>1, <4>2
    <3>2. view # "air/tokens"
      BY <1>9 DEF A!Channels
    <3> QED
      BY <1>3, <3>1, <3>2, Zenon
  <2>3. ASSUME NEW s \in Slots, A!ChannelsMeasured(s) PROVE A4
    <3>1. view = "air/channels"
      BY <1>9 DEF A!Channels
    <3> QED
      BY <2>3, <3>1 DEF A!ChannelsMeasured
  <2>4. ASSUME NEW s \in Slots, A!ChannelsPurged(s) PROVE A5
    BY <2>4
  <2>5. ASSUME NEW s \in Slots, A!ChannelsFound(s) PROVE A2
    BY <1>3, <2>5, StepsA, Zenon DEF A!ChannelsFound
  <2>6. ASSUME NEW p \in 1..A!Pages, A!ChannelsPageChange(p) PROVE A6
    BY <1>3, <2>6, Zenon DEF A!ChannelsPageChange
  <2>7. ASSUME NEW size \in {PAGE, 2 * PAGE}, A!ChannelsPageSize(size) PROVE A7
    <3>1. Begin(Loading(0), [ui EXCEPT !.size = size, !.page = 1, !.loading = TRUE])
      BY <2>7, WordsA, StepsA, Zenon DEF A!ChannelsPageSize
    <3>2. Load(Loading(0)) /\ UiFits([ui EXCEPT !.size = size, !.page = 1, !.loading = TRUE])
            /\ ([ui EXCEPT !.size = size, !.page = 1, !.loading = TRUE]).searching = ui.searching
      BY <1>1, <1>3, ALoadForms, AUiForms
    <3> QED
      BY <3>1, <3>2, Zenon
  <2>8. ASSUME NEW k, A!ChannelsRow(k) PROVE A9
    <3>1. \E a \in {"test", "balance", "priority", "delete", "enable", "disable"} : RowAsks(k, a)
      BY <2>8, WordsA, StepsA DEF A!ChannelsRow, A!Row, A!Toggle, RowAsks
    <3> QED
      BY <3>1 DEF Actions
  <2>9. ASSUME NEW blank \in BOOLEAN, A!ChannelsSearch(blank) PROVE A7 \/ A8
    <3>1. CASE blank
      <4>1. Begin([Loading(0) EXCEPT !.then = 1], [ui EXCEPT !.loading = TRUE])
        BY <2>9, <3>1, WordsA, StepsA, Zenon DEF A!ChannelsSearch
      <4>2. Load([Loading(0) EXCEPT !.then = 1]) /\ UiFits([ui EXCEPT !.loading = TRUE])
              /\ ([ui EXCEPT !.loading = TRUE]).searching = ui.searching
        BY <1>1, <1>3, ALoadForms, AUiForms
      <4> QED
        BY <4>1, <4>2, Zenon
    <3>2. CASE ~blank
      BY <2>9, <3>2, WordsA, StepsA, Zenon DEF A!ChannelsSearch
    <3> QED
      BY <3>1, <3>2
  <2>10. ASSUME A!ChannelsRefresh PROVE A7
    <3>1. Begin(Loading(ui.page - 1), [ui EXCEPT !.loading = TRUE])
      BY <2>10, WordsA, StepsA, Zenon DEF A!ChannelsRefresh
    <3>2. Load(Loading(ui.page - 1)) /\ UiFits([ui EXCEPT !.loading = TRUE])
            /\ ([ui EXCEPT !.loading = TRUE]).searching = ui.searching
      BY <1>1, <1>3, ALoadForms, AUiForms
    <3> QED
      BY <3>1, <3>2, Zenon
  <2>11. ASSUME A!ChannelsDeleteDisabled PROVE A10
    <3>1. Begin(Call("manage", 0, "purge", 0, "all"), ui)
      BY <2>11, WordsA, StepsA, Zenon DEF A!ChannelsDeleteDisabled
    <3>2. view \in ChannelViews
      BY <1>9 DEF A!Channels, ChannelViews
    <3> QED
      BY <3>1, <3>2
  <2> HIDE DEF A1, A2, A3, A4, A5, A6, A7, A8, A9, A10
  <2> QED
    BY <1>9, <2>1, <2>2, <2>3, <2>4, <2>5, <2>6, <2>7, <2>8, <2>9, <2>10, <2>11, Zenon
       DEF A!Channels, Any
<1>10. ASSUME A!Tokens PROVE Any
  <2>0. view \notin ChannelViews
    BY <1>10 DEF A!Tokens, ChannelViews
  <2>1. ASSUME NEW s \in Slots, A!TokensLoaded(s) PROVE A1
    <3> DEFINE c == calls[s]
               X == IF c.from = 0 THEN Replaced(c) ELSE Spliced(c)
               n == A!Padded(X, calls[s].size)
    <3>1. A!TokensPlaced(c) = X
      BY WordsA DEF A!TokensPlaced
    <3>2. A!LoadAnswered(s, "loading", X, n)
      BY <2>1, <3>1, Zenon DEF A!TokensLoaded
    <3>3. LoadAnswered(s, "loading", X, n) /\ s \in InFlight
      BY <1>7, <3>2
    <3>4. n \in Nat
      <4>1. X \in {Replaced(c), Spliced(c), Pushed(c), Cut(c), Copied(c), list}
        OBVIOUS
      <4> HIDE DEF X
      <4> QED
        BY <1>5, <3>3, <4>1
    <3> HIDE DEF n
    <3> QED
      BY <3>3, <3>4, Zenon
  <2>2. ASSUME NEW s \in Slots, A!TokensManaged(s) PROVE A3
    <3> DEFINE c == calls[s]
               l == A!ManagedList(c)
               n == IF c.ok \/ c.act = "delete" THEN A!Padded(l, c.size) ELSE ui.count
               u == [ui EXCEPT !.loading = FALSE, !.count = n]
    <3>1. Served(s, "manage") /\ s \in InFlight
      BY <1>6, <2>2, StepsA DEF A!TokensManaged
    <3>2. Settle(s, l, A!ManagedObj(c), u, None, FALSE)
      <4>1. ui \in States
        BY <1>3 DEF UiFits
      <4>2. [ui EXCEPT !.loading = FALSE].count = ui.count
        BY <4>1 DEF States
      <4> QED
        BY <2>2, <4>2, WordsA, StepsA, Zenon DEF A!TokensManaged
    <3>3. n \in Nat
      <4>1. l \in {Cut(c), Copied(c), list}
        BY WordsA DEF A!ManagedList, A!Removed, Cut
      <4> HIDE DEF l
      <4> QED
        BY <1>3, <1>5, <3>1, <4>1
    <3> HIDE DEF n
    <3>4. UiFits(u) /\ u.searching = ui.searching /\ ~u.loading
      <4> DEFINE v == [ui EXCEPT !.loading = FALSE]
      <4>1. UiFits(v) /\ v.searching = ui.searching /\ ~v.loading
        BY <1>3, UiForms
      <4>2. u = [v EXCEPT !.count = n]
        OBVIOUS
      <4> HIDE DEF v, u
      <4>3. UiFits([v EXCEPT !.count = n]) /\ [v EXCEPT !.count = n].searching = v.searching
            /\ [v EXCEPT !.count = n].loading = v.loading
        <5>1. \A x \in Nat :
                LET m == [v EXCEPT !.count = x]
                IN  UiFits(m) /\ m.searching = v.searching /\ m.loading = v.loading
          BY <4>1, UiForms
        <5> QED
          BY <3>3, <5>1
      <4> QED
        BY <4>1, <4>2, <4>3
    <3>5. calls[s].act # "purge"
      BY <1>4, <2>0, <3>1
    <3> HIDE DEF u
    <3>6. /\ Served(s, "manage") /\ calls[s].act # "purge" /\ UiFits(u)
          /\ u.searching => ui.searching
          /\ u.loading => ui.loading /\ view # "air/tokens"
      BY <3>1, <3>4, <3>5
    <3> QED
      BY <3>2, <3>6, Zenon
  <2>3. ASSUME NEW s \in Slots, A!TokensFound(s) PROVE A2
    <3>1. A!Replaced(calls[s]) = Replaced(calls[s])
      BY WordsA
    <3>2. FoundAnswered(s, 1, A!Padded(Replaced(calls[s]), calls[s].size))
      BY <2>3, <3>1, StepsA, Zenon DEF A!TokensFound
    <3>3. s \in InFlight
      BY <1>6, <3>2 DEF FoundAnswered
    <3>4. A!Padded(Replaced(calls[s]), calls[s].size) \in Nat
      BY <1>5, <3>3
    <3> QED
      BY <3>2, <3>4, Zenon
  <2>4. ASSUME NEW p \in 1..A!Pages, A!TokensPageChange(p) PROVE A6
    BY <1>3, <2>4, Zenon DEF A!TokensPageChange
  <2>5. ASSUME NEW size \in {PAGE, 2 * PAGE}, A!TokensPageSize(size) PROVE A7
    <3>1. Begin([Loading(0) EXCEPT !.size = size],
            [ui EXCEPT !.size = size, !.page = 1, !.loading = TRUE])
      BY <2>5, WordsA, StepsA, Zenon DEF A!TokensPageSize
    <3>2. Load([Loading(0) EXCEPT !.size = size])
            /\ UiFits([ui EXCEPT !.size = size, !.page = 1, !.loading = TRUE])
            /\ ([ui EXCEPT !.size = size, !.page = 1, !.loading = TRUE]).searching = ui.searching
      BY <1>1, <1>3, ALoadForms, AUiForms
    <3> QED
      BY <3>1, <3>2, Zenon
  <2>6. ASSUME NEW k, A!TokensRow(k) PROVE A9
    <3>1. view = "air/tokens"
      BY <1>10 DEF A!Tokens
    <3>2. \E act \in {"delete", "enable", "disable"} :
            /\ k \in DOMAIN Slice(list, ui)
            /\ Begin([Call("manage", Slice(list, ui)[k][1], act, 0, "all") EXCEPT !.idx = k],
                      [ui EXCEPT !.loading = TRUE])
      BY <2>6, WordsA, StepsA DEF A!TokensRow, A!Toggle
    <3> QED
      BY <3>1, <3>2 DEF Actions
  <2>7. ASSUME NEW blank \in BOOLEAN, A!TokensSearch(blank) PROVE A7 \/ A8
    <3>1. CASE blank
      <4>1. Begin([Loading(0) EXCEPT !.then = 1, !.clear = TRUE], [ui EXCEPT !.loading = TRUE])
        BY <2>7, <3>1, WordsA, StepsA, Zenon DEF A!TokensSearch
      <4>2. Load([Loading(0) EXCEPT !.then = 1, !.clear = TRUE])
              /\ UiFits([ui EXCEPT !.loading = TRUE])
              /\ ([ui EXCEPT !.loading = TRUE]).searching = ui.searching
        BY <1>1, <1>3, ALoadForms, AUiForms
      <4> QED
        BY <4>1, <4>2, Zenon
    <3>2. CASE ~blank
      BY <2>7, <3>2, WordsA, StepsA, Zenon DEF A!TokensSearch
    <3> QED
      BY <3>1, <3>2
  <2>8. ASSUME NEW v \in {"all", "some"}, A!TokensOrderBy(v) PROVE A7
    <3>1. Begin([Loading(0) EXCEPT !.base = v], [ui EXCEPT !.order = v, !.page = 1, !.loading = TRUE])
      BY <2>8, WordsA, StepsA, Zenon DEF A!TokensOrderBy
    <3>2. Load([Loading(0) EXCEPT !.base = v])
            /\ UiFits([ui EXCEPT !.order = v, !.page = 1, !.loading = TRUE])
            /\ ([ui EXCEPT !.order = v, !.page = 1, !.loading = TRUE]).searching = ui.searching
      BY <1>1, <1>3, ALoadForms, AUiForms
    <3> QED
      BY <3>1, <3>2, Zenon
  <2>9. ASSUME A!TokensRefresh PROVE A7
    <3>1. Begin(Loading(ui.page - 1), [ui EXCEPT !.loading = TRUE])
      BY <2>9, WordsA, StepsA, Zenon DEF A!TokensRefresh
    <3>2. Load(Loading(ui.page - 1)) /\ UiFits([ui EXCEPT !.loading = TRUE])
            /\ ([ui EXCEPT !.loading = TRUE]).searching = ui.searching
      BY <1>1, <1>3, ALoadForms, AUiForms
    <3> QED
      BY <3>1, <3>2, Zenon
  <2> HIDE DEF A1, A2, A3, A4, A5, A6, A7, A8, A9, A10
  <2> QED
    BY <1>10, <2>1, <2>2, <2>3, <2>4, <2>5, <2>6, <2>7, <2>8, <2>9, Zenon
       DEF A!Tokens, Any
<1>11. ASSUME A!Users PROVE Any
  <2>0. view \notin ChannelViews
    BY <1>11 DEF A!Users, ChannelViews
  <2>1. ASSUME NEW s \in Slots, A!UsersLoaded(s) PROVE A1
    <3> DEFINE c == calls[s]
               X == IF c.from = 0 THEN Replaced(c) ELSE Pushed(c)
               n == A!OneMore(X, calls[s].page)
    <3>1. A!UsersPlaced(c) = X
      BY WordsA DEF A!UsersPlaced
    <3>2. A!LoadAnswered(s, "loading", X, n)
      BY <2>1, <3>1, Zenon DEF A!UsersLoaded
    <3>3. LoadAnswered(s, "loading", X, n) /\ s \in InFlight
      BY <1>7, <3>2
    <3>4. n \in Nat
      <4>1. X \in {Replaced(c), Spliced(c), Pushed(c), Cut(c), Copied(c), list}
        OBVIOUS
      <4> HIDE DEF X
      <4> QED
        BY <1>5, <3>3, <4>1
    <3> HIDE DEF n
    <3> QED
      BY <3>3, <3>4, Zenon
  <2>2. ASSUME NEW s \in Slots, A!UsersManaged(s) PROVE A3
    <3>1. /\ Served(s, "manage") /\ calls[s].act # "purge"
          /\ Settle(s, A!ManagedList(calls[s]), A!ManagedObj(calls[s]), ui, None, FALSE)
      <4>1. Served(s, "manage") /\ calls[s].act # "purge"
        BY <1>4, <2>0, <2>2, StepsA DEF A!UsersManaged
      <4>2. Settle(s, A!ManagedList(calls[s]), A!ManagedObj(calls[s]), ui, None, FALSE)
        BY <2>2, WordsA, StepsA, Zenon DEF A!UsersManaged
      <4> QED
        BY <4>1, <4>2
    <3>2. view # "air/tokens"
      BY <1>11 DEF A!Users
    <3> QED
      BY <1>3, <3>1, <3>2, Zenon
  <2>3. ASSUME NEW s \in Slots, A!UsersFound(s) PROVE A2
    BY <1>3, <2>3, StepsA, Zenon DEF A!UsersFound
  <2>4. ASSUME NEW p \in 1..A!Pages, A!UsersPageChange(p) PROVE A6
    BY <1>3, <2>4, Zenon DEF A!UsersPageChange
  <2>5. ASSUME NEW k, A!UsersRow(k) PROVE A9
    <3>1. \E a \in {"promote", "delete", "enable", "disable"} : RowAsks(k, a)
      BY <2>5, WordsA, StepsA DEF A!UsersRow, A!Row, A!Toggle, RowAsks
    <3> QED
      BY <3>1 DEF Actions
  <2>6. ASSUME NEW blank \in BOOLEAN, A!UsersSearch(blank) PROVE A7 \/ A8
    <3>1. CASE blank
      <4>1. Begin([Loading(0) EXCEPT !.then = 1, !.clear = TRUE, !.page = ui.page], ui)
        BY <2>6, <3>1, WordsA, StepsA, Zenon DEF A!UsersSearch
      <4>2. Load([Loading(0) EXCEPT !.then = 1, !.clear = TRUE, !.page = ui.page]) /\ UiFits(ui)
              /\ ui.searching = ui.searching
        BY <1>1, <1>3, ALoadForms, AUiForms
      <4> QED
        BY <4>1, <4>2, Zenon
    <3>2. CASE ~blank
      BY <2>6, <3>2, WordsA, StepsA, Zenon DEF A!UsersSearch
    <3> QED
      BY <3>1, <3>2
  <2>7. ASSUME NEW blank \in BOOLEAN, A!UsersRefresh(blank) PROVE A7 \/ A8
    <3>1. CASE blank
      <4>1. Begin([Loading(ui.page - 1) EXCEPT !.page = ui.page], ui)
        BY <2>7, <3>1, WordsA, StepsA, Zenon DEF A!UsersRefresh
      <4>2. Load([Loading(ui.page - 1) EXCEPT !.page = ui.page]) /\ UiFits(ui)
        BY <1>1, <1>3, ALoadForms
      <4> QED
        BY <4>1, <4>2, Zenon
    <3>2. CASE ~blank
      BY <2>7, <3>2, WordsA, StepsA, Zenon DEF A!UsersRefresh, A!UsersSearch
    <3> QED
      BY <3>1, <3>2
  <2>8. ASSUME NEW v \in {"all", "some"}, A!UsersOrderBy(v) PROVE A7
    <3>1. Begin([Loading(0) EXCEPT !.base = v, !.page = 1], [ui EXCEPT !.order = v, !.page = 1])
      BY <2>8, WordsA, StepsA, Zenon DEF A!UsersOrderBy
    <3>2. Load([Loading(0) EXCEPT !.base = v, !.page = 1])
            /\ UiFits([ui EXCEPT !.order = v, !.page = 1])
            /\ ([ui EXCEPT !.order = v, !.page = 1]).searching = ui.searching
      BY <1>1, <1>3, ALoadForms, AUiForms
    <3> QED
      BY <3>1, <3>2, Zenon
  <2> HIDE DEF A1, A2, A3, A4, A5, A6, A7, A8, A9, A10
  <2> QED
    BY <1>11, <2>1, <2>2, <2>3, <2>4, <2>5, <2>6, <2>7, <2>8, Zenon
       DEF A!Users, Any
<1>12. ASSUME A!Redemptions PROVE Any
  <2>0. view \notin ChannelViews
    BY <1>12 DEF A!Redemptions, ChannelViews
  <2>1. ASSUME NEW s \in Slots, A!RedemptionsLoaded(s) PROVE A1
    <3> DEFINE c == calls[s]
               X == IF c.from = 0 THEN Replaced(c) ELSE Pushed(c)
               n == A!OneMore(X, calls[s].page)
    <3>1. A!RedemptionsPlaced(c) = X
      BY WordsA DEF A!RedemptionsPlaced
    <3>2. A!LoadAnswered(s, "loading", X, n)
      BY <2>1, <3>1, Zenon DEF A!RedemptionsLoaded
    <3>3. LoadAnswered(s, "loading", X, n) /\ s \in InFlight
      BY <1>7, <3>2
    <3>4. n \in Nat
      <4>1. X \in {Replaced(c), Spliced(c), Pushed(c), Cut(c), Copied(c), list}
        OBVIOUS
      <4> HIDE DEF X
      <4> QED
        BY <1>5, <3>3, <4>1
    <3> HIDE DEF n
    <3> QED
      BY <3>3, <3>4, Zenon
  <2>2. ASSUME NEW s \in Slots, A!RedemptionsManaged(s) PROVE A3
    <3>1. /\ Served(s, "manage") /\ calls[s].act # "purge"
          /\ Settle(s, A!ManagedList(calls[s]), A!ManagedObj(calls[s]), ui, None, FALSE)
      <4>1. Served(s, "manage") /\ calls[s].act # "purge"
        BY <1>4, <2>0, <2>2, StepsA DEF A!RedemptionsManaged
      <4>2. Settle(s, A!ManagedList(calls[s]), A!ManagedObj(calls[s]), ui, None, FALSE)
        BY <2>2, WordsA, StepsA, Zenon DEF A!RedemptionsManaged
      <4> QED
        BY <4>1, <4>2
    <3>2. view # "air/tokens"
      BY <1>12 DEF A!Redemptions
    <3> QED
      BY <1>3, <3>1, <3>2, Zenon
  <2>3. ASSUME NEW s \in Slots, A!RedemptionsFound(s) PROVE A2
    BY <1>3, <2>3, StepsA, Zenon DEF A!RedemptionsFound
  <2>4. ASSUME NEW p \in 1..A!Pages, A!RedemptionsPageChange(p) PROVE A6
    BY <1>3, <2>4, Zenon DEF A!RedemptionsPageChange
  <2>5. ASSUME NEW k, A!RedemptionsRow(k) PROVE A9
    <3>1. \E a \in {"delete", "enable", "disable"} : RowAsks(k, a)
      BY <2>5, WordsA, StepsA DEF A!RedemptionsRow, A!Row, A!Toggle, RowAsks
    <3> QED
      BY <3>1 DEF Actions
  <2>6. ASSUME NEW blank \in BOOLEAN, A!RedemptionsSearch(blank) PROVE A7 \/ A8
    <3>1. CASE blank
      <4>1. Begin([Loading(0) EXCEPT !.then = 1, !.page = ui.page], ui)
        BY <2>6, <3>1, WordsA, StepsA, Zenon DEF A!RedemptionsSearch
      <4>2. Load([Loading(0) EXCEPT !.then = 1, !.page = ui.page]) /\ UiFits(ui)
              /\ ui.searching = ui.searching
        BY <1>1, <1>3, ALoadForms, AUiForms
      <4> QED
        BY <4>1, <4>2, Zenon
    <3>2. CASE ~blank
      BY <2>6, <3>2, WordsA, StepsA, Zenon DEF A!RedemptionsSearch
    <3> QED
      BY <3>1, <3>2
  <2>7. ASSUME A!RedemptionsRefresh PROVE A7
    <3>1. Begin([Loading(ui.page - 1) EXCEPT !.page = ui.page], ui)
      BY <2>7, WordsA, StepsA, Zenon DEF A!RedemptionsRefresh
    <3>2. Load([Loading(ui.page - 1) EXCEPT !.page = ui.page]) /\ UiFits(ui)
            /\ ui.searching = ui.searching
      BY <1>1, <1>3, ALoadForms, AUiForms
    <3> QED
      BY <3>1, <3>2, Zenon
  <2> HIDE DEF A1, A2, A3, A4, A5, A6, A7, A8, A9, A10
  <2> QED
    BY <1>12, <2>1, <2>2, <2>3, <2>4, <2>5, <2>6, <2>7, Zenon
       DEF A!Redemptions, Any
<1>13. ASSUME A!Logs PROVE Any
  <2>0. view \notin ChannelViews
    BY <1>13 DEF A!Logs, ChannelViews
  <2>1. ASSUME NEW s \in Slots, A!LogsLoaded(s) PROVE A1
    <3> DEFINE c == calls[s]
               X == IF c.from = 0 THEN Replaced(c) ELSE Spliced(c)
               n == Len(X.rows) + PAGE
    <3>1. A!LogsPlaced(c) = X
      BY WordsA DEF A!LogsPlaced
    <3>2. A!LoadAnswered(s, "loading", X, n)
      BY <2>1, <3>1, Zenon DEF A!LogsLoaded
    <3>3. LoadAnswered(s, "loading", X, n) /\ s \in InFlight
      BY <1>7, <3>2
    <3>4. n \in Nat
      <4>1. X \in {Replaced(c), Spliced(c), Pushed(c), Cut(c), Copied(c), list}
        OBVIOUS
      <4> HIDE DEF X
      <4> QED
        BY <1>5, <3>3, <4>1
    <3> HIDE DEF n
    <3> QED
      BY <3>3, <3>4, Zenon
  <2>2. ASSUME NEW p \in 1..A!Pages, A!LogsPageChange(p) PROVE A6
    BY <1>3, <2>2, Zenon DEF A!LogsPageChange
  <2>3. ASSUME NEW size \in {PAGE, 2 * PAGE}, A!LogsPageSize(size) PROVE A7
    <3>1. Begin([Loading(0) EXCEPT !.base = "all"],
            [ui EXCEPT !.size = size, !.page = 1, !.loading = TRUE])
      BY <2>3, WordsA, StepsA, Zenon DEF A!LogsPageSize
    <3>2. Load([Loading(0) EXCEPT !.base = "all"])
            /\ UiFits([ui EXCEPT !.size = size, !.page = 1, !.loading = TRUE])
            /\ ([ui EXCEPT !.size = size, !.page = 1, !.loading = TRUE]).searching = ui.searching
      BY <1>1, <1>3, ALoadForms, AUiForms
    <3> QED
      BY <3>1, <3>2, Zenon
  <2>4. ASSUME NEW v \in {"all", "some"}, A!LogsType(v) PROVE A7
    <3>1. Begin([Loading(0) EXCEPT !.base = v], [ui EXCEPT !.order = v, !.page = 1, !.loading = TRUE])
      BY <2>4, WordsA, StepsA, Zenon DEF A!LogsType
    <3>2. Load([Loading(0) EXCEPT !.base = v])
            /\ UiFits([ui EXCEPT !.order = v, !.page = 1, !.loading = TRUE])
            /\ ([ui EXCEPT !.order = v, !.page = 1, !.loading = TRUE]).searching = ui.searching
      BY <1>1, <1>3, ALoadForms, AUiForms
    <3> QED
      BY <3>1, <3>2, Zenon
  <2>5. ASSUME A!LogsQuery PROVE A7
    <3>1. Begin([Loading(0) EXCEPT !.base = "all"], [ui EXCEPT !.page = 1, !.loading = TRUE])
      BY <2>5, WordsA, StepsA, Zenon DEF A!LogsQuery
    <3>2. Load([Loading(0) EXCEPT !.base = "all"])
            /\ UiFits([ui EXCEPT !.page = 1, !.loading = TRUE])
            /\ ([ui EXCEPT !.page = 1, !.loading = TRUE]).searching = ui.searching
      BY <1>1, <1>3, ALoadForms, AUiForms
    <3> QED
      BY <3>1, <3>2, Zenon
  <2> HIDE DEF A1, A2, A3, A4, A5, A6, A7, A8, A9, A10
  <2> QED
    BY <1>13, <2>1, <2>2, <2>3, <2>4, <2>5, Zenon
       DEF A!Logs, Any
<1>14. Any
  BY <1>9, <1>10, <1>11, <1>12, <1>13, Zenon DEF A!AirNext
<1>21. CASE A1
  BY <1>1, <1>2, <1>21, Zenon DEF Loads, Works
<1>22. CASE A2
  BY <1>2, <1>22, Zenon DEF Finds, Works
<1>23. CASE A3
  <2>1. Settles \/ Cuts
    BY <1>1, <1>23, ASettles
  <2> QED
    BY <2>1 DEF Works
<1>24. CASE A4
  <2>1. Settles
    BY <1>24, AMeasures
  <2> QED
    BY <2>1 DEF Works
<1>25. CASE A5
  <2>1. PICK s \in Slots : A!ChannelsPurged(s)
    BY <1>25
  <2> DEFINE c == calls[s]
  <2>2. /\ Served(s, "manage") /\ c.act = "purge"
        /\ IF c.ok
           THEN Settle(s, list, obj, [ui EXCEPT !.loading = TRUE], Reloading(c, c.page - 1), TRUE)
           ELSE Settle(s, list, obj, ui, None, FALSE)
    BY <2>1, WordsA, StepsA, Zenon DEF A!ChannelsPurged
  <2>6. c \in Records /\ Fits(c) /\ c.op = "manage"
    <3>1. s \in InFlight /\ c.op = "manage"
      BY <2>2 DEF Served, InFlight
    <3> QED
      BY <3>1, ArraysAreLists DEF Base
  <2>3. c.page - 1 \in Nat
    BY <1>2, <2>6 DEF Fits, Records
  <2>7. view # "air/tokens"
    BY <2>2, <2>6 DEF Fits, ChannelViews
  <2>4. CASE c.ok
    <3>1. Settle(s, list, obj, [ui EXCEPT !.loading = TRUE], Reloading(c, c.page - 1), TRUE)
      BY <2>2, <2>4
    <3>2. Reloads
      BY <1>2, <2>2, <2>3, <3>1 DEF Reloads
    <3> QED
      BY <3>2 DEF Works
  <2>5. CASE ~c.ok
    <3>1. SettleSwitched(s, list, obj, ui, None, FALSE, switch)
      BY <2>2, <2>5 DEF Settle
    <3>3. Settles
      BY <1>1, <1>3, <2>2, <2>5, <2>7, <3>1 DEF Settles
    <3> QED
      BY <3>3 DEF Works
  <2> QED
    BY <2>4, <2>5
<1>26. CASE A6
  BY <1>1, <1>26, ATurns DEF Works
<1>27. CASE A7
  <2>1. PICK c, u : Begin(c, u) /\ Load(c) /\ UiFits(u) /\ u.searching = ui.searching
    BY <1>27
  <2>2. Asks
    BY <2>1, LoadAsks
  <2> QED
    BY <2>2 DEF Works
<1>28. CASE A8
  BY <1>28, FindAsks DEF Works
<1>29. CASE A9
  <2>4. PICK k : \E act \in Actions \ {"purge", "balances"} :
                   \/ RowAsks(k, act)
                   \/ /\ view = "air/tokens" /\ k \in DOMAIN Slice(list, ui)
                      /\ Begin([Call("manage", Slice(list, ui)[k][1], act, 0, "all") EXCEPT !.idx = k],
                               [ui EXCEPT !.loading = TRUE])
    BY <1>29
  <2>1. PICK act \in Actions \ {"purge", "balances"} :
                   \/ RowAsks(k, act)
                   \/ /\ view = "air/tokens" /\ k \in DOMAIN Slice(list, ui)
                      /\ Begin([Call("manage", Slice(list, ui)[k][1], act, 0, "all") EXCEPT !.idx = k],
                               [ui EXCEPT !.loading = TRUE])
    BY <2>4
  <2>2. CASE RowAsks(k, act)
    <3>1. Asks
      BY <1>1, <1>3, <2>1, <2>2, RowIsAsked DEF RowAsks
    <3> QED
      BY <3>1 DEF Works
  <2>3. CASE ~RowAsks(k, act)
    <3> DEFINE u == [ui EXCEPT !.loading = TRUE]
    <3>1. UiFits(u) /\ u.searching = ui.searching
      BY <1>1, AUiForms
    <3>3. /\ view = "air/tokens" /\ k \in DOMAIN Slice(list, ui)
          /\ Begin([Call("manage", Slice(list, ui)[k][1], act, 0, "all") EXCEPT !.idx = k], u)
      BY <2>1, <2>3
    <3> HIDE DEF u
    <3>2. Asks
      BY <1>1, <2>1, <3>1, <3>3, RowIsAsked
    <3> QED
      BY <3>2 DEF Works
  <2> QED
    BY <2>2, <2>3
<1>30. CASE A10
  BY <1>30, PurgeAsks DEF Works
<1> HIDE DEF A1, A2, A3, A4, A5, A6, A7, A8, A9, A10
<1> QED
  BY <1>14, <1>21, <1>22, <1>23, <1>24, <1>25, <1>26, <1>27, <1>28, <1>29, <1>30 DEF Any


-----------------------------------------------------------------------------
(* Berry.                                                                  *)

(* A page is asked for with the spinner on. *)
LEMMA BLoadAsks ==
  ASSUME Base, view \in BerryViews, NEW c, Load(c), Begin(c, [ui EXCEPT !.searching = TRUE])
  PROVE  Asks
<1> DEFINE u == [ui EXCEPT !.searching = TRUE]
<1>1. UiFits(ui)
  BY UiIs
<1>2. UiFits(u)
  <2>1. \A x \in BOOLEAN : LET n == [ui EXCEPT !.searching = x]
                           IN  UiFits(n) /\ n.searching = x /\ n.loading = ui.loading
    BY <1>1, UiForms
  <2> QED
    BY <2>1
<1>3. Begin(c, u)
  OBVIOUS
<1> HIDE DEF u
<1> QED
  BY <1>2, <1>3, LoadAsks

(* Turning a page in berry loads it or stays with the list. *)
LEMMA BTurns ==
  ASSUME Base, view \in BerryViews, NEW p \in 0..(B!Pages - 1), B!TurnOrLoad(p)
  PROVE  Asks \/ Stands
<1> DEFINE n == CeilDiv(Len(list.rows), PAGE)
<1>1. B!Pages \in Int
  <2>1. B!Pages = CeilDiv(Len(list.rows) + (IF Len(list.rows) % PAGE = 0 THEN 1 ELSE 0), PAGE)
    BY WordsB DEF B!Pages
  <2>2. Len(list.rows) \in Nat /\ PAGE \in Nat \ {0}
    BY UiIs, TableAssumption
  <2> DEFINE x == IF Len(list.rows) % PAGE = 0 THEN 1 ELSE 0
             m == Len(list.rows) + x
  <2>3. x \in {0, 1}
    OBVIOUS
  <2> HIDE DEF x
  <2>4. m + PAGE - 1 \in Nat
    BY <2>2, <2>3
  <2> HIDE DEF m
  <2>5. (m + PAGE - 1) \div PAGE \in Nat
    BY <2>2, <2>4, Quotient
  <2>6. B!Pages = CeilDiv(m, PAGE)
    BY <2>1 DEF m, x
  <2> QED
    BY <2>5, <2>6 DEF CeilDiv
<1> HIDE DEF n
<1>3. p \in Nat /\ p >= First /\ First = 0
  BY <1>1 DEF First
<1>4. CASE p = n
  <2>1. Begin([Loading(p) EXCEPT !.then = p], [ui EXCEPT !.searching = TRUE])
    BY <1>4, WordsB, StepsB, Zenon DEF B!TurnOrLoad, B!Searching, n
  <2>2. Load([Loading(p) EXCEPT !.then = p])
    <3>1. Load(Loading(p))
      BY <1>3, LoadForms
    <3> QED
      BY <1>3, <3>1, LoadForms
  <2> QED
    BY <2>1, <2>2, BLoadAsks
<1>5. CASE p # n
  <2>1. Turn(p)
    BY <1>5, WordsB, StepsB, Zenon DEF B!TurnOrLoad, n
  <2> QED
    BY <1>3, <2>1, TurnStands
<1> QED
  BY <1>4, <1>5

(* Searching in berry is making a call. *)
LEMMA BSearches ==
  ASSUME Base, view \in BerryViews, NEW blank \in BOOLEAN, B!Search(blank)
  PROVE  Asks
<1>1. CASE blank
  <2>1. Begin([Loading(0) EXCEPT !.then = 0], [ui EXCEPT !.searching = TRUE])
    BY <1>1, WordsB, StepsB, Zenon DEF B!Search, B!Searching
  <2>2. Load([Loading(0) EXCEPT !.then = 0])
    <3>1. Load(Loading(0)) /\ 0 \in Nat /\ 0 >= First
      BY LoadForms DEF First
    <3> QED
      BY <3>1, LoadForms
  <2> QED
    BY <2>1, <2>2, BLoadAsks
<1>2. CASE ~blank
  <2>1. Begin(Finding, [ui EXCEPT !.searching = TRUE])
    BY <1>2, WordsB, StepsB, Zenon DEF B!Search, B!Searching
  <2> QED
    BY <2>1, FindAsks
<1> QED
  BY <1>1, <1>2

(* A row of the page asks. *)
LEMMA BRowAsks ==
  ASSUME Base, view \in BerryViews, NEW k, NEW acts,
       acts \subseteq {"test", "priority", "delete", "role"},
         B!RowOf(k, acts)
  PROVE  Asks
<1> DEFINE id == Slice(list, ui)[k][1]
<1>1. PICK a \in acts \cup {B!Toggle(switch[id])} :
        /\ k \in DOMAIN Slice(list, ui)
        /\ Begin([Call("manage", id, a, 0, "all") EXCEPT
                    !.list = IF a \in {"test", "priority", "enable", "disable"}
                                /\ view # "berry/users" THEN Unneeded ELSE @,
                    !.set = CASE a = "enable" -> 1 [] a = "disable" -> 2 [] OTHER -> 0], ui)
  BY WordsB, StepsB, Zenon DEF B!RowOf
<1>2. a \in {"test", "priority", "delete", "role", "enable", "disable"}
  BY <1>1 DEF B!Toggle
<1>3. a \in Actions /\ a \notin {"purge", "balances"}
  BY <1>2 DEF Actions
<1>4. list \in Lists /\ ui \in States /\ FirstOf(ui) \in Nat
  <2>1. list \in Lists /\ ui \in States /\ ui.page \in Nat
    BY UiIs DEF UiFits
  <2>2. ui.page * PAGE \in Nat
    BY <2>1, TableAssumption
  <2> QED
    BY <2>1, <2>2 DEF FirstOf
<1>5. id \in Ids
  <2>1. FirstOf(ui) + k \in DOMAIN list.rows /\ Slice(list, ui)[k] = list.rows[FirstOf(ui) + k]
    BY <1>1, <1>4, SliceRow
  <2>2. list.rows[FirstOf(ui) + k] \in Pairs
    BY <2>1, UiIs, SeqIs
  <2> QED
    BY <2>1, <2>2 DEF Pairs
<1>6. id # 0
  BY <1>5, TableAssumption
<1> DEFINE e == Call("manage", id, a, 0, "all")
           m == IF a \in {"test", "priority", "enable", "disable"} /\ view # "berry/users"
                THEN Unneeded ELSE list
           x == CASE a = "enable" -> 1 [] a = "disable" -> 2 [] OTHER -> 0
           d == [e EXCEPT !.list = m, !.set = x]
<1>7. /\ e \in Records
      /\ e.op = "manage" /\ e.id = id /\ e.act = a /\ e.from = 0 /\ e.base = "all"
      /\ e.then = -1 /\ e.list = list /\ e.page = ui.page /\ e.size = ui.size
      /\ e.phase = "asked"
  <2>1. "manage" \in {"load", "search", "manage"} /\ id \in Ids \cup {0} /\ 0 \in Nat
        /\ "all" \in {"all", "some", "found"}
    BY <1>5
  <2> HIDE DEF id
  <2> QED
    BY <1>3, <2>1, CallIs
<1> HIDE DEF id, e
<1>8. Begin(d, ui)
  BY <1>1, <1>7, Zenon DEF id, e
<1>9. m \in {list, Unneeded} /\ m \in Lists /\ x \in 0..2
  BY <1>2, <1>4, UnneededIs
<1> HIDE DEF m, x
<1>10. /\ d \in Records
       /\ d.op = "manage" /\ d.id = id /\ d.act = a /\ d.from = 0 /\ d.base = "all"
       /\ d.then = -1 /\ d.list = m /\ d.page = ui.page /\ d.size = ui.size
       /\ d.phase = "asked"
  BY <1>7, <1>9 DEF Records
<1> HIDE DEF d
<1>11. NewCall(d)
  <2>1. d.id # 0 /\ d.act \notin {"purge", "balances"} /\ d.list \in {list, Unneeded}
    BY <1>3, <1>6, <1>9, <1>10 DEF id
  <2> QED
    BY <1>10, <2>1, ManageForm
<1>12. UiFits(ui)
  BY UiIs
<1> QED
  BY <1>8, <1>11, <1>12 DEF Asks

(* Updating all balances in berry is making a call. *)
LEMMA BBalances ==
  ASSUME Base, view = "berry/channels", B!ChannelsBalances
  PROVE  Asks
<1> DEFINE e == Call("manage", 0, "balances", 0, "all")
           d == [e EXCEPT !.list = Unneeded]
           u == [ui EXCEPT !.searching = TRUE]
<1>1. Begin(d, u)
  BY WordsB, StepsB, Zenon DEF B!ChannelsBalances, B!Searching
<1>2. /\ e \in Records
      /\ e.op = "manage" /\ e.id = 0 /\ e.act = "balances" /\ e.from = 0 /\ e.base = "all"
      /\ e.then = -1 /\ e.list = list /\ e.page = ui.page /\ e.size = ui.size
      /\ e.phase = "asked"
  <2>1. "manage" \in {"load", "search", "manage"} /\ 0 \in Ids \cup {0} /\ 0 \in Nat
        /\ "all" \in {"all", "some", "found"} /\ "balances" \in Actions
    BY DEF Actions
  <2> QED
    BY <2>1, CallIs
<1> HIDE DEF e
<1>3. /\ d \in Records
      /\ d.op = "manage" /\ d.id = 0 /\ d.act = "balances" /\ d.from = 0 /\ d.base = "all"
      /\ d.then = -1 /\ d.list = Unneeded /\ d.page = ui.page /\ d.size = ui.size
      /\ d.phase = "asked"
  BY <1>2, UnneededIs DEF Records
<1> HIDE DEF d
<1>6. view \in BerryViews
  BY DEF BerryViews
<1>4. NewCall(d)
  BY <1>3, <1>6, ManageForm
<1>5. UiFits(u) /\ u.loading = ui.loading
  <2>1. UiFits(ui)
    BY UiIs
  <2>2. \A x \in BOOLEAN : LET n == [ui EXCEPT !.searching = x]
                           IN  UiFits(n) /\ n.searching = x /\ n.loading = ui.loading
    BY <2>1, UiForms
  <2> QED
    BY <2>2
<1> HIDE DEF u
<1>7. \A flag \in Flags : u[flag] => ui[flag] \/ Ends(d, flag)
  BY <1>3, <1>5, <1>6 DEF Flags, Ends
<1> QED
  BY <1>1, <1>4, <1>5, <1>7 DEF Asks

(* The answer to an operation: a page is loaded again, or the row shows its status. *)
LEMMA BAnswered ==
  ASSUME Base, view \in BerryViews, NEW s \in Slots, Served(s, "manage"), calls[s].act # "balances",
         NEW from \in Nat, NEW d \in BOOLEAN, NEW sw,
         \/ Settle(s, list, obj, [ui EXCEPT !.searching = TRUE], Reloading(calls[s], from), d)
         \/ SettleSwitched(s, list, obj, ui, None, FALSE, sw)
  PROVE  Works
<1>1. CASE Settle(s, list, obj, [ui EXCEPT !.searching = TRUE], Reloading(calls[s], from), d)
  <2>1. Flag = "searching"
    BY DEF Flag
  <2>2. Settle(s, list, obj, [ui EXCEPT ![Flag] = TRUE], Reloading(calls[s], from), d)
    BY <1>1, <2>1, Zenon
  <2>3. Reloads
    BY <2>2 DEF Reloads
  <2> QED
    BY <2>3 DEF Works
<1>2. CASE SettleSwitched(s, list, obj, ui, None, FALSE, sw)
  <2>1. UiFits(ui) /\ ~ui.loading
    BY UiIs DEF UiFits
  <2>2. Settles
    BY <1>2, <2>1 DEF Settles
  <2> QED
    BY <2>2 DEF Works
<1> QED
  BY <1>1, <1>2

(* An operation of berry holds a page, and one for a row is not the one for all balances. *)
LEMMA BHeld ==
  ASSUME Base, NEW s \in Slots, Served(s, "manage")
  PROVE  calls[s].page \in Nat /\ (calls[s].id # 0 => calls[s].act # "balances")
<1>1. s \in InFlight /\ calls[s].op = "manage"
  BY DEF Served, InFlight
<1>2. calls[s] \in Records /\ Fits(calls[s])
  BY <1>1, ArraysAreLists DEF Base
<1> QED
  BY <1>1, <1>2 DEF Fits, Records

(* The answer to the update of all balances ends the operation. *)
LEMMA BBalanced ==
  ASSUME Base, view \in BerryViews, NEW s \in Slots, B!ChannelsBalanced(s)
  PROVE  Settles
<1> DEFINE u == [ui EXCEPT !.searching = FALSE]
<1>1. Served(s, "manage") /\ Settle(s, list, obj, u, None, FALSE)
  BY WordsB, StepsB, Zenon DEF B!ChannelsBalanced
<1>2. UiFits(ui) /\ ~ui.loading
  BY UiIs DEF UiFits
<1>3. UiFits(u) /\ ~u.searching /\ ~u.loading
  <2>1. \A x \in BOOLEAN : LET n == [ui EXCEPT !.searching = x]
                           IN  UiFits(n) /\ n.searching = x /\ n.loading = ui.loading
    BY <1>2, UiForms
  <2> QED
    BY <1>2, <2>1
<1> HIDE DEF u
<1>4. SettleSwitched(s, list, obj, u, None, FALSE, switch)
  BY <1>1 DEF Settle
<1> QED
  BY <1>1, <1>3, <1>4 DEF Settles

(* Choosing a filter in berry loads nothing yet. *)
LEMMA BFilters ==
  ASSUME Base, view \in BerryViews, NEW v \in {"all", "some"}, B!LogsFilter(v)
  PROVE  Stands
<1> DEFINE u == [ui EXCEPT !.order = v]
<1>1. UiFits(ui)
  BY UiIs
<1>2. UiFits(u) /\ u.searching = ui.searching /\ u.loading = ui.loading
  <2>1. \A x \in {"all", "some"} :
          LET n == [ui EXCEPT !.order = x]
          IN  UiFits(n) /\ n.searching = ui.searching /\ n.loading = ui.loading
    BY <1>1, UiForms
  <2> QED
    BY <2>1
<1>3. Become(list, obj, u, calls, switch, [hist EXCEPT !.asked = @ + 1]) /\ UNCHANGED db
  BY StepsB, Zenon DEF B!LogsFilter
<1> HIDE DEF u
<1>4. \A flag \in Flags : u[flag] = ui[flag]
  BY <1>2 DEF Flags
<1> QED
  BY <1>2, <1>3, <1>4 DEF Stands

(* Each step of berry is one of these. *)
LEMMA BerryWorks ==
  ASSUME Base, B!BerryNext
  PROVE  Works
<1> DEFINE A1 == \E s \in Slots : LoadAnswered(s, "searching",
                    IF calls[s].from = 0 THEN Replaced(calls[s]) ELSE Spliced(calls[s]), ui.count)
           A2 == \E s \in Slots : FoundAnswered(s, 0, ui.count)
           A3 == \E s \in Slots, from \in Nat, d \in BOOLEAN : \E sw :
                   /\ Served(s, "manage") /\ calls[s].act # "balances"
                   /\ \/ Settle(s, list, obj,
                        [ui EXCEPT !.searching = TRUE], Reloading(calls[s], from), d)
                      \/ SettleSwitched(s, list, obj, ui, None, FALSE, sw)
           A4 == \E s \in Slots : B!ChannelsBalanced(s)
           A5 == \E p \in 0..(B!Pages - 1) : B!TurnOrLoad(p)
           A6 == \E k : \E acts \in SUBSET {"test", "priority", "delete", "role"} : B!RowOf(k, acts)
           A7 == \E blank \in BOOLEAN : B!Search(blank)
           A8 == \E c : Load(c) /\ Begin(c, [ui EXCEPT !.searching = TRUE])
           A9 == view = "berry/channels" /\ B!ChannelsBalances
           A10 == view \in ChannelViews /\ Begin(Call("manage", 0, "purge", 0, "all"), ui)
           A11 == \E v \in {"all", "some"} : B!LogsFilter(v)
           A12 == Restarts
           Any == A1 \/ A2 \/ A3 \/ A4 \/ A5 \/ A6 \/ A7 \/ A8 \/ A9 \/ A10 \/ A11 \/ A12
<1>1. view \in BerryViews
  BY DEF B!BerryNext, B!Channels, B!Tokens, B!Users, B!Redemptions, B!Logs, BerryViews
<1>2. First = 0 /\ Flag = "searching" /\ ui.count \in Nat /\ ui.page \in Nat
  BY <1>1, UiIs DEF First, Flag
<1>3. ASSUME NEW s \in Slots, Served(s, "manage"), calls[s].id # 0
      PROVE  calls[s].act # "balances" /\ calls[s].page \in Nat
  BY <1>3, BHeld
<1>4. ASSUME NEW s, NEW placed, NEW count, B!LoadAnswered(s, "searching", placed, count)
      PROVE  LoadAnswered(s, "searching", placed, count)
  BY <1>4, StepsB

<1>5. ASSUME B!Channels PROVE Any
  <2>1. ASSUME NEW s \in Slots, B!ChannelsLoaded(s) PROVE A1
    BY <1>4, <2>1, WordsB, StepsB, Zenon DEF B!ChannelsLoaded, B!Placed
  <2>2. ASSUME NEW s \in Slots, B!ChannelsManaged(s) PROVE A3
    <3> DEFINE c == calls[s]
               from == c.page
               d == c.act = "delete"
    <3>1. /\ Served(s, "manage") /\ c.id # 0
          /\ IF c.ok /\ c.act = "delete"
             THEN Settle(s, list, obj, [ui EXCEPT !.searching = TRUE], Reloading(c, from), d)
             ELSE SettleSwitched(s, list, obj, ui, None, FALSE, IF c.ok THEN SwitchedBy(c) ELSE switch)
      BY <2>2, WordsB, StepsB, Zenon DEF B!ChannelsManaged, B!Managed, B!Deleted, B!Searching
    <3>2. from \in Nat /\ d \in BOOLEAN /\ c.act # "balances"
      BY <1>3, <3>1
    <3> HIDE DEF from, d
    <3> DEFINE sw == IF c.ok THEN SwitchedBy(c) ELSE switch
    <3> HIDE DEF sw
    <3>3. \/ Settle(s, list, obj, [ui EXCEPT !.searching = TRUE], Reloading(c, from), d)
          \/ SettleSwitched(s, list, obj, ui, None, FALSE, sw)
      BY <3>1 DEF sw
    <3> QED
      BY <3>1, <3>2, <3>3, Zenon
  <2>3. ASSUME NEW s \in Slots, B!ChannelsPurged(s) PROVE A3
    <3> DEFINE c == calls[s]
    <3>1. /\ Served(s, "manage") /\ c.act = "purge"
          /\ IF c.ok THEN Settle(s, list, obj,
               [ui EXCEPT !.searching = TRUE], Reloading(c, c.page), TRUE)
                     ELSE Settle(s, list, obj, ui, None, FALSE)
      BY <2>3, WordsB, StepsB, Zenon DEF B!ChannelsPurged, B!Searching
    <3>2. c.page \in Nat /\ TRUE \in BOOLEAN /\ c.act # "balances"
      BY <3>1, BHeld
    <3>3. Settle(s, list, obj, ui, None, FALSE) => SettleSwitched(s, list, obj, ui, None, FALSE, switch)
      BY DEF Settle
    <3>4. \/ Settle(s, list, obj, [ui EXCEPT !.searching = TRUE], Reloading(c, c.page), TRUE)
          \/ SettleSwitched(s, list, obj, ui, None, FALSE, switch)
      BY <3>1, <3>3
    <3> QED
      BY <3>1, <3>2, <3>4, Zenon
  <2>4. ASSUME NEW s \in Slots, B!ChannelsFound(s) PROVE A2
    BY <2>4, StepsB, Zenon DEF B!ChannelsFound
  <2>5. ASSUME NEW s \in Slots, B!ChannelsBalanced(s) PROVE A4
    BY <2>5
  <2>6. ASSUME NEW p \in 0..(B!Pages - 1), B!ChannelsPagination(p) PROVE A5
    BY <2>6 DEF B!ChannelsPagination
  <2>7. ASSUME NEW k, B!ChannelsRow(k) PROVE A6
    <3>1. B!RowOf(k, {"test", "priority", "delete"})
      BY <2>7, Zenon DEF B!ChannelsRow
    <3>2. {"test", "priority", "delete"} \in SUBSET {"test", "priority", "delete", "role"}
      OBVIOUS
    <3> QED
      BY <3>1, <3>2, Zenon
  <2>8. ASSUME NEW blank \in BOOLEAN, B!ChannelsSearch(blank) PROVE A7
    BY <2>8 DEF B!ChannelsSearch
  <2>9. ASSUME B!ChannelsRefresh PROVE A8
    <3>1. Begin(Loading(ui.page), [ui EXCEPT !.searching = TRUE])
      BY <2>9, WordsB, StepsB, Zenon DEF B!ChannelsRefresh, B!Searching
    <3>2. Load(Loading(ui.page))
      BY <1>2, LoadForms
    <3> QED
      BY <3>1, <3>2, Zenon
  <2>10. ASSUME B!ChannelsDeleteDisabled PROVE A10
    <3>1. Begin(Call("manage", 0, "purge", 0, "all"), ui)
      BY <2>10, WordsB, StepsB, Zenon DEF B!ChannelsDeleteDisabled
    <3>2. view \in ChannelViews
      BY <1>5 DEF B!Channels, ChannelViews
    <3> QED
      BY <3>1, <3>2
  <2>11. ASSUME B!ChannelsBalances PROVE A9
    BY <1>5, <2>11 DEF B!Channels
  <2> HIDE DEF A1, A2, A3, A4, A5, A6, A7, A8, A9, A10, A11, A12
  <2> QED
    BY <1>5, <2>1, <2>2, <2>3, <2>4, <2>5, <2>6, <2>7, <2>8, <2>9, <2>10, <2>11, Zenon
       DEF B!Channels, Any
<1>6. ASSUME B!Tokens PROVE Any
  <2>1. ASSUME NEW s \in Slots, B!TokensLoaded(s) PROVE A1
    BY <1>4, <2>1, WordsB, StepsB, Zenon DEF B!TokensLoaded, B!Placed
  <2>2. ASSUME NEW s \in Slots, B!TokensManaged(s) PROVE A3
    <3> DEFINE c == calls[s]
               from == c.page
               d == c.act = "delete"
    <3>1. /\ Served(s, "manage") /\ c.id # 0
          /\ IF c.ok /\ c.act = "delete"
             THEN Settle(s, list, obj, [ui EXCEPT !.searching = TRUE], Reloading(c, from), d)
             ELSE SettleSwitched(s, list, obj, ui, None, FALSE, IF c.ok THEN SwitchedBy(c) ELSE switch)
      BY <2>2, WordsB, StepsB, Zenon DEF B!TokensManaged, B!Managed, B!Deleted, B!Searching
    <3>2. from \in Nat /\ d \in BOOLEAN /\ c.act # "balances"
      BY <1>3, <3>1
    <3> HIDE DEF from, d
    <3> DEFINE sw == IF c.ok THEN SwitchedBy(c) ELSE switch
    <3> HIDE DEF sw
    <3>3. \/ Settle(s, list, obj, [ui EXCEPT !.searching = TRUE], Reloading(c, from), d)
          \/ SettleSwitched(s, list, obj, ui, None, FALSE, sw)
      BY <3>1 DEF sw
    <3> QED
      BY <3>1, <3>2, <3>3, Zenon
  <2>3. ASSUME NEW s \in Slots, B!TokensFound(s) PROVE A2
    BY <2>3, StepsB, Zenon DEF B!TokensFound
  <2>4. ASSUME NEW p \in 0..(B!Pages - 1), B!TokensPagination(p) PROVE A5
    BY <2>4 DEF B!TokensPagination
  <2>5. ASSUME NEW k, B!TokensRow(k) PROVE A6
    <3>1. B!RowOf(k, {"delete"})
      BY <2>5, Zenon DEF B!TokensRow
    <3>2. {"delete"} \in SUBSET {"test", "priority", "delete", "role"}
      OBVIOUS
    <3> QED
      BY <3>1, <3>2, Zenon
  <2>6. ASSUME NEW blank \in BOOLEAN, B!TokensSearch(blank) PROVE A7
    BY <2>6 DEF B!TokensSearch
  <2>7. ASSUME B!TokensRefresh PROVE A8
    <3>1. Begin(Loading(ui.page), [ui EXCEPT !.searching = TRUE])
      BY <2>7, WordsB, StepsB, Zenon DEF B!TokensRefresh, B!Searching
    <3>2. Load(Loading(ui.page))
      BY <1>2, LoadForms
    <3> QED
      BY <3>1, <3>2, Zenon
  <2> HIDE DEF A1, A2, A3, A4, A5, A6, A7, A8, A9, A10, A11, A12
  <2> QED
    BY <1>6, <2>1, <2>2, <2>3, <2>4, <2>5, <2>6, <2>7, Zenon
       DEF B!Tokens, Any
<1>7. ASSUME B!Users PROVE Any
  <2>1. ASSUME NEW s \in Slots, B!UsersLoaded(s) PROVE A1
    BY <1>4, <2>1, WordsB, StepsB, Zenon DEF B!UsersLoaded, B!Placed
  <2>2. ASSUME NEW s \in Slots, B!UsersManaged(s) PROVE A3
    <3> DEFINE c == calls[s]
               from == c.page
               d == c.act = "delete"
    <3>1. /\ Served(s, "manage") /\ c.id # 0
          /\ IF c.ok /\ TRUE
             THEN Settle(s, list, obj, [ui EXCEPT !.searching = TRUE], Reloading(c, from), d)
             ELSE SettleSwitched(s, list, obj, ui, None, FALSE, IF c.ok THEN SwitchedBy(c) ELSE switch)
      BY <2>2, WordsB, StepsB, Zenon DEF B!UsersManaged, B!Managed, B!Deleted, B!Searching
    <3>2. from \in Nat /\ d \in BOOLEAN /\ c.act # "balances"
      BY <1>3, <3>1
    <3> HIDE DEF from, d
    <3> DEFINE sw == IF c.ok THEN SwitchedBy(c) ELSE switch
    <3> HIDE DEF sw
    <3>3. \/ Settle(s, list, obj, [ui EXCEPT !.searching = TRUE], Reloading(c, from), d)
          \/ SettleSwitched(s, list, obj, ui, None, FALSE, sw)
      BY <3>1 DEF sw
    <3> QED
      BY <3>1, <3>2, <3>3, Zenon
  <2>3. ASSUME NEW s \in Slots, B!UsersFound(s) PROVE A2
    BY <2>3, StepsB, Zenon DEF B!UsersFound
  <2>4. ASSUME NEW p \in 0..(B!Pages - 1), B!UsersPagination(p) PROVE A5
    BY <2>4 DEF B!UsersPagination
  <2>5. ASSUME NEW k, B!UsersRow(k) PROVE A6
    <3>1. B!RowOf(k, {"role", "delete"})
      BY <2>5, Zenon DEF B!UsersRow
    <3>2. {"role", "delete"} \in SUBSET {"test", "priority", "delete", "role"}
      OBVIOUS
    <3> QED
      BY <3>1, <3>2, Zenon
  <2>6. ASSUME NEW blank \in BOOLEAN, B!UsersSearch(blank) PROVE A7
    BY <2>6 DEF B!UsersSearch
  <2>7. ASSUME B!UsersRefresh PROVE A8
    <3>1. Begin(Loading(ui.page), [ui EXCEPT !.searching = TRUE])
      BY <2>7, WordsB, StepsB, Zenon DEF B!UsersRefresh, B!Searching
    <3>2. Load(Loading(ui.page))
      BY <1>2, LoadForms
    <3> QED
      BY <3>1, <3>2, Zenon
  <2> HIDE DEF A1, A2, A3, A4, A5, A6, A7, A8, A9, A10, A11, A12
  <2> QED
    BY <1>7, <2>1, <2>2, <2>3, <2>4, <2>5, <2>6, <2>7, Zenon
       DEF B!Users, Any
<1>8. ASSUME B!Redemptions PROVE Any
  <2>1. ASSUME NEW s \in Slots, B!RedemptionsLoaded(s) PROVE A1
    BY <1>4, <2>1, WordsB, StepsB, Zenon DEF B!RedemptionsLoaded, B!Placed
  <2>2. ASSUME NEW s \in Slots, B!RedemptionsManaged(s) PROVE A3
    <3> DEFINE c == calls[s]
               from == 0
               d == c.act = "delete"
    <3>1. /\ Served(s, "manage") /\ c.id # 0
          /\ IF c.ok /\ c.act = "delete"
             THEN Settle(s, list, obj, [ui EXCEPT !.searching = TRUE], Reloading(c, from), d)
             ELSE SettleSwitched(s, list, obj, ui, None, FALSE, IF c.ok THEN SwitchedBy(c) ELSE switch)
      BY <2>2, WordsB, StepsB, Zenon DEF B!RedemptionsManaged, B!Managed, B!Deleted, B!Searching
    <3>2. from \in Nat /\ d \in BOOLEAN /\ c.act # "balances"
      BY <1>3, <3>1
    <3> HIDE DEF from, d
    <3> DEFINE sw == IF c.ok THEN SwitchedBy(c) ELSE switch
    <3> HIDE DEF sw
    <3>3. \/ Settle(s, list, obj, [ui EXCEPT !.searching = TRUE], Reloading(c, from), d)
          \/ SettleSwitched(s, list, obj, ui, None, FALSE, sw)
      BY <3>1 DEF sw
    <3> QED
      BY <3>1, <3>2, <3>3, Zenon
  <2>3. ASSUME NEW s \in Slots, B!RedemptionsFound(s) PROVE A2
    BY <2>3, StepsB, Zenon DEF B!RedemptionsFound
  <2>4. ASSUME NEW p \in 0..(B!Pages - 1), B!RedemptionsPagination(p) PROVE A5
    BY <2>4 DEF B!RedemptionsPagination
  <2>5. ASSUME NEW k, B!RedemptionsRow(k) PROVE A6
    <3>1. B!RowOf(k, {"delete"})
      BY <2>5, Zenon DEF B!RedemptionsRow
    <3>2. {"delete"} \in SUBSET {"test", "priority", "delete", "role"}
      OBVIOUS
    <3> QED
      BY <3>1, <3>2, Zenon
  <2>6. ASSUME NEW blank \in BOOLEAN, B!RedemptionsSearch(blank) PROVE A7
    BY <2>6 DEF B!RedemptionsSearch
  <2>7. ASSUME B!RedemptionsRefresh PROVE A8
    <3>1. Begin([Loading(0) EXCEPT !.then = 0], [ui EXCEPT !.searching = TRUE])
      BY <2>7, WordsB, StepsB, Zenon DEF B!RedemptionsRefresh, B!Searching
    <3>2. Load([Loading(0) EXCEPT !.then = 0])
      <4>1. Load(Loading(0)) /\ 0 \in Nat /\ 0 >= First
        BY <1>2, LoadForms
      <4> QED
        BY <4>1, LoadForms
    <3> QED
      BY <3>1, <3>2, Zenon
  <2> HIDE DEF A1, A2, A3, A4, A5, A6, A7, A8, A9, A10, A11, A12
  <2> QED
    BY <1>8, <2>1, <2>2, <2>3, <2>4, <2>5, <2>6, <2>7, Zenon
       DEF B!Redemptions, Any
<1>9. ASSUME B!Logs PROVE Any
  <2>1. ASSUME NEW s \in Slots, B!LogsLoaded(s) PROVE A1
    BY <1>4, <2>1, WordsB, StepsB, Zenon DEF B!LogsLoaded, B!Placed
  <2>2. ASSUME NEW p \in 0..(B!Pages - 1), B!LogsPagination(p) PROVE A5
    BY <2>2 DEF B!LogsPagination
  <2>3. ASSUME NEW v \in {"all", "some"}, B!LogsFilter(v) PROVE A11
    BY <2>3
  <2>4. ASSUME B!LogsSearch PROVE A8
    <3>1. Begin([Loading(0) EXCEPT !.then = 0], [ui EXCEPT !.searching = TRUE])
      BY <2>4, WordsB, StepsB, Zenon DEF B!LogsSearch, B!Searching
    <3>2. Load([Loading(0) EXCEPT !.then = 0])
      <4>1. Load(Loading(0)) /\ 0 \in Nat /\ 0 >= First
        BY <1>2, LoadForms
      <4> QED
        BY <4>1, LoadForms
    <3> QED
      BY <3>1, <3>2, Zenon
  <2>5. ASSUME B!LogsRefresh PROVE A12
    BY <1>9, <2>5 DEF B!Logs, Restarts
  <2> HIDE DEF A1, A2, A3, A4, A5, A6, A7, A8, A9, A10, A11, A12
  <2> QED
    BY <1>9, <2>1, <2>2, <2>3, <2>4, <2>5, Zenon
       DEF B!Logs, Any
<1>10. Any
  BY <1>5, <1>6, <1>7, <1>8, <1>9, Zenon DEF B!BerryNext
<1>21. CASE A1
  BY <1>2, <1>21, Zenon DEF Loads, Works
<1>22. CASE A2
  BY <1>2, <1>22, Zenon DEF Finds, Works
<1>23. CASE A3
  BY <1>1, <1>23, BAnswered
<1>24. CASE A4
  <2>1. Settles
    BY <1>1, <1>24, BBalanced
  <2> QED
    BY <2>1 DEF Works
<1>25. CASE A5
  BY <1>1, <1>25, BTurns DEF Works
<1>26. CASE A6
  BY <1>1, <1>26, BRowAsks DEF Works
<1>27. CASE A7
  BY <1>1, <1>27, BSearches DEF Works
<1>28. CASE A8
  BY <1>1, <1>28, BLoadAsks DEF Works
<1>29. CASE A9
  BY <1>29, BBalances DEF Works
<1>30. CASE A10
  BY <1>30, PurgeAsks DEF Works
<1>31. CASE A11
  BY <1>1, <1>31, BFilters DEF Works
<1>32. CASE A12
  BY <1>32 DEF Works
<1> HIDE DEF A1, A2, A3, A4, A5, A6, A7, A8, A9, A10, A11, A12
<1> QED
  BY <1>10, <1>21, <1>22, <1>23, <1>24, <1>25, <1>26, <1>27, <1>28, <1>29, <1>30, <1>31, <1>32 DEF Any


-----------------------------------------------------------------------------
(***************************************************************************)
(* What a step of a table sets.                                            *)
(***************************************************************************)

\* The tables do not administer: that is for the server.
Remembers(h) ==
  /\ h \in History
  /\ h.moved = hist.moved /\ h.threw = hist.threw
  /\ hist.disturbed => h.disturbed

\* The lists there can be after a step.
Made(l) ==
  \/ l = list
  \/ l = Sorted /\ list.rows # <<>>
  \/ \E s \in InFlight :
       LET c == calls[s]
       IN  /\ c.phase = "served"
           /\ \/ c.op = "manage" /\ l = Copied(c) /\ view \notin BerryViews
              \/ c.op = "manage" /\ c.act = "delete" /\ view \in AirViews /\ l = Cut(c)
              \/ c.op = "load" /\ c.ok /\ c.from = 0 /\ l = Replaced(c)
              \/ c.op = "load" /\ c.ok /\ c.from # 0 /\ l = Spliced(c)
              \/ c.op = "load" /\ c.ok /\ c.from # 0 /\ l = Pushed(c) /\ view \notin BerryViews
              \/ c.op = "search" /\ c.ok /\ l = Replaced(c)

\* A call stays as it is, ends, or is a new one.
Goes(cs) == \A s \in Slots : cs[s] \in {calls[s], None} \/ cs[s].phase = "asked"

\* An object changes by the answer to an operation on its row.
Changes(l, o, cs) ==
  \A r \in DOMAIN obj \cap Refs(l, cs) :
    o[r] # obj[r] => \E s \in InFlight : /\ cs[s] = None /\ calls[s].op = "manage"
                                         /\ calls[s].id = r[1]

\* A spinner turns for a call in flight.
Spins(u, cs) == \A flag \in Flags : u[flag] => \E s \in Slots : cs[s] # None /\ Ends(cs[s], flag)

\* What every step of a table sets.
Sets(l, o, u, cs, h) ==
  /\ Prepared(l, o, u, cs, h) /\ Remembers(h) /\ Made(l) /\ Goes(cs) /\ Changes(l, o, cs)
  /\ Spins(ui, calls) => Spins(u, cs)

(* The list stays. *)
LEMMA ListStays ==
  ASSUME Base
  PROVE  /\ list \in Lists /\ list.gen # -1
         /\ \A L \in Arrays : L.gen = list.gen => L = list
         /\ \A L \in Arrays : L.gen = list.gen => Grown(list, L)
<1>1. \A L \in Arrays : L.gen = list.gen => L = list
  BY DEF Base, OneArray, Arrays
<1> QED
  BY <1>1, UiIs DEF Grown

(* The list is a new array. *)
LEMMA NewArray ==
  ASSUME Base, NEW l, l.gen = NewGen
  PROVE  /\ l.gen # -1 /\ \A L \in Arrays : L.gen # l.gen
<1>1. NewGen \in Nat /\ NewGen \notin Gens
  BY NewNumbers DEF Base
<1>2. \A L \in Arrays : L.gen = -1 \/ L.gen \in Gens
  BY UnneededIs DEF Arrays, Gens
<1> QED
  BY <1>1, <1>2

(* The row objects of every array are held. *)
LEMMA RowsHeld ==
  ASSUME Base
  PROVE  /\ \A L \in Arrays : \A k \in DOMAIN L.rows : L.rows[k] \in DOMAIN obj /\ L.rows[k] \in Pairs
         /\ \A r \in DOMAIN obj : obj[r] \in Objects
<1>1. obj \in [Refs(list, calls) -> Objects]
  BY DEF Base, TypeOK
<1>2. ASSUME NEW L \in Arrays, NEW k \in DOMAIN L.rows
      PROVE  L.rows[k] \in DOMAIN obj /\ L.rows[k] \in Pairs
  <2>1. L \in Lists
    BY ArraysAreLists DEF Base
  <2>2. L.rows \in Seq(Pairs)
    BY <2>1 DEF Lists
  <2>3. L.rows[k] \in Pairs
    BY <2>2, SeqIs
  <2>4. CASE L = Unneeded
    BY <2>4, UnneededIs
  <2>5. CASE L = list
    BY <1>1, <2>3, <2>5 DEF Refs
  <2>6. CASE L \in {calls[s].list : s \in InFlight}
    <3>1. PICK s \in InFlight : L = calls[s].list
      BY <2>6
    <3>2. s \in {t \in Slots : calls[t] # None}
      BY DEF InFlight
    <3>3. L.rows[k] \in {calls[s].list.rows[j] : j \in DOMAIN calls[s].list.rows}
      BY <3>1
    <3> QED
      BY <1>1, <2>3, <3>2, <3>3 DEF Refs
  <2> QED
    BY <2>4, <2>5, <2>6 DEF Arrays
<1> QED
  BY <1>1, <1>2

(* The row objects in use after a step are known ones or those of its list. *)
LEMMA RefsAre ==
  ASSUME Base, NEW l, NEW cs, \A s \in Slots : cs[s] # None => cs[s].list \in Arrays
  PROVE  \A r \in Refs(l, cs) : r \in DOMAIN obj \/ \E k \in DOMAIN l.rows : r = l.rows[k]
<1> SUFFICES ASSUME NEW r \in Refs(l, cs), \A k \in DOMAIN l.rows : r # l.rows[k]
             PROVE  r \in DOMAIN obj
  OBVIOUS
<1>1. PICK s \in {t \in Slots : cs[t] # None} : r \in {cs[s].list.rows[k] : k \in DOMAIN cs[s].list.rows}
  BY DEF Refs
<1>2. PICK k \in DOMAIN cs[s].list.rows : r = cs[s].list.rows[k]
  BY <1>1
<1>3. cs[s].list \in Arrays
  BY <1>1
<1> QED
  BY <1>2, <1>3, RowsHeld

(* One slot is given another call, or none. *)
LEMMA SlotIs ==
  ASSUME Base, NEW s \in Slots, NEW c, c = None \/ (c \in Records /\ Fits(c) /\ c.list \in Arrays)
  PROVE  LET cs == [calls EXCEPT ![s] = c]
         IN  /\ cs \in [Slots -> Records \cup {None}] /\ cs[s] = c
             /\ \A t \in Slots \ {s} : cs[t] = calls[t]
             /\ \A t \in Slots : cs[t] # None => cs[t].list \in Arrays /\ Fits(cs[t])
<1>1. calls \in [Slots -> Records \cup {None}]
  BY DEF Base, TypeOK
<1>2. \A t \in Slots : calls[t] # None => calls[t].list \in Arrays /\ Fits(calls[t])
  BY DEF Base, InFlight, Arrays
<1> DEFINE cs == [calls EXCEPT ![s] = c]
<1>3. cs \in [Slots -> Records \cup {None}] /\ cs[s] = c /\ \A t \in Slots \ {s} : cs[t] = calls[t]
  BY <1>1
<1> HIDE DEF cs
<1>4. \A t \in Slots : cs[t] # None => cs[t].list \in Arrays /\ Fits(cs[t])
  BY <1>2, <1>3
<1> QED
  BY <1>3, <1>4 DEF cs

(* What the tables do to the history: they count, and may note a disturbance. *)
LEMMA HistIs ==
  ASSUME Base
  PROVE  /\ Remembers(hist)
         /\ \A d \in BOOLEAN : Remembers([hist EXCEPT !.disturbed = @ \/ d])
                               /\ [hist EXCEPT !.disturbed = @ \/ d].disturbed = (hist.disturbed \/ d)
         /\ Remembers([hist EXCEPT !.asked = @ + 1])
         /\ [hist EXCEPT !.asked = @ + 1].disturbed = hist.disturbed
         /\ \A d \in BOOLEAN : Remembers([hist EXCEPT !.asked = @ + 1, !.disturbed = @ \/ d])
                 /\ [hist EXCEPT !.asked = @ + 1,
                      !.disturbed = @ \/ d].disturbed = (hist.disturbed \/ d)
<1>1. hist \in History
  BY DEF Base, TypeOK
<1>2. hist.asked + 1 \in Nat
  BY <1>1 DEF History
<1>3. \A d \in BOOLEAN : hist.disturbed \/ d \in BOOLEAN
  BY <1>1 DEF History
<1>4. Remembers(hist)
  BY <1>1 DEF Remembers
<1>5. ASSUME NEW d \in BOOLEAN
      PROVE  Remembers([hist EXCEPT !.disturbed = @ \/ d])
                               /\ [hist EXCEPT !.disturbed = @ \/ d].disturbed = (hist.disturbed \/ d)
  <2> DEFINE x == hist.disturbed \/ d
  <2>1. x \in BOOLEAN /\ (hist.disturbed => x)
    BY <1>3
  <2> HIDE DEF x
  <2>2. /\ [hist EXCEPT !.disturbed = x] \in History
        /\ [hist EXCEPT !.disturbed = x].moved = hist.moved
        /\ [hist EXCEPT !.disturbed = x].threw = hist.threw
        /\ [hist EXCEPT !.disturbed = x].disturbed = x
    BY <1>1, <2>1 DEF History
  <2> QED
    BY <2>1, <2>2, Zenon DEF Remembers, x
<1>6. /\ Remembers([hist EXCEPT !.asked = @ + 1])
      /\ [hist EXCEPT !.asked = @ + 1].disturbed = hist.disturbed
  <2> DEFINE n == hist.asked + 1
  <2>1. n \in Nat
    BY <1>2
  <2> HIDE DEF n
  <2>2. /\ [hist EXCEPT !.asked = n] \in History
        /\ [hist EXCEPT !.asked = n].moved = hist.moved
        /\ [hist EXCEPT !.asked = n].threw = hist.threw
        /\ [hist EXCEPT !.asked = n].disturbed = hist.disturbed
    BY <1>1, <2>1 DEF History
  <2> QED
    BY <2>1, <2>2, Zenon DEF Remembers, n
<1>7. ASSUME NEW d \in BOOLEAN
      PROVE  Remembers([hist EXCEPT !.asked = @ + 1, !.disturbed = @ \/ d])
               /\ [hist EXCEPT !.asked = @ + 1, !.disturbed = @ \/ d].disturbed = (hist.disturbed \/ d)
  <2> DEFINE x == hist.disturbed \/ d
             n == hist.asked + 1
             g == [hist EXCEPT !.asked = n, !.disturbed = x]
  <2>1. x \in BOOLEAN /\ (hist.disturbed => x) /\ n \in Nat
    BY <1>2, <1>3
  <2>3. g = [hist EXCEPT !.asked = @ + 1, !.disturbed = @ \/ d]
    <3>1. [hist EXCEPT !.asked = n].disturbed = hist.disturbed
      BY <1>1 DEF History
    <3> QED
      BY <3>1, Zenon
  <2> HIDE DEF x, n
  <2>2. /\ g \in History
        /\ g.moved = hist.moved
        /\ g.threw = hist.threw
        /\ g.disturbed = x
    BY <1>1, <2>1 DEF History
  <2> QED
    BY <2>1, <2>2, <2>3, Zenon DEF Remembers, x
<1> QED
  BY <1>4, <1>5, <1>6, <1>7


(* A call is made. *)
LEMMA AskSets ==
  ASSUME Base, NEW c, NewCall(c), NEW u, UiFits(u), NEW s \in Slots, calls[s] = None,
         \A flag \in Flags : u[flag] => ui[flag] \/ Ends(c, flag), NEW h, Remembers(h)
  PROVE  LET cs == [calls EXCEPT ![s] = c]
         IN  Sets(list, obj, u, cs, h) /\ cs[s] = c /\ \A t \in Slots \ {s} : cs[t] = calls[t]
<1> DEFINE cs == [calls EXCEPT ![s] = c]
<1>1. c \in Records /\ Fits(c) /\ c.list \in Arrays /\ c # None /\ c.phase = "asked"
  BY NoneIsNoRecord DEF NewCall, Arrays
<1>2. /\ cs \in [Slots -> Records \cup {None}] /\ cs[s] = c
      /\ \A t \in Slots \ {s} : cs[t] = calls[t]
      /\ \A t \in Slots : cs[t] # None => cs[t].list \in Arrays /\ Fits(cs[t])
  BY <1>1, SlotIs
<1> HIDE DEF cs
<1>3. \A r \in Refs(list, cs) : obj[r] \in Objects
  <2>1. \A r \in Refs(list, cs) : r \in DOMAIN obj \/ \E k \in DOMAIN list.rows : r = list.rows[k]
    BY <1>2, RefsAre
  <2> QED
    BY <2>1, RowsHeld DEF Arrays
<1>4. Prepared(list, obj, u, cs, h)
  BY <1>2, <1>3, ListStays DEF Prepared
<1>5. Made(list) /\ Changes(list, obj, cs)
  BY DEF Made, Changes
<1>6. Goes(cs)
  BY <1>1, <1>2 DEF Goes
<1>7. Spins(ui, calls) => Spins(u, cs)
  <2> SUFFICES ASSUME Spins(ui, calls), NEW flag \in Flags, u[flag]
               PROVE  \E t \in Slots : cs[t] # None /\ Ends(cs[t], flag)
    BY DEF Spins
  <2>1. CASE Ends(c, flag)
    BY <1>1, <1>2, <2>1
  <2>2. CASE ui[flag]
    <3>1. PICK t \in Slots : calls[t] # None /\ Ends(calls[t], flag)
      BY <2>2 DEF Spins
    <3> QED
      BY <1>2, <3>1
  <2> QED
    BY <2>1, <2>2
<1> QED
  BY <1>2, <1>4, <1>5, <1>6, <1>7 DEF Sets, cs

(* Another page or order. *)
LEMMA StandSets ==
  ASSUME Base, NEW u, UiFits(u), \A flag \in Flags : u[flag] => ui[flag], NEW h, Remembers(h)
  PROVE  Sets(list, obj, u, calls, h)
<1>1. calls \in [Slots -> Records \cup {None}]
  BY DEF Base, TypeOK
<1>2. \A t \in Slots : calls[t] # None => calls[t].list \in Arrays /\ Fits(calls[t])
  BY DEF Base, InFlight, Arrays
<1>3. \A r \in Refs(list, calls) : obj[r] \in Objects
  BY DEF Base, TypeOK
<1>4. Prepared(list, obj, u, calls, h)
  BY <1>1, <1>2, <1>3, ListStays DEF Prepared
<1>5. Made(list) /\ Changes(list, obj, calls) /\ Goes(calls)
  BY DEF Made, Changes, Goes
<1>6. Spins(ui, calls) => Spins(u, calls)
  BY DEF Spins
<1> QED
  BY <1>4, <1>5, <1>6 DEF Sets

(* The list is sorted. *)
LEMMA SortSets ==
  ASSUME Base, list.rows # <<>>, NEW h, Remembers(h)
  PROVE  Sets(Sorted, obj, [ui EXCEPT !.loading = FALSE], calls, h)
<1> DEFINE u == [ui EXCEPT !.loading = FALSE]
<1>0. UiFits(u) /\ u.searching = ui.searching /\ ~u.loading
  BY UiIs, UiForms
<1> HIDE DEF u
<1>1. calls \in [Slots -> Records \cup {None}] /\ TypeOK
  BY DEF Base, TypeOK
<1>2. \A t \in Slots : calls[t] # None => calls[t].list \in Arrays /\ Fits(calls[t])
  BY DEF Base, InFlight, Arrays
<1>3. Sorted \in Lists /\ Sorted.gen = NewGen
      /\ \E p \in [DOMAIN list.rows -> DOMAIN list.rows] :
           Sorted.rows = [k \in DOMAIN list.rows |-> list.rows[p[k]]]
  BY <1>1, SortedIs
<1>4. \A k \in DOMAIN Sorted.rows : Sorted.rows[k] \in DOMAIN obj
  <2>1. PICK p \in [DOMAIN list.rows -> DOMAIN list.rows] :
           Sorted.rows = [k \in DOMAIN list.rows |-> list.rows[p[k]]]
    BY <1>3
  <2> QED
    BY <2>1, RowsHeld DEF Arrays
<1>5. \A r \in Refs(Sorted, calls) : obj[r] \in Objects
  <2>1. \A r \in Refs(Sorted, calls) :
          r \in DOMAIN obj \/ \E k \in DOMAIN Sorted.rows : r = Sorted.rows[k]
    BY <1>2, RefsAre
  <2> QED
    BY <1>4, <2>1, RowsHeld
<1>6. Prepared(Sorted, obj, u, calls, h)
  BY <1>0, <1>1, <1>2, <1>3, <1>5, NewArray DEF Prepared
<1>7. Made(Sorted) /\ Changes(Sorted, obj, calls) /\ Goes(calls)
  BY DEF Made, Changes, Goes
<1>8. Spins(ui, calls) => Spins(u, calls)
  BY <1>0 DEF Spins, Flags
<1> QED
  BY <1>6, <1>7, <1>8 DEF Sets, u

\* What an answer with rows makes of the objects.
Filled(c) == [r \in DOMAIN obj \cup DOMAIN FreshObj(c) |->
                IF r \in DOMAIN obj THEN obj[r] ELSE FreshObj(c)[r]]

(* The objects of the rows of the answer are new. *)
LEMMA FilledIs ==
  ASSUME Base, NEW c \in Records, NEW l, NEW cs,
         \A s \in Slots : cs[s] # None => cs[s].list \in Arrays,
         \A k \in DOMAIN l.rows : \/ \E L \in Arrays : \E j \in DOMAIN L.rows : l.rows[k] = L.rows[j]
                                  \/ \E j \in DOMAIN c.data : l.rows[k] = Fresh(c)[j]
  PROVE  /\ \A r \in Refs(l, cs) : r \in DOMAIN Filled(c) /\ Filled(c)[r] \in Objects
         /\ \A r \in DOMAIN obj : Filled(c)[r] = obj[r]
         /\ \A j \in DOMAIN c.data : Fresh(c)[j] \in DOMAIN FreshObj(c)
         /\ Changes(l, Filled(c), cs)
<1>1. /\ FreshObj(c) \in [{Fresh(c)[k] : k \in DOMAIN c.data} -> Objects]
      /\ \A k \in DOMAIN c.data : Fresh(c)[k] \notin DOMAIN obj
  BY FreshIs DEF Base
<1>2. \A r \in Refs(l, cs) : r \in DOMAIN obj \/ \E k \in DOMAIN l.rows : r = l.rows[k]
  BY RefsAre
<1>3. \A j \in DOMAIN c.data : Fresh(c)[j] \in DOMAIN FreshObj(c)
  BY <1>1
<1>4. \A k \in DOMAIN l.rows : l.rows[k] \in DOMAIN obj \/ l.rows[k] \in DOMAIN FreshObj(c)
  BY <1>3, RowsHeld
<1>5. \A r \in Refs(l, cs) : r \in DOMAIN obj \cup DOMAIN FreshObj(c)
  BY <1>2, <1>4
<1>6. \A r \in DOMAIN obj : Filled(c)[r] = obj[r]
  BY DEF Filled
<1>7. \A r \in DOMAIN obj \cup DOMAIN FreshObj(c) : Filled(c)[r] \in Objects
  BY <1>1, RowsHeld DEF Filled
<1>8. DOMAIN Filled(c) = DOMAIN obj \cup DOMAIN FreshObj(c)
  BY DEF Filled
<1>9. Changes(l, Filled(c), cs)
  BY <1>6 DEF Changes
<1> QED
  BY <1>3, <1>5, <1>6, <1>7, <1>8, <1>9

(* The rows of the lists that answers make: of the list that was held, or new. *)
LEMMA RowsFrom ==
  ASSUME Base, NEW s \in InFlight
  PROVE  LET c == calls[s]
             Old(l) == \A k \in DOMAIN l.rows : \E j \in DOMAIN c.list.rows : l.rows[k] = c.list.rows[j]
             Either(l) == \A k \in DOMAIN l.rows : \/ \E j \in DOMAIN c.list.rows : l.rows[k] = c.list.rows[j]
                                                   \/ \E j \in DOMAIN c.data : l.rows[k] = Fresh(c)[j]
         IN  /\ Either(Replaced(c)) /\ Either(Spliced(c)) /\ Either(Pushed(c))
             /\ Old(Copied(c)) /\ Old(Cut(c))
<1> DEFINE c == calls[s]
           q == c.list.rows
           new == Fresh(c)
<1>1. c \in Records /\ TypeOK
  BY ArraysAreLists DEF Base
<1>2. q \in Seq(Pairs) /\ new \in Seq(Pairs) /\ DOMAIN new = DOMAIN c.data
  BY <1>1, FreshIs DEF Records, Lists
<1>3. /\ Len(q) \in Nat /\ DOMAIN q = 1..Len(q) /\ Len(new) \in Nat /\ DOMAIN new = 1..Len(new)
  BY <1>2, SeqIs
<1>4. /\ Replaced(c).rows = new /\ Copied(c).rows = q
      /\ Spliced(c).rows = SpliceAt(q, c.from * c.size, new) /\ c.from * c.size \in Nat
      /\ Pushed(c).rows = q \o new
  BY PlacedAreLists
<1> DEFINE Either(r) == \A k \in DOMAIN r : \/ \E j \in DOMAIN q : r[k] = q[j]
                                            \/ \E j \in DOMAIN new : r[k] = new[j]
<1>5. Either(new) /\ \A k \in DOMAIN q : \E j \in DOMAIN q : q[k] = q[j]
  OBVIOUS
<1>6. Either(SpliceAt(q, c.from * c.size, new))
  <2> DEFINE at == c.from * c.size
             a == IF at < Len(q) THEN at ELSE Len(q)
             r == SpliceAt(q, at, new)
  <2>1. at \in Nat
    BY <1>4
  <2> HIDE DEF at, q, new
  <2>2. /\ \A k \in DOMAIN r : r[k] = IF k > a /\ k <= a + Len(new) THEN new[k - a] ELSE q[k]
        /\ \A k \in DOMAIN r : k > a /\ k <= a + Len(new) => k - a \in DOMAIN new
        /\ \A k \in DOMAIN r : ~(k > a /\ k <= a + Len(new)) => k \in DOMAIN q
    BY <1>2, <2>1, SpliceIs
  <2> HIDE DEF r, a
  <2>3. Either(r)
    BY <2>2
  <2> QED
    BY <2>3 DEF r, at, q, new
<1>7. Either(q \o new)
  <2> DEFINE r == q \o new
  <2> HIDE DEF q, new
  <2>1. /\ r \in Seq(Pairs) /\ Len(r) = Len(q) + Len(new)
        /\ \A i \in 1..(Len(q) + Len(new)) : r[i] = IF i <= Len(q) THEN q[i] ELSE new[i - Len(q)]
    BY <1>2, ConcatProperties
  <2>2. DOMAIN r = 1..(Len(q) + Len(new))
    BY <2>1, SeqIs
  <2>3. \A k \in DOMAIN r : IF k <= Len(q) THEN k \in DOMAIN q ELSE k - Len(q) \in DOMAIN new
    BY <1>3, <2>2
  <2> HIDE DEF r
  <2>4. Either(r)
    BY <2>1, <2>2, <2>3
  <2> QED
    BY <2>4 DEF r, q, new
<1>8. \A k \in DOMAIN Cut(c).rows : \E j \in DOMAIN q : Cut(c).rows[k] = q[j]
  <2>1. CASE Cut(c) = Copied(c)
    BY <1>4, <1>5, <2>1
  <2>2. CASE Cut(c) # Copied(c)
    BY <2>2, CutIs
  <2> QED
    BY <2>1, <2>2
<1>9. Either(Replaced(c).rows) /\ Either(Spliced(c).rows) /\ Either(Pushed(c).rows)
  <2> HIDE DEF Either, q, new
  <2> QED
    BY <1>4, <1>5, <1>6, <1>7
<1>10. \A k \in DOMAIN Copied(c).rows : \E j \in DOMAIN q : Copied(c).rows[k] = q[j]
  BY <1>4, <1>5
<1> HIDE DEF c
<1> QED
  BY <1>2, <1>8, <1>9, <1>10, Zenon DEF c


\* The list a page is placed in.
Place1(c, l) ==
  IF c.from = 0 THEN l = Replaced(c)
                ELSE l = Spliced(c) \/ (view \notin BerryViews /\ l = Pushed(c))

(* The state beside the list, when a page has come. *)
Turned(x, n, p, v) == [ui EXCEPT ![Flag] = x, !.count = n, !.page = p, !.order = v]
(* The state beside the list is of the right kind when a page has come. *)
LEMMA LoadedUi ==
  ASSUME Base, NEW x \in BOOLEAN, NEW n \in Nat, NEW p \in Nat, p >= First, NEW v \in {"all", "some"},
         x => view \notin BerryViews
  PROVE  LET w == Turned(x, n, p, v)
         IN  UiFits(w) /\ w[Flag] = x /\ \A flag \in Flags : flag # Flag => w[flag] = ui[flag]
<1>1. ui \in States /\ UiFits(ui)
  BY UiIs DEF UiFits
<1>2. CASE view \in BerryViews
  <2> DEFINE u == [ui EXCEPT !.searching = x, !.count = n, !.page = p, !.order = v]
  <2>1. Flag = "searching" /\ Flags = {"loading", "searching"}
    BY <1>2 DEF Flag, Flags
  <2>2. ui \in States
    BY <1>1
  <2>3. u \in States /\ u.searching = x /\ u.loading = ui.loading /\ u.page = p /\ u.size = ui.size
    BY <2>2 DEF States
  <2> HIDE DEF u
  <2>4. UiFits(u)
    BY <1>1, <2>3 DEF UiFits
  <2>5. u = Turned(x, n, p, v)
    BY <2>1, Zenon DEF u, Turned
  <2>6. UiFits(u) /\ u[Flag] = x /\ \A flag \in Flags : flag # Flag => u[flag] = ui[flag]
    BY <2>1, <2>3, <2>4
  <2> QED
    BY <2>5, <2>6, Zenon
<1>3. CASE view \notin BerryViews
  <2> DEFINE u == [ui EXCEPT !.loading = x, !.count = n, !.page = p, !.order = v]
  <2>1. Flag = "loading" /\ Flags = {"loading", "searching"}
    BY <1>3 DEF Flag, Flags
  <2>2. ui \in States
    BY <1>1
  <2>3. u \in States /\ u.searching = ui.searching /\ u.loading = x /\ u.page = p /\ u.size = ui.size
    BY <2>2 DEF States
  <2> HIDE DEF u
  <2>4. UiFits(u)
    BY <1>1, <1>3, <2>3 DEF UiFits
  <2>5. u = Turned(x, n, p, v)
    BY <2>1, Zenon DEF u, Turned
  <2>6. UiFits(u) /\ u[Flag] = x /\ \A flag \in Flags : flag # Flag => u[flag] = ui[flag]
    BY <2>1, <2>3, <2>4
  <2> QED
    BY <2>5, <2>6, Zenon
<1> QED
  BY <1>2, <1>3

(* A page that has come. *)
LEMMA LoadIs ==
  ASSUME Base, NEW s \in Slots, NEW count \in Nat, NEW placed, LoadAnswered(s, Flag, placed, count)
  PROVE  LET c == calls[s]
         IN  /\ Served(s, "load") /\ s \in InFlight /\ c \in Records /\ c.act = "none"
             /\ \E u, n : /\ UiFits(u)
                          /\ u[Flag] => n # None
                          /\ \A flag \in Flags : flag # Flag => u[flag] = ui[flag]
                          /\ n = None \/ (Load(n) /\ n.list = Unneeded)
                          /\ SettleSwitched(s, IF c.ok THEN placed ELSE list, Filled(c), u, n,
                                            c.ok /\ c.from > 0 /\ hist.moved, SwitchedBy(c))
<1> DEFINE c == calls[s]
           again == c.clear /\ ui.order # "all"
           x == again /\ view = "air/tokens"
           m == IF c.ok THEN count ELSE ui.count
           p == IF c.then >= 0 THEN c.then ELSE ui.page
           v == IF c.clear THEN "all" ELSE ui.order
           u == [ui EXCEPT ![Flag] = x, !.count = m, !.page = p, !.order = v]
           n == IF again THEN [Loading(0) EXCEPT !.base = "all", !.page = u.page] ELSE None
<1>1. Served(s, "load") /\ s \in InFlight
  BY DEF LoadAnswered, Served, InFlight
<1>2. c \in Records /\ Fits(c) /\ c.op = "load"
  BY <1>1, ArraysAreLists DEF Base, Served
<1>3. ui \in States
  BY UiIs DEF UiFits
<1>4. SettleSwitched(s, IF c.ok THEN placed ELSE list, Filled(c), u, n,
                     c.ok /\ c.from > 0 /\ hist.moved, SwitchedBy(c))
  <2>1. CASE Flag = "loading"
    <3>1. /\ [ui EXCEPT !.loading = x].count = ui.count
          /\ [ui EXCEPT !.loading = x, !.count = m].page = ui.page
          /\ [ui EXCEPT !.loading = x, !.count = m, !.page = p].order = ui.order
      BY <1>3 DEF States
    <3> QED
      BY <2>1, <3>1, Zenon DEF LoadAnswered, Filled
  <2>2. CASE Flag = "searching"
    <3>1. /\ [ui EXCEPT !.searching = x].count = ui.count
          /\ [ui EXCEPT !.searching = x, !.count = m].page = ui.page
          /\ [ui EXCEPT !.searching = x, !.count = m, !.page = p].order = ui.order
      BY <1>3 DEF States
    <3> QED
      BY <2>2, <3>1, Zenon DEF LoadAnswered, Filled
  <2> QED
    BY <2>1, <2>2 DEF Flag
<1>5. x \in BOOLEAN /\ (x => view \notin BerryViews) /\ m \in Nat /\ v \in {"all", "some"}
  <2>1. view = "air/tokens" => view \notin BerryViews
    BY DEF BerryViews
  <2> QED
    BY <2>1, UiIs
<1>6. p \in Nat /\ p >= First
  <2>1. c.then \in Nat \cup {-1} /\ (c.then = -1 \/ c.then >= First) /\ First \in {0, 1}
    BY <1>2 DEF Records, Fits, First
  <2>2. ui.page \in Nat /\ ui.page >= First
    BY UiIs DEF UiFits
  <2> QED
    BY <2>1, <2>2
<1> HIDE DEF x, m, p, v
<1>7. UiFits(u) /\ u[Flag] = x /\ \A flag \in Flags : flag # Flag => u[flag] = ui[flag]
  <2>1. u = Turned(x, m, p, v)
    BY Zenon DEF Turned
  <2> HIDE DEF u
  <2>2. LET w == Turned(x, m, p, v)
        IN  UiFits(w) /\ w[Flag] = x /\ \A flag \in Flags : flag # Flag => w[flag] = ui[flag]
    BY <1>5, <1>6, LoadedUi
  <2> QED
    BY <2>1, <2>2
<1> HIDE DEF u
<1> DEFINE f == Loading(0)
           g == [f EXCEPT !.base = "all"]
           e == [g EXCEPT !.page = u.page]
<1>8. Load(e) /\ e.list = Unneeded /\ e = [Loading(0) EXCEPT !.base = "all", !.page = u.page]
  <2>1. u.page \in Nat
    BY <1>7 DEF UiFits, States
  <2>2. Load(f) /\ f.from = 0
    BY LoadForms
  <2>3. Load(g)
    BY <2>2, LoadForms
  <2>4. Load(e)
    BY <2>1, <2>3, LoadForms
  <2>5. f \in Records /\ g \in Records
    BY <2>2, <2>3 DEF Load
  <2>6. f.list = Unneeded
    BY <2>2 DEF Load
  <2>7. e.list = g.list /\ g.list = f.list
    <3> HIDE DEF f
    <3>1. g.list = f.list
      BY <2>5 DEF Records
    <3> HIDE DEF g
    <3>2. e.list = g.list
      BY <2>5 DEF Records
    <3> QED
      BY <3>1, <3>2
  <2>8. e = [Loading(0) EXCEPT !.base = "all", !.page = u.page]
    BY Zenon
  <2> QED
    BY <2>4, <2>6, <2>7, <2>8
<1> HIDE DEF e
<1>11. n = None \/ (Load(n) /\ n.list = Unneeded)
  BY <1>8
<1>9. u[Flag] => n # None
  <2>1. Load(e) => e # None
    BY NoneIsNoRecord DEF Load
  <2>2. x => again
    BY DEF x
  <2>3. again => n = e
    BY <1>8
  <2> HIDE DEF n, again
  <2> QED
    BY <1>7, <1>8, <2>1, <2>2, <2>3
<1> HIDE DEF n
<1>10. c.act = "none"
  BY <1>2 DEF Fits
<1> QED
  BY <1>1, <1>2, <1>4, <1>7, <1>9, <1>10, <1>11

(* The list of an answer that was not refused. *)
LEMMA NewListIs ==
  ASSUME Base, NEW s \in InFlight, NEW l, calls[s].phase = "served",
         \/ l = Replaced(calls[s])
         \/ l = Spliced(calls[s])
         \/ l = Pushed(calls[s]) /\ view \notin BerryViews /\ calls[s].from # 0
         \/ l = Copied(calls[s]) \/ l = Cut(calls[s])
  PROVE  /\ l \in Lists /\ l.gen # -1
         /\ \A L \in Arrays : L.gen = l.gen => Grown(l, L)
<1> DEFINE c == calls[s]
<1>1. CASE l # Pushed(c)
  <2>1. l \in Lists /\ l.gen = NewGen
    BY <1>1, PlacedAreLists, CutIs
  <2> QED
    BY <2>1, NewArray
<1>2. CASE l = Pushed(c) /\ view \notin BerryViews /\ c.from # 0
  <2>1. c \in Records /\ Fits(c) /\ c.list \in Arrays
    BY ArraysAreLists DEF Base, Arrays
  <2>2. l \in Lists /\ l.gen = c.list.gen /\ l.rows = c.list.rows \o Fresh(c) /\ c.list.gen # -1
    BY <1>2, <2>1, PlacedAreLists DEF Fits
  <2>3. c.list.rows \in Seq(Pairs) /\ Fresh(c) \in Seq(Pairs)
    BY <2>1, FreshIs DEF Base, Records, Lists
  <2> DEFINE q == c.list.rows
             new == Fresh(c)
             r == q \o new
  <2>4. Len(q) \in Nat /\ DOMAIN q = 1..Len(q) /\ Len(new) \in Nat
    BY <2>3, SeqIs
  <2>5. \A k \in DOMAIN q : k \in DOMAIN r /\ r[k] = q[k]
    <3> HIDE DEF q, new
    <3>1. /\ r \in Seq(Pairs) /\ Len(r) = Len(q) + Len(new)
          /\ \A i \in 1..(Len(q) + Len(new)) : r[i] = IF i <= Len(q) THEN q[i] ELSE new[i - Len(q)]
      BY <2>3, ConcatProperties DEF q, new
    <3>2. DOMAIN r = 1..(Len(q) + Len(new))
      BY <3>1, SeqIs
    <3> HIDE DEF r
    <3> QED
      BY <2>4, <3>1, <3>2
  <2>6. Grown(l, c.list)
    BY <2>2, <2>5 DEF Grown
  <2>7. \A L \in Arrays : L.gen = l.gen => L = c.list
    BY <2>1, <2>2 DEF Base, OneArray
  <2> QED
    BY <2>2, <2>6, <2>7
<1>3. CASE l = Pushed(c) /\ ~(view \notin BerryViews /\ c.from # 0)
  <2>1. l \in Lists /\ l.gen = NewGen
    BY <1>3, PlacedAreLists, CutIs
  <2> QED
    BY <2>1, NewArray
<1> QED
  BY <1>1, <1>2, <1>3


\* What an answer leaves of the lists, and of the calls that go on.
Placements(c) ==
  IF c.from = 0 THEN {Replaced(c)}
  ELSE {Spliced(c)} \cup (IF view \in BerryViews THEN {} ELSE {Pushed(c)})

\* The call in slot s goes on as n; a disturbance is noted.
Going(s, n) == [calls EXCEPT ![s] = n]
Disturbed(d) == [hist EXCEPT !.disturbed = @ \/ d]

(* A handler goes on with its answer. *)
LEMMA AnswerSets ==
  ASSUME Base, NEW s \in InFlight, NEW l, l \in Lists, l.gen # -1,
         \A L \in Arrays : L.gen = l.gen => Grown(l, L), Made(l),
         NEW n, n = None \/ (n \in Records /\ Fits(n) /\ n.list \in Arrays /\ n.phase = "asked"),
         NEW o, \A r \in Refs(l, Going(s, n)) : o[r] \in Objects,
         Changes(l, o, Going(s, n)),
         NEW u, UiFits(u),
         \A flag \in Flags : u[flag] => \/ n # None /\ Ends(n, flag)
                                        \/ ui[flag] /\ ~Ends(calls[s], flag),
         NEW d \in BOOLEAN
  PROVE  Sets(l, o, u, Going(s, n), Disturbed(d))
<1> DEFINE cs == Going(s, n)
           h == Disturbed(d)
<1>1. s \in Slots
  BY DEF InFlight
<1>2. /\ cs \in [Slots -> Records \cup {None}] /\ cs[s] = n
      /\ \A t \in Slots \ {s} : cs[t] = calls[t]
      /\ \A t \in Slots : cs[t] # None => cs[t].list \in Arrays /\ Fits(cs[t])
  BY <1>1, SlotIs DEF Going
<1>3. Remembers(h)
  BY HistIs DEF Disturbed
<1> HIDE DEF cs, h
<1>4. (\A r \in Refs(l, cs) : o[r] \in Objects) /\ Changes(l, o, cs)
  BY DEF cs
<1>5. Prepared(l, o, u, cs, h)
  <2>1. h \in History
    BY <1>3 DEF Remembers
  <2> QED
    BY <1>2, <1>4, <2>1 DEF Prepared
<1>6. Goes(cs)
  BY <1>2 DEF Goes
<1>7. Spins(ui, calls) => Spins(u, cs)
  <2> SUFFICES ASSUME Spins(ui, calls), NEW flag \in Flags, u[flag]
               PROVE  \E t \in Slots : cs[t] # None /\ Ends(cs[t], flag)
    BY DEF Spins
  <2>1. CASE n # None /\ Ends(n, flag)
    BY <1>1, <1>2, <2>1
  <2>2. CASE ui[flag] /\ ~Ends(calls[s], flag)
    <3>1. PICK t \in Slots : calls[t] # None /\ Ends(calls[t], flag)
      BY <2>2 DEF Spins
    <3>2. t # s
      BY <2>2, <3>1
    <3> QED
      BY <1>2, <3>1, <3>2
  <2> QED
    BY <2>1, <2>2
<1>8. Sets(l, o, u, cs, h)
  BY <1>3, <1>4, <1>5, <1>6, <1>7 DEF Sets
<1> QED
  BY <1>8 DEF cs, h

(* A page has come. *)
LEMMA LoadSets ==
  ASSUME Base, NEW s \in Slots, NEW count \in Nat, NEW placed, placed \in Placements(calls[s]),
         LoadAnswered(s, Flag, placed, count)
  PROVE  \E l, u, n, d, sw :
           /\ Served(s, "load") /\ s \in InFlight
           /\ l = (IF calls[s].ok THEN placed ELSE list) /\ d \in BOOLEAN
           /\ n = None \/ (n \in Records /\ n.list = Unneeded /\ n.phase = "asked")
           /\ SettleSwitched(s, l, Filled(calls[s]), u, n, d, sw)
           /\ Sets(l, Filled(calls[s]), u, Going(s, n), Disturbed(d))
<1> DEFINE c == calls[s]
           l == IF c.ok THEN placed ELSE list
           d == c.ok /\ c.from > 0 /\ hist.moved
<1>1. Served(s, "load") /\ s \in InFlight /\ c \in Records /\ c.act = "none"
  BY LoadIs
<1>2. PICK u, n : /\ UiFits(u)
                  /\ u[Flag] => n # None
                  /\ \A flag \in Flags : flag # Flag => u[flag] = ui[flag]
                  /\ n = None \/ (Load(n) /\ n.list = Unneeded)
                  /\ SettleSwitched(s, l, Filled(c), u, n, d, SwitchedBy(c))
  BY LoadIs
<1>3. c.op = "load" /\ c.phase = "served"
  BY <1>1 DEF Served
<1>4. c.ok \in BOOLEAN /\ c.from \in Nat /\ hist.moved \in BOOLEAN
  BY <1>1 DEF Records, Base, TypeOK, History
<1>5. d \in BOOLEAN
  BY <1>4
<1>6. Load(n) => n \in Records /\ Fits(n) /\ n.list \in Arrays /\ n.phase = "asked" /\ n.op = "load"
  BY LoadForms DEF NewCall, Arrays
<1>7. /\ placed \in {Replaced(c), Spliced(c), Pushed(c)}
      /\ placed = Pushed(c) => (view \notin BerryViews /\ c.from # 0)
                             \/ placed \in {Replaced(c), Spliced(c)}
  BY DEF Placements
<1>8. /\ l \in Lists /\ l.gen # -1
      /\ \A L \in Arrays : L.gen = l.gen => Grown(l, L)
  <2>1. CASE ~c.ok
    BY <2>1, ListStays
  <2>2. CASE c.ok
    BY <1>1, <1>3, <1>7, <2>2, NewListIs
  <2> QED
    BY <2>1, <2>2
<1>9. Made(l)
  <2>1. CASE ~c.ok
    BY <2>1 DEF Made
  <2>2. CASE c.ok
    BY <1>1, <1>3, <2>2 DEF Made, Placements
  <2> QED
    BY <2>1, <2>2
<1> HIDE DEF d
<1> DEFINE cs == Going(s, n)
<1>10. \A t \in Slots : cs[t] # None => cs[t].list \in Arrays
  BY <1>1, <1>2, <1>6, SlotIs DEF Going, InFlight
<1>11. \A k \in DOMAIN l.rows : \/ \E L \in Arrays : \E j \in DOMAIN L.rows : l.rows[k] = L.rows[j]
                               \/ \E j \in DOMAIN c.data : l.rows[k] = Fresh(c)[j]
  <2>1. CASE ~c.ok
    BY <2>1 DEF Arrays
  <2>2. CASE c.ok
    <3>1. c.list \in Arrays
      BY <1>1 DEF Arrays
    <3>2. \A k \in DOMAIN placed.rows : \/ \E j \in DOMAIN c.list.rows : placed.rows[k] = c.list.rows[j]
                                        \/ \E j \in DOMAIN c.data : placed.rows[k] = Fresh(c)[j]
      <4>1. /\ \A k \in DOMAIN Replaced(c).rows : \/ \E j \in DOMAIN c.list.rows : Replaced(c).rows[k] = c.list.rows[j]
                                                  \/ \E j \in DOMAIN c.data : Replaced(c).rows[k] = Fresh(c)[j]
            /\ \A k \in DOMAIN Spliced(c).rows : \/ \E j \in DOMAIN c.list.rows : Spliced(c).rows[k] = c.list.rows[j]
                                                 \/ \E j \in DOMAIN c.data : Spliced(c).rows[k] = Fresh(c)[j]
            /\ \A k \in DOMAIN Pushed(c).rows : \/ \E j \in DOMAIN c.list.rows : Pushed(c).rows[k] = c.list.rows[j]
                                                \/ \E j \in DOMAIN c.data : Pushed(c).rows[k] = Fresh(c)[j]
        BY <1>1, RowsFrom
      <4>2. CASE placed = Replaced(c)
        BY <4>1, <4>2
      <4>3. CASE placed = Spliced(c)
        BY <4>1, <4>3
      <4>4. CASE placed = Pushed(c)
        BY <4>1, <4>4
      <4> QED
        BY <1>7, <4>2, <4>3, <4>4
    <3> QED
      BY <2>2, <3>1, <3>2
  <2> QED
    BY <2>1, <2>2
<1> HIDE DEF l
<1>12. (\A r \in Refs(l, cs) : Filled(c)[r] \in Objects) /\ Changes(l, Filled(c), cs)
  <2> HIDE DEF cs, c
  <2>1. c \in Records
    BY <1>1
  <2> QED
    BY <1>10, <1>11, <2>1, FilledIs
<1>13. \A flag \in Flags : u[flag] => \/ n # None /\ Ends(n, flag)
                                      \/ ui[flag] /\ ~Ends(c, flag)
  <2> SUFFICES ASSUME NEW flag \in Flags, u[flag]
               PROVE  \/ n # None /\ Ends(n, flag)
                      \/ ui[flag] /\ ~Ends(c, flag)
    OBVIOUS
  <2>1. CASE flag = Flag
    <3>1. n # None /\ n.op = "load"
      BY <1>2, <1>6, <2>1
    <3> QED
      BY <2>1, <3>1 DEF Ends, Flag
  <2>2. CASE flag # Flag
    <3>1. ui[flag]
      BY <1>2, <2>2
    <3>2. view \in BerryViews => flag = "loading" /\ ~ui.loading
      BY <2>2, UiIs DEF UiFits, Flag, Flags
    <3>3. view \notin BerryViews => flag = "searching"
      BY <2>2 DEF Flag, Flags
    <3> QED
      BY <1>1, <1>3, <3>1, <3>2, <3>3 DEF Ends
  <2> QED
    BY <2>1, <2>2
<1>14. Sets(l, Filled(c), u, cs, Disturbed(d))
  BY <1>1, <1>2, <1>5, <1>6, <1>8, <1>9, <1>12, <1>13, AnswerSets
<1> QED
  <2>1. n = None \/ (n \in Records /\ n.list = Unneeded /\ n.phase = "asked")
    BY <1>2, <1>6
  <2>2. l = (IF calls[s].ok THEN placed ELSE list)
    BY DEF l
  <2> QED
    BY <1>1, <1>2, <1>5, <1>14, <2>1, <2>2


(***************************************************************************)
(* The shapes of a step: which list, which objects and which calls it      *)
(* leaves, and when it counts as disturbed.                                *)
(***************************************************************************)
Begun(l, o, cs, h) ==
  \E s \in Slots : \E c :
    /\ calls[s] = None /\ NewCall(c) /\ l = list /\ o = obj /\ cs = Going(s, c)
    /\ ~h.disturbed => \A t \in InFlight : Apart(c, calls[t])
Stood(l, o, cs) == l = list /\ o = obj /\ cs = calls
Ordered(l, o, cs) == l = Sorted /\ list.rows # <<>> /\ o = obj /\ cs = calls
Paged(l, o, cs) ==
  \E s \in InFlight : \E n, placed :
    LET c == calls[s]
    IN  /\ Served(s, "load") /\ cs = Going(s, n) /\ o = Filled(c)
        /\ n = None \/ (n \in Records /\ n.list = Unneeded /\ n.phase = "asked")
        /\ placed \in Placements(c) /\ l = (IF c.ok THEN placed ELSE list)
Found(l, o, cs) ==
  \E s \in InFlight :
    LET c == calls[s]
    IN  /\ Served(s, "search") /\ cs = Going(s, None) /\ o = Filled(c)
        /\ l = (IF c.ok THEN Replaced(c) ELSE list)
Settled(l, o, cs) ==
  \E s \in InFlight :
    LET c == calls[s]
    IN  /\ Served(s, "manage") /\ cs = Going(s, None)
        /\ l \in {list, Copied(c)}
        /\ \/ o = obj /\ (c.ok /\ c.act \in Changing => view \in BerryViews)
           \/ view \notin BerryViews /\ c.id # 0 /\ Touches(c, o)
Shortened(l, o, cs) ==
  \E s \in InFlight :
    LET c == calls[s]
    IN  /\ Served(s, "manage") /\ cs = Going(s, None) /\ o = obj
        /\ view \in AirViews /\ c.act = "delete" /\ l = Cut(c)
Shape(l, o, cs, h) ==
  \/ Begun(l, o, cs, h) \/ Stood(l, o, cs) \/ Ordered(l, o, cs) \/ Paged(l, o, cs)
  \/ Found(l, o, cs) \/ Settled(l, o, cs) \/ Shortened(l, o, cs)
  \/ view \notin BerryViews => h.disturbed

\* A step of a table, with what it sets and its shape.
Step(l, o, u, cs, sw, h) ==
  /\ Become(l, o, u, cs, sw, h) /\ UNCHANGED db
  /\ Sets(l, o, u, cs, h) /\ Shape(l, o, cs, h)

(* Making a call is a step of a known shape. *)
LEMMA AsksStep ==
  ASSUME Base, Asks
  PROVE  \E l, o, u, cs, sw, h : Step(l, o, u, cs, sw, h)
<1>1. PICK c, u : /\ Begin(c, u) /\ NewCall(c) /\ UiFits(u)
                  /\ \A flag \in Flags : u[flag] => ui[flag] \/ Ends(c, flag)
  BY DEF Asks
<1> DEFINE s == Least(Slots \ InFlight)
           d == \E t \in InFlight : ~Apart(c, calls[t])
           h == [hist EXCEPT !.asked = @ + 1, !.disturbed = @ \/ d]
<1>2. s \in Slots /\ calls[s] = None
  BY <1>1, FreeSlot DEF Begin
<1>3. Become(list, obj, u, Going(s, c), switch, h) /\ UNCHANGED db
  BY <1>1, Zenon DEF Begin, Going
<1>4. d \in BOOLEAN
  OBVIOUS
<1>5. Remembers(h) /\ h.disturbed = (hist.disturbed \/ d)
  <2> HIDE DEF d
  <2> QED
    BY <1>4, HistIs
<1> HIDE DEF h
<1>6. Sets(list, obj, u, Going(s, c), h)
  <2> HIDE DEF s
  <2> QED
    BY <1>1, <1>2, <1>5, AskSets DEF Going
<1>7. Begun(list, obj, Going(s, c), h)
  <2> HIDE DEF s
  <2>1. ~h.disturbed => \A t \in InFlight : Apart(c, calls[t])
    BY <1>5
  <2> QED
    BY <1>1, <1>2, <2>1 DEF Begun
<1> QED
  BY <1>3, <1>6, <1>7 DEF Step, Shape

(* Choosing a page or an order is a step of a known shape. *)
LEMMA StandsStep ==
  ASSUME Base, Stands
  PROVE  \E l, o, u, cs, sw, h : Step(l, o, u, cs, sw, h)
<1>1. PICK u : /\ UiFits(u) /\ \A flag \in Flags : u[flag] = ui[flag]
               /\ UNCHANGED db
               /\ \E h \in {hist, [hist EXCEPT !.asked = @ + 1]} :
                    Become(list, obj, u, calls, switch, h)
  BY DEF Stands
<1>2. PICK h \in {hist, [hist EXCEPT !.asked = @ + 1]} : Become(list, obj, u, calls, switch, h)
  BY <1>1
<1>3. Remembers(h)
  BY <1>2, HistIs
<1>4. Sets(list, obj, u, calls, h)
  BY <1>1, <1>3, StandSets
<1>5. Stood(list, obj, calls)
  BY DEF Stood
<1> QED
  BY <1>1, <1>2, <1>4, <1>5 DEF Step, Shape

(* Sorting is a step of a known shape. *)
LEMMA SortsStep ==
  ASSUME Base, Sorts
  PROVE  \E l, o, u, cs, sw, h : Step(l, o, u, cs, sw, h)
<1> DEFINE h == [hist EXCEPT !.asked = @ + 1]
           u == [ui EXCEPT !.loading = FALSE]
<1>1. list.rows # <<>> /\ UNCHANGED db /\ Become(Sorted, obj, u, calls, switch, h)
  BY DEF Sorts
<1>2. Remembers(h)
  BY HistIs
<1> HIDE DEF h
<1>3. Sets(Sorted, obj, u, calls, h)
  BY <1>1, <1>2, SortSets
<1>4. Ordered(Sorted, obj, calls)
  BY <1>1 DEF Ordered
<1> QED
  BY <1>1, <1>3, <1>4 DEF Step, Shape

(* The answer to a call for a page is a step of a known shape. *)
LEMMA LoadsStep ==
  ASSUME Base, Loads
  PROVE  \E l, o, u, cs, sw, h : Step(l, o, u, cs, sw, h)
<1>1. PICK s \in Slots, count \in Nat :
        \/ LoadAnswered(s, Flag,
             IF calls[s].from = 0 THEN Replaced(calls[s]) ELSE Spliced(calls[s]), count)
        \/ /\ view \notin BerryViews
           /\ LoadAnswered(s, Flag,
                IF calls[s].from = 0 THEN Replaced(calls[s]) ELSE Pushed(calls[s]), count)
  BY DEF Loads
<1>2. PICK placed : placed \in Placements(calls[s]) /\ LoadAnswered(s, Flag, placed, count)
  <2>1. CASE LoadAnswered(s, Flag,
          IF calls[s].from = 0 THEN Replaced(calls[s]) ELSE Spliced(calls[s]), count)
    BY <2>1 DEF Placements
  <2>2. CASE view \notin BerryViews
             /\ LoadAnswered(s, Flag,
                  IF calls[s].from = 0 THEN Replaced(calls[s]) ELSE Pushed(calls[s]), count)
    BY <2>2 DEF Placements
  <2> QED
    BY <1>1, <2>1, <2>2
<1>3. PICK l, u, n, d, sw :
           /\ Served(s, "load") /\ s \in InFlight
           /\ l = (IF calls[s].ok THEN placed ELSE list) /\ d \in BOOLEAN
           /\ n = None \/ (n \in Records /\ n.list = Unneeded /\ n.phase = "asked")
           /\ SettleSwitched(s, l, Filled(calls[s]), u, n, d, sw)
           /\ Sets(l, Filled(calls[s]), u, Going(s, n), Disturbed(d))
  BY <1>2, LoadSets
<1>4. Become(l, Filled(calls[s]), u, Going(s, n), sw, Disturbed(d)) /\ UNCHANGED db
  BY <1>3, Zenon DEF SettleSwitched, Going, Disturbed
<1>5. Paged(l, Filled(calls[s]), Going(s, n))
  BY <1>2, <1>3 DEF Paged
<1> QED
  BY <1>3, <1>4, <1>5 DEF Step, Shape


(* An answer ends, or goes on with, a call: what the state is then made of. *)
LEMMA SettleForm ==
  ASSUME NEW s, NEW l, NEW o, NEW u, NEW n, NEW d, NEW sw
  PROVE  /\ SettleSwitched(s, l, o, u, n, d, sw) <=>
              Become(l, o, u, Going(s, n), sw, Disturbed(d)) /\ UNCHANGED db
         /\ Settle(s, l, o, u, n, d) <=>
              Become(l, o, u, Going(s, n), switch, Disturbed(d)) /\ UNCHANGED db
  BY Zenon DEF Settle, SettleSwitched, Going, Disturbed

(* The answer to a search is a step of a known shape. *)
LEMMA FindsStep ==
  ASSUME Base, Finds
  PROVE  \E l, o, u, cs, sw, h : Step(l, o, u, cs, sw, h)
<1>1. PICK s \in Slots, count \in Nat : FoundAnswered(s, First, count)
  BY DEF Finds
<1> DEFINE c == calls[s]
           m == IF c.ok THEN count ELSE ui.count
           p == IF c.ok THEN First ELSE ui.page
           l == IF c.ok THEN Replaced(c) ELSE list
           u == [ui EXCEPT !.searching = FALSE, !.count = m, !.page = p]
<1>2. Served(s, "search") /\ s \in InFlight
  BY <1>1 DEF FoundAnswered, Served, InFlight
<1>3. c \in Records /\ Fits(c) /\ c.op = "search" /\ c.phase = "served"
  BY <1>2, ArraysAreLists DEF Base, Served
<1>4. ui \in States
  BY UiIs DEF UiFits
<1>5. Settle(s, l, Filled(c), u, None, FALSE)
  <2>1. /\ [ui EXCEPT !.searching = FALSE].count = ui.count
        /\ [ui EXCEPT !.searching = FALSE, !.count = m].page = ui.page
    BY <1>4 DEF States
  <2> QED
    BY <1>1, <2>1, Zenon DEF FoundAnswered, Filled
<1>6. m \in Nat /\ p \in Nat /\ p >= First
  <2>1. First \in {0, 1}
    BY DEF First
  <2>2. ui.page \in Nat /\ ui.page >= First /\ ui.count \in Nat
    BY UiIs DEF UiFits
  <2> QED
    BY <2>1, <2>2
<1> HIDE DEF m, p
<1>7. UiFits(u) /\ ~u.searching /\ u.loading = ui.loading
  <2> DEFINE u1 == [ui EXCEPT !.searching = FALSE]
             u2 == [u1 EXCEPT !.count = m]
             u3 == [u2 EXCEPT !.page = p]
  <2>1. UiFits(ui)
    BY UiIs
  <2>2. UiFits(u1) /\ u1.searching = FALSE /\ u1.loading = ui.loading
    <3>1. \A x \in BOOLEAN :
              LET n == [ui EXCEPT !.searching = x]
              IN  UiFits(n) /\ n.searching = x /\ n.loading = ui.loading
      BY <2>1, UiForms
    <3> QED
      BY <3>1
  <2> HIDE DEF u1
  <2>3. UiFits(u2) /\ u2.searching = u1.searching /\ u2.loading = u1.loading
    <3>1. \A x \in Nat :
              LET n == [u1 EXCEPT !.count = x]
              IN  UiFits(n) /\ n.searching = u1.searching /\ n.loading = u1.loading
      BY <2>2, UiForms
    <3> QED
      BY <1>6, <3>1
  <2> HIDE DEF u2
  <2>4. UiFits(u3) /\ u3.searching = u2.searching /\ u3.loading = u2.loading
    <3>1. \A x \in Nat : x >= First =>
              LET n == [u2 EXCEPT !.page = x]
              IN  UiFits(n) /\ n.searching = u2.searching /\ n.loading = u2.loading
      BY <2>3, UiForms
    <3> QED
      BY <1>6, <3>1
  <2>5. u3 = u
    BY Zenon DEF u1, u2
  <2> HIDE DEF u3, u
  <2> QED
    BY <2>2, <2>3, <2>4, <2>5
<1> HIDE DEF u
<1>8. /\ l \in Lists /\ l.gen # -1
      /\ \A L \in Arrays : L.gen = l.gen => Grown(l, L)
  <2>1. CASE ~c.ok
    BY <2>1, ListStays
  <2>2. CASE c.ok
    BY <1>2, <1>3, <2>2, NewListIs
  <2> QED
    BY <2>1, <2>2
<1>9. Made(l)
  <2>1. CASE ~c.ok
    BY <2>1 DEF Made
  <2>2. CASE c.ok
    BY <1>2, <1>3, <2>2 DEF Made
  <2> QED
    BY <2>1, <2>2
<1> DEFINE cs == Going(s, None)
<1>10. \A t \in Slots : cs[t] # None => cs[t].list \in Arrays
  BY <1>2, SlotIs DEF Going, InFlight
<1>11. \A k \in DOMAIN l.rows : \/ \E L \in Arrays : \E j \in DOMAIN L.rows : l.rows[k] = L.rows[j]
                               \/ \E j \in DOMAIN c.data : l.rows[k] = Fresh(c)[j]
  <2>1. CASE ~c.ok
    BY <2>1 DEF Arrays
  <2>2. CASE c.ok
    <3>1. c.list \in Arrays
      BY <1>2 DEF Arrays
    <3>2. \A k \in DOMAIN Replaced(c).rows : \/ \E j \in DOMAIN c.list.rows : Replaced(c).rows[k] = c.list.rows[j]
                                             \/ \E j \in DOMAIN c.data : Replaced(c).rows[k] = Fresh(c)[j]
      BY <1>2, RowsFrom
    <3> QED
      BY <2>2, <3>1, <3>2
  <2> QED
    BY <2>1, <2>2
<1>12. Found(l, Filled(c), cs)
  BY <1>2 DEF Found
<1> HIDE DEF l
<1>13. (\A r \in Refs(l, cs) : Filled(c)[r] \in Objects) /\ Changes(l, Filled(c), cs)
  <2> HIDE DEF cs, c
  <2>1. c \in Records
    BY <1>3
  <2> QED
    BY <1>10, <1>11, <2>1, FilledIs
<1>14. \A flag \in Flags : u[flag] => ui[flag] /\ ~Ends(c, flag)
  BY <1>3, <1>7 DEF Flags, Ends
<1>15. Sets(l, Filled(c), u, cs, Disturbed(FALSE))
  BY <1>2, <1>7, <1>8, <1>9, <1>13, <1>14, AnswerSets
<1>16. Become(l, Filled(c), u, cs, switch, Disturbed(FALSE)) /\ UNCHANGED db
  BY <1>5, SettleForm
<1> QED
  BY <1>12, <1>15, <1>16 DEF Step, Shape

(* The objects a step leaves when it changes none, or only that of one row. *)
LEMMA RefsHeld ==
  ASSUME Base, NEW s \in InFlight, NEW l \in {list, Copied(calls[s]), Cut(calls[s])},
         NEW n, n = None \/ (n \in Records /\ Fits(n) /\ n.list \in Arrays)
  PROVE  \A r \in Refs(l, Going(s, n)) : r \in DOMAIN obj /\ obj[r] \in Objects
<1> DEFINE c == calls[s]
           cs == Going(s, n)
<1>1. \A t \in Slots : cs[t] # None => cs[t].list \in Arrays
  BY SlotIs DEF Going, InFlight
<1>2. \A k \in DOMAIN l.rows : \E L \in Arrays : \E j \in DOMAIN L.rows : l.rows[k] = L.rows[j]
  <2>1. CASE l = list
    BY <2>1 DEF Arrays
  <2>2. CASE l \in {Copied(c), Cut(c)}
    <3>1. c.list \in Arrays
      BY DEF Arrays
    <3>2. /\ \A k \in DOMAIN Copied(c).rows : \E j \in DOMAIN c.list.rows : Copied(c).rows[k] = c.list.rows[j]
          /\ \A k \in DOMAIN Cut(c).rows : \E j \in DOMAIN c.list.rows : Cut(c).rows[k] = c.list.rows[j]
      BY RowsFrom
    <3>3. CASE l = Copied(c)
      BY <3>1, <3>2, <3>3
    <3>4. CASE l = Cut(c)
      BY <3>1, <3>2, <3>4
    <3> QED
      BY <2>2, <3>3, <3>4
  <2> QED
    BY <2>1, <2>2
<1>3. \A r \in Refs(l, cs) : r \in DOMAIN obj \/ \E k \in DOMAIN l.rows : r = l.rows[k]
  BY <1>1, RefsAre
<1> QED
  BY <1>2, <1>3, RowsHeld

(* The answer to an operation is a step of a known shape. *)
LEMMA SettlesStep ==
  ASSUME Base, Settles
  PROVE  \E l, o, u, cs, sw, h : Step(l, o, u, cs, sw, h)
<1>1. PICK s \in Slots : \E l, o, u, sw :
    LET c == calls[s]
    IN  /\ Served(s, "manage") /\ SettleSwitched(s, l, o, u, None, FALSE, sw)
        /\ l \in {list, Copied(c)} /\ (view \in BerryViews => l = list)
        /\ \/ o = obj /\ (c.ok /\ c.act \in Changing => view \in BerryViews)
           \/ view \notin BerryViews /\ c.id # 0 /\ Touches(c, o)
        /\ UiFits(u)
        /\ u.searching => ui.searching /\ c.act # "balances"
        /\ u.loading => ui.loading /\ view # "air/tokens"
  BY DEF Settles
<1> DEFINE c == calls[s]
<1>2. PICK l, o, u, sw :
        /\ Served(s, "manage") /\ SettleSwitched(s, l, o, u, None, FALSE, sw)
        /\ l \in {list, Copied(c)} /\ (view \in BerryViews => l = list)
        /\ \/ o = obj /\ (c.ok /\ c.act \in Changing => view \in BerryViews)
           \/ view \notin BerryViews /\ c.id # 0 /\ Touches(c, o)
        /\ UiFits(u)
        /\ u.searching => ui.searching /\ c.act # "balances"
        /\ u.loading => ui.loading /\ view # "air/tokens"
  BY <1>1
<1>3. s \in InFlight /\ c \in Records /\ c.op = "manage" /\ c.phase = "served"
  BY <1>2, ArraysAreLists DEF Base, Served, InFlight
<1> DEFINE cs == Going(s, None)
<1>4. /\ l \in Lists /\ l.gen # -1
      /\ \A L \in Arrays : L.gen = l.gen => Grown(l, L)
  <2>1. CASE l = list
    BY <2>1, ListStays
  <2>2. CASE l = Copied(c)
    BY <1>3, <2>2, NewListIs
  <2> QED
    BY <1>2, <2>1, <2>2
<1>5. Made(l)
  <2>1. CASE l = list
    BY <2>1 DEF Made
  <2>2. CASE l # list
    BY <1>2, <1>3, <2>2 DEF Made
  <2> QED
    BY <2>1, <2>2
<1>6. Settled(l, o, cs)
  BY <1>2, <1>3 DEF Settled
<1>7. \A r \in Refs(l, cs) : r \in DOMAIN obj /\ obj[r] \in Objects
  BY <1>2, <1>3, RefsHeld
<1>8. (\A r \in Refs(l, cs) : o[r] \in Objects) /\ Changes(l, o, cs)
  <2>1. CASE o = obj
    BY <1>7, <2>1 DEF Changes
  <2>2. CASE o # obj
    <3>1. view \notin BerryViews /\ c.id # 0 /\ Touches(c, o)
      BY <1>2, <2>2
    <3>2. PICK new \in Objects : o = [obj EXCEPT ![Pointed(c)] = new]
      BY <3>1 DEF Touches
    <3>3. Pointed(c)[1] = c.id
      BY <1>2, <3>1, PointedIs
    <3>4. \A r \in DOMAIN obj : o[r] = IF r = Pointed(c) THEN new ELSE obj[r]
      BY <3>2
    <3>5. cs[s] = None
      BY <1>3 DEF Going, InFlight, Base, TypeOK
    <3> QED
      BY <1>3, <1>7, <3>3, <3>4, <3>5 DEF Changes
  <2> QED
    BY <2>1, <2>2
<1>9. \A flag \in Flags : u[flag] => ui[flag] /\ ~Ends(c, flag)
  BY <1>2, <1>3 DEF Flags, Ends
<1> HIDE DEF cs
<1>10. Sets(l, o, u, Going(s, None), Disturbed(FALSE))
  BY <1>2, <1>3, <1>4, <1>5, <1>8, <1>9, AnswerSets DEF cs
<1>11. Become(l, o, u, Going(s, None), sw, Disturbed(FALSE)) /\ UNCHANGED db
  BY <1>2, SettleForm
<1> QED
  BY <1>6, <1>10, <1>11 DEF Step, Shape, cs

(* Taking a row off the list is a step of a known shape. *)
LEMMA CutsStep ==
  ASSUME Base, Cuts
  PROVE  \E l, o, u, cs, sw, h : Step(l, o, u, cs, sw, h)
<1>1. PICK s \in Slots : \E u, sw :
    LET c == calls[s]
    IN  /\ Served(s, "manage") /\ SettleSwitched(s, Cut(c), obj, u, None, FALSE, sw)
        /\ view \in AirViews /\ c.act = "delete"
        /\ UiFits(u)
        /\ u.searching => ui.searching
        /\ u.loading => ui.loading /\ view # "air/tokens"
  BY DEF Cuts
<1> DEFINE c == calls[s]
           l == Cut(c)
<1>2. PICK u, sw :
        /\ Served(s, "manage") /\ SettleSwitched(s, l, obj, u, None, FALSE, sw)
        /\ view \in AirViews /\ c.act = "delete"
        /\ UiFits(u)
        /\ u.searching => ui.searching
        /\ u.loading => ui.loading /\ view # "air/tokens"
  BY <1>1
<1>3. s \in InFlight /\ c \in Records /\ c.op = "manage" /\ c.phase = "served"
  BY <1>2, ArraysAreLists DEF Base, Served, InFlight
<1> DEFINE cs == Going(s, None)
<1>4. /\ l \in Lists /\ l.gen # -1
      /\ \A L \in Arrays : L.gen = l.gen => Grown(l, L)
  BY <1>3, NewListIs
<1>5. Made(l)
  BY <1>2, <1>3 DEF Made
<1>6. Shortened(l, obj, cs)
  BY <1>2, <1>3 DEF Shortened
<1>7. \A r \in Refs(l, cs) : r \in DOMAIN obj /\ obj[r] \in Objects
  BY <1>3, RefsHeld
<1> HIDE DEF l
<1>8. (\A r \in Refs(l, cs) : obj[r] \in Objects) /\ Changes(l, obj, cs)
  BY <1>7 DEF Changes
<1>9. \A flag \in Flags : u[flag] => ui[flag] /\ ~Ends(c, flag)
  <2>1. view \notin BerryViews
    BY <1>2, ViewsApart
  <2> QED
    BY <1>2, <1>3, <2>1 DEF Flags, Ends
<1> HIDE DEF cs
<1>10. Sets(l, obj, u, Going(s, None), Disturbed(FALSE))
  BY <1>2, <1>3, <1>4, <1>5, <1>8, <1>9, AnswerSets DEF cs
<1>11. Become(l, obj, u, Going(s, None), sw, Disturbed(FALSE)) /\ UNCHANGED db
  BY <1>2, SettleForm
<1> QED
  BY <1>6, <1>10, <1>11 DEF Step, Shape, cs


(* An operation that goes on with loading a page is a step of a known shape. *)
LEMMA ReloadsStep ==
  ASSUME Base, Reloads
  PROVE  \E l, o, u, cs, sw, h : Step(l, o, u, cs, sw, h)
<1>1. PICK s \in Slots, from \in Nat, d \in BOOLEAN :
        /\ Served(s, "manage") /\ (view \notin BerryViews => d)
        /\ Settle(s, list, obj, [ui EXCEPT ![Flag] = TRUE], Reloading(calls[s], from), d)
  BY DEF Reloads
<1> DEFINE c == calls[s]
           u == [ui EXCEPT ![Flag] = TRUE]
           n == Reloading(c, from)
<1>2. s \in InFlight /\ c \in Records /\ c.op = "manage" /\ c.phase = "served" /\ Fits(c)
  BY <1>1, ArraysAreLists DEF Base, Served, InFlight
<1>3. n \in Records /\ Fits(n) /\ n.phase = "asked" /\ n.op = "load" /\ n.list \in Arrays /\ n # None
  <2>1. view \notin BerryViews => c.list.gen # -1
    BY <1>2 DEF Fits
  <2> HIDE DEF n
  <2>2. n \in Records /\ Fits(n) /\ n.phase = "asked" /\ n.op = "load" /\ n.list \in Arrays
    BY <1>2, <2>1, ReloadingForm DEF n
  <2> QED
    BY <2>2, NoneIsNoRecord
<1>4. UiFits(u) /\ \A flag \in Flags : flag # Flag => u[flag] = ui[flag]
  <2>1. UiFits(ui)
    BY UiIs
  <2>2. CASE view \in BerryViews
    <3>1. \A x \in BOOLEAN :
              LET m == [ui EXCEPT !.searching = x]
              IN  UiFits(m) /\ m.searching = x /\ m.loading = ui.loading
      BY <2>1, UiForms
    <3>2. UiFits([ui EXCEPT !.searching = TRUE]) /\ [ui EXCEPT !.searching = TRUE].loading = ui.loading
      BY <3>1
    <3>3. u = [ui EXCEPT !.searching = TRUE] /\ Flag = "searching"
      BY <2>2, Zenon DEF Flag
    <3> HIDE DEF u
    <3> QED
      BY <3>2, <3>3 DEF Flags
  <2>3. CASE view \notin BerryViews
    <3>1. LET m == [ui EXCEPT !.loading = TRUE] IN UiFits(m) /\ m.searching = ui.searching
      BY <2>1, <2>3, UiForms
    <3>2. UiFits([ui EXCEPT !.loading = TRUE]) /\ [ui EXCEPT !.loading = TRUE].searching = ui.searching
      BY <3>1
    <3>3. u = [ui EXCEPT !.loading = TRUE] /\ Flag = "loading"
      BY <2>3, Zenon DEF Flag
    <3> HIDE DEF u
    <3> QED
      BY <3>2, <3>3 DEF Flags
  <2> QED
    BY <2>2, <2>3
<1> HIDE DEF u, n
<1>5. /\ list \in Lists /\ list.gen # -1
      /\ \A L \in Arrays : L.gen = list.gen => Grown(list, L)
  BY ListStays
<1>6. Made(list)
  BY DEF Made
<1> DEFINE cs == Going(s, n)
<1>7. \A r \in Refs(list, cs) : r \in DOMAIN obj /\ obj[r] \in Objects
  BY <1>2, <1>3, RefsHeld
<1>8. (\A r \in Refs(list, cs) : obj[r] \in Objects) /\ Changes(list, obj, cs)
  BY <1>7 DEF Changes
<1>9. \A flag \in Flags : u[flag] => \/ n # None /\ Ends(n, flag)
                                     \/ ui[flag] /\ ~Ends(c, flag)
  <2> SUFFICES ASSUME NEW flag \in Flags, u[flag]
               PROVE  \/ n # None /\ Ends(n, flag)
                      \/ ui[flag] /\ ~Ends(c, flag)
    OBVIOUS
  <2>1. CASE flag = Flag
    BY <1>3, <2>1 DEF Ends, Flag
  <2>2. CASE flag # Flag
    <3>1. ui[flag]
      BY <1>4, <2>2
    <3>2. view \in BerryViews => flag = "loading" /\ ~ui.loading
      BY <2>2, UiIs DEF UiFits, Flag, Flags
    <3>3. view \notin BerryViews => flag = "searching"
      BY <2>2 DEF Flag, Flags
    <3> QED
      BY <1>2, <3>1, <3>2, <3>3 DEF Ends
  <2> QED
    BY <2>1, <2>2
<1> HIDE DEF cs
<1>10. Sets(list, obj, u, Going(s, n), Disturbed(d))
  BY <1>2, <1>3, <1>4, <1>5, <1>6, <1>8, <1>9, AnswerSets DEF cs
<1>11. Become(list, obj, u, Going(s, n), switch, Disturbed(d)) /\ UNCHANGED db
  BY <1>1, SettleForm, Zenon DEF u, n
<1>12. view \notin BerryViews => Disturbed(d).disturbed
  <2>1. Disturbed(d).disturbed = (hist.disturbed \/ d)
    BY HistIs DEF Disturbed
  <2> QED
    BY <1>1, <2>1
<1> QED
  BY <1>10, <1>11, <1>12 DEF Step, Shape

(* Refreshing the logs of berry is a step of a known shape. *)
LEMMA RestartsStep ==
  ASSUME Base, Restarts
  PROVE  \E l, o, u, cs, sw, h : Step(l, o, u, cs, sw, h)
<1> DEFINE u == [[ui EXCEPT !.searching = TRUE] EXCEPT !.order = "all", !.page = 0]
           cs == [s \in Slots |-> CASE s = Least(Slots) -> Loading(0)
                               [] s = Least(Slots \ {Least(Slots)}) -> [Loading(0) EXCEPT !.base = "all"]
                               [] OTHER -> None]
           h == [hist EXCEPT !.asked = @ + 1, !.disturbed = TRUE]
<1>1. view \in BerryViews /\ B!LogsRefresh
  BY DEF Restarts, BerryViews
<1>2. Become(list, obj, u, cs, switch, h) /\ UNCHANGED db /\ B!Quiet
  <2> DEFINE bu == [B!Searching EXCEPT !.order = "all", !.page = 0]
             bs == [s \in Slots |-> CASE s = B!Least(Slots) -> B!Loading(0)
                               [] s = B!Least(Slots \ {B!Least(Slots)}) -> [B!Loading(0) EXCEPT !.base = "all"]
                               [] OTHER -> B!None]
  <2>1. B!Become(list, obj, bu, bs, switch, h) /\ UNCHANGED db /\ B!Quiet
    BY <1>1, Zenon DEF B!LogsRefresh
  <2>2. bu = u
    BY Zenon DEF B!Searching
  <2>3. bs = cs
    <3>1. B!Least(Slots) = Least(Slots) /\ B!Loading(0) = Loading(0) /\ B!None = None
      BY WordsB
    <3>2. B!Least(Slots \ {Least(Slots)}) = Least(Slots \ {Least(Slots)})
      BY WordsB
    <3>3. ASSUME NEW a, NEW b, NEW d, NEW e, a = Least(Slots), b = Least(Slots \ {a}),
            d = Loading(0), e = None
          PROVE  cs = [s \in Slots |-> CASE s = a -> d [] s = b -> [d EXCEPT !.base = "all"] [] OTHER -> e]
      BY <3>3
    <3> HIDE DEF cs
    <3> QED
      BY <3>1, <3>2, <3>3
  <2> HIDE DEF bu, bs, u, cs, h
  <2> QED
    BY <2>1, <2>2, <2>3, StepsB, Zenon
<1>3. InFlight = {}
  BY <1>2, WordsB, Zenon DEF B!Quiet
<1>4. Load(Loading(0)) /\ Load([Loading(0) EXCEPT !.base = "all"])
  <2>1. Load(Loading(0))
    BY LoadForms
  <2> QED
    BY <2>1, LoadForms
<1>5. \A c : Load(c) => c \in Records /\ Fits(c) /\ c.list \in Arrays /\ c.phase = "asked"
        /\ c.op = "load" /\ c # None
  BY LoadForms, NoneIsNoRecord DEF NewCall, Arrays
<1>6. Least(Slots) \in Slots
  BY TableAssumption, LeastOf
<1> DEFINE f == Loading(0)
           g == [Loading(0) EXCEPT !.base = "all"]
<1>7. /\ cs \in [Slots -> Records \cup {None}]
      /\ \A s \in Slots : cs[s] = None \/ Load(cs[s])
      /\ Load(cs[Least(Slots)])
  <2> HIDE DEF f, g
  <2>1. Load(f) /\ Load(g)
    BY <1>4 DEF f, g
  <2> DEFINE e == [s \in Slots |-> CASE s = Least(Slots) -> f
                               [] s = Least(Slots \ {Least(Slots)}) -> g
                               [] OTHER -> None]
  <2>2. \A s \in Slots : e[s] = f \/ e[s] = g \/ e[s] = None
    OBVIOUS
  <2>3. e[Least(Slots)] = f \/ e[Least(Slots)] = g
    BY <1>6
  <2>4. e = cs
    BY Zenon DEF f, g
  <2>5. DOMAIN e = Slots /\ e = [s \in Slots |-> e[s]]
    OBVIOUS
  <2> HIDE DEF e, cs
  <2>6. \A s \in Slots : e[s] = None \/ Load(e[s])
    BY <2>1, <2>2
  <2>7. \A s \in Slots : e[s] \in Records \cup {None}
    BY <1>5, <2>6
  <2>8. e \in [Slots -> Records \cup {None}]
    BY <2>5, <2>7
  <2> QED
    BY <2>1, <2>3, <2>4, <2>6, <2>8
<1>8. UiFits(u) /\ u.searching
  <2> DEFINE u1 == [ui EXCEPT !.searching = TRUE]
             u2 == [u1 EXCEPT !.order = "all"]
             u3 == [u2 EXCEPT !.page = 0]
  <2>1. UiFits(u1) /\ u1.searching = TRUE
    <3>1. \A x \in BOOLEAN :
              LET n == [ui EXCEPT !.searching = x]
              IN  UiFits(n) /\ n.searching = x /\ n.loading = ui.loading
      BY UiIs, UiForms
    <3> QED
      BY <3>1
  <2> HIDE DEF u1
  <2>2. UiFits(u2) /\ u2.searching = u1.searching
    <3>1. \A v \in {"all", "some"} :
              LET n == [u1 EXCEPT !.order = v]
              IN  UiFits(n) /\ n.searching = u1.searching /\ n.loading = u1.loading
      BY <2>1, UiForms
    <3> QED
      BY <3>1
  <2> HIDE DEF u2
  <2>3. UiFits(u3) /\ u3.searching = u2.searching
    <3>1. \A x \in Nat : x >= First =>
              LET n == [u2 EXCEPT !.page = x]
              IN  UiFits(n) /\ n.searching = u2.searching /\ n.loading = u2.loading
      BY <2>2, UiForms
    <3>2. 0 \in Nat /\ 0 >= First
      BY <1>1 DEF First
    <3> QED
      BY <3>1, <3>2
  <2>4. u3 = u
    BY Zenon DEF u1, u2
  <2> HIDE DEF u3, u
  <2> QED
    BY <2>1, <2>2, <2>3, <2>4
<1>9. Remembers(h) /\ h.disturbed
  <2>1. hist \in History
    BY DEF Base, TypeOK
  <2>2. hist.asked + 1 \in Nat
    BY <2>1 DEF History
  <2> DEFINE m == hist.asked + 1
             e == [hist EXCEPT !.asked = m, !.disturbed = TRUE]
  <2>3. e = h
    BY Zenon
  <2> HIDE DEF m, h
  <2>4. /\ e \in History /\ e.moved = hist.moved
        /\ e.threw = hist.threw /\ e.disturbed
    BY <2>1, <2>2 DEF History, m
  <2> QED
    BY <2>3, <2>4 DEF Remembers
<1> HIDE DEF u, cs, h
<1>10. Prepared(list, obj, u, cs, h)
  <2>1. \A s \in Slots : cs[s] # None => cs[s].list \in Arrays /\ Fits(cs[s])
    BY <1>5, <1>7
  <2>2. \A r \in Refs(list, cs) : obj[r] \in Objects
    <3>1. \A r \in Refs(list, cs) : r \in DOMAIN obj \/ \E k \in DOMAIN list.rows : r = list.rows[k]
      BY <2>1, RefsAre
    <3> QED
      BY <3>1, RowsHeld DEF Arrays
  <2>3. h \in History
    BY <1>9 DEF Remembers
  <2> QED
    BY <1>7, <1>8, <2>1, <2>2, ListStays DEF Prepared
<1>11. Made(list) /\ Changes(list, obj, cs)
  BY DEF Made, Changes
<1>12. Goes(cs)
  BY <1>5, <1>7 DEF Goes
<1>13. Spins(u, cs)
  <2>1. ~u.loading
    BY <1>1, <1>8 DEF UiFits
  <2>2. cs[Least(Slots)] # None /\ Ends(cs[Least(Slots)], "searching")
    BY <1>1, <1>5, <1>7 DEF Ends
  <2> QED
    BY <1>6, <2>1, <2>2 DEF Spins, Flags
<1> QED
  BY <1>2, <1>9, <1>10, <1>11, <1>12, <1>13 DEF Step, Shape, Sets

(* What each step of a table does. *)
LEMMA WorkIs ==
  ASSUME Base, D!DefaultNext \/ A!AirNext \/ B!BerryNext
  PROVE  \E l, o, u, cs, sw, h : Step(l, o, u, cs, sw, h)
<1>1. Works
  BY DefaultWorks, AirWorks, BerryWorks
<1> QED
  BY <1>1, AsksStep, StandsStep, SortsStep, LoadsStep, FindsStep, SettlesStep, CutsStep,
     ReloadsStep, RestartsStep DEF Works


(* A table mounts. *)
LEMMA MountsAre ==
  ASSUME NEW first, NEW loading, NEW searching, NEW size
  PROVE  /\ D!Mounting(first, loading, searching, size) <=> Mounting(first, loading, searching, size)
         /\ A!Mounting(first, loading, searching, size) <=> Mounting(first, loading, searching, size)
         /\ B!Mounting(first, loading, searching, size) <=> Mounting(first, loading, searching, size)
<1> DEFINE M(least, load, none) ==
      /\ db = [i \in Ids |-> IF i \notin Present THEN 0 ELSE IF i % 2 = 0 THEN 2 ELSE 1]
      /\ list = [rows |-> <<>>, base |-> "all", mixed |-> FALSE, gen |-> 0]
      /\ obj = [r \in {} |-> 0]
      /\ ui = [page |-> first, size |-> size, order |-> "all", count |-> PAGE,
               loading |-> loading, searching |-> searching]
      /\ switch = [i \in Ids |-> 0]
      /\ hist = [asked |-> 0, troubles |-> 0, moved |-> FALSE,
                 disturbed |-> FALSE, threw |-> FALSE]
      /\ calls = [s \in Slots |->
           IF s = least \/ view = "berry/logs"
           THEN [load EXCEPT !.size = PAGE, !.page = first] ELSE none]
<1>1. Mounting(first, loading, searching, size) <=> M(Least(Slots), Loading(0), None)
  BY Zenon DEF Mounting
<1>2. D!Mounting(first, loading, searching, size) <=> M(D!Least(Slots), D!Loading(0), D!None)
  BY Zenon DEF D!Mounting
<1>3. A!Mounting(first, loading, searching, size) <=> M(A!Least(Slots), A!Loading(0), A!None)
  BY Zenon DEF A!Mounting
<1>4. B!Mounting(first, loading, searching, size) <=> M(B!Least(Slots), B!Loading(0), B!None)
  BY Zenon DEF B!Mounting
<1>5. /\ D!Least(Slots) = Least(Slots) /\ D!Loading(0) = Loading(0) /\ D!None = None
      /\ A!Least(Slots) = Least(Slots) /\ A!Loading(0) = Loading(0) /\ A!None = None
      /\ B!Least(Slots) = Least(Slots) /\ B!Loading(0) = Loading(0) /\ B!None = None
  BY WordsD, WordsA, WordsB
<1> HIDE DEF M
<1> QED
  BY <1>1, <1>2, <1>3, <1>4, <1>5

(* A table that has just mounted: an empty list, one call for its rows, the spinner on. *)
LEMMA MountedFits ==
  ASSUME NEW first \in {0, 1}, NEW loading \in BOOLEAN, NEW searching \in BOOLEAN,
         NEW size \in {PAGE, 2 * PAGE}, Mounting(first, loading, searching, size),
         view \in DefaultViews \cup AirViews \cup BerryViews,
         first = First, view \notin AirViews => size = PAGE, view \in BerryViews => ~loading,
         loading \/ searching, view \in BerryViews <=> searching
  PROVE  /\ Base /\ Spins(ui, calls)
         /\ list.rows = <<>> /\ ~list.mixed /\ list.base = "all"
         /\ ~hist.moved /\ ~hist.disturbed
         /\ \A L \in Arrays : L = Unneeded \/ L = list
         /\ view \notin BerryViews => \A s, t \in InFlight : s = t
         /\ \A s \in InFlight : calls[s].phase = "asked" /\ calls[s].op = "load"
              /\ calls[s].list = Unneeded
<1> DEFINE n == [Loading(0) EXCEPT !.size = PAGE, !.page = first]
<1>1. /\ db = [i \in Ids |-> IF i \notin Present THEN 0 ELSE IF i % 2 = 0 THEN 2 ELSE 1]
      /\ list = [rows |-> <<>>, base |-> "all", mixed |-> FALSE, gen |-> 0]
      /\ obj = [r \in {} |-> 0]
      /\ ui = [page |-> first, size |-> size, order |-> "all", count |-> PAGE,
               loading |-> loading, searching |-> searching]
      /\ hist = [asked |-> 0, troubles |-> 0, moved |-> FALSE,
                 disturbed |-> FALSE, threw |-> FALSE]
      /\ calls = [s \in Slots |-> IF s = Least(Slots) \/ view = "berry/logs" THEN n ELSE None]
  BY Zenon DEF Mounting
<1>2. PAGE \in Nat \ {0}
  BY TableAssumption
<1>3. list \in Lists
  <2>1. <<>> \in Seq(Pairs)
    OBVIOUS
  <2> QED
    BY <1>1, <2>1 DEF Lists
<1>4. ui \in States /\ ui.page = first /\ ui.size = size /\ ui.order = "all" /\ ui.loading = loading
      /\ ui.searching = searching
  BY <1>1, <1>2 DEF States
<1>5. hist \in History /\ ~hist.moved /\ ~hist.disturbed
  BY <1>1 DEF History
<1>6. /\ n \in Records /\ n.list = Unneeded /\ n.op = "load" /\ n.phase = "asked" /\ n.act = "none"
      /\ n.base = "all" /\ n.from = 0 /\ n.size = PAGE /\ n.then = -1
  <2> DEFINE c == Call("load", 0, "none", 0, ui.order)
             g == [c EXCEPT !.list = Unneeded, !.page = 0]
             m == [g EXCEPT !.size = PAGE, !.page = first]
  <2>1. /\ c \in Records /\ c.op = "load" /\ c.act = "none" /\ c.from = 0 /\ c.base = "all"
        /\ c.then = -1 /\ c.phase = "asked"
    <3>1. "none" \in Actions /\ "load" \in {"load", "search", "manage"} /\ 0 \in Ids \cup {0}
          /\ ui.order \in {"all", "some", "found"} /\ ui.page \in Nat /\ ui.size \in {PAGE, 2 * PAGE}
      BY <1>2, <1>4 DEF Actions
    <3>2. <<>> \in Seq(Answers)
      OBVIOUS
    <3> QED
      BY <1>3, <1>4, <3>1, <3>2 DEF Call, Records
  <2>2. Loading(0) = g
    BY Zenon DEF Loading
  <2> HIDE DEF c
  <2>3. /\ g \in Records /\ g.list = Unneeded /\ g.op = "load" /\ g.act = "none" /\ g.from = 0
        /\ g.base = "all" /\ g.then = -1 /\ g.phase = "asked"
    BY <2>1, UnneededIs DEF Records
  <2> HIDE DEF g
  <2>4. /\ m \in Records /\ m.list = Unneeded /\ m.op = "load" /\ m.phase = "asked" /\ m.act = "none"
        /\ m.base = "all" /\ m.from = 0 /\ m.size = PAGE /\ m.then = -1
    <3> DEFINE e == [g EXCEPT !.size = PAGE]
    <3>1. /\ e \in Records /\ e.list = Unneeded /\ e.op = "load" /\ e.phase = "asked" /\ e.act = "none"
          /\ e.base = "all" /\ e.from = 0 /\ e.size = PAGE /\ e.then = -1
      BY <2>3 DEF Records
    <3>2. m = [e EXCEPT !.page = first]
      BY Zenon
    <3> HIDE DEF e, m
    <3>3. first \in Nat
      OBVIOUS
    <3> QED
      BY <3>1, <3>2, <3>3 DEF Records
  <2>5. m = n
    BY <2>2, Zenon
  <2> HIDE DEF m, n
  <2> QED
    BY <2>4, <2>5
<1> HIDE DEF n
<1>7. Least(Slots) \in Slots
  BY TableAssumption, LeastOf
<1>8. n # None
  BY <1>6, NoneIsNoRecord
<1>9. /\ calls \in [Slots -> Records \cup {None}] /\ calls[Least(Slots)] = n
      /\ \A s \in Slots : calls[s] = None \/ calls[s] = n
      /\ view # "berry/logs" => \A s \in Slots : calls[s] = n => s = Least(Slots)
  BY <1>1, <1>6, <1>7, <1>8
<1>10. \A s \in InFlight : calls[s] = n /\ s \in Slots
  BY <1>9 DEF InFlight
<1>11. list.rows = <<>> /\ ~list.mixed /\ list.base = "all" /\ list.gen = 0
  BY <1>1
<1>12. \A L \in Arrays : L = Unneeded \/ L = list
  BY <1>6, <1>10 DEF Arrays
<1>13. Refs(list, calls) = {}
  <2>1. {list.rows[k] : k \in DOMAIN list.rows} = {}
    BY <1>11
  <2>2. \A s \in {t \in Slots : calls[t] # None} : calls[s].list.rows = <<>>
    BY <1>6, <1>9, UnneededIs
  <2>3. \A s \in {t \in Slots : calls[t] # None} :
          {calls[s].list.rows[k] : k \in DOMAIN calls[s].list.rows} = {}
    BY <2>2
  <2> QED
    BY <2>1, <2>3 DEF Refs
<1>14. db \in [Ids -> 0..2]
  BY <1>1
<1>15. obj \in [Refs(list, calls) -> Objects]
  BY <1>1, <1>13
<1>16. TypeOK
  BY <1>3, <1>4, <1>5, <1>9, <1>14, <1>15 DEF TypeOK
<1>17. OneArray
  BY <1>11, <1>12, UnneededIs DEF OneArray
<1>18. UiFits(ui)
  BY <1>4 DEF UiFits, First
<1>19. \A s \in InFlight : Fits(calls[s])
  BY <1>6, <1>10 DEF Fits
<1>20. Base
  BY <1>11, <1>16, <1>17, <1>18, <1>19 DEF Base
<1>21. Spins(ui, calls)
  BY <1>4, <1>6, <1>7, <1>8, <1>9 DEF Spins, Ends, Flags
<1>22. view \notin BerryViews => \A s, t \in InFlight : s = t
  <2>1. "berry/logs" \in BerryViews
    BY DEF BerryViews
  <2> QED
    BY <1>9, <1>10, <2>1
<1> QED
  BY <1>5, <1>6, <1>10, <1>11, <1>12, <1>20, <1>21, <1>22

(* The state every table starts in. *)
LEMMA Starts ==
  ASSUME Init
  PROVE  /\ Base /\ Spins(ui, calls)
         /\ list.rows = <<>> /\ ~list.mixed /\ list.base = "all"
         /\ ~hist.moved /\ ~hist.disturbed
         /\ \A L \in Arrays : L = Unneeded \/ L = list
         /\ view \notin BerryViews => \A s, t \in InFlight : s = t
         /\ \A s \in InFlight : calls[s].phase = "asked" /\ calls[s].op = "load"
              /\ calls[s].list = Unneeded
<1>1. CASE D!DefaultInit
  <2>1. view \in DefaultViews /\ Mounting(1, TRUE, FALSE, PAGE)
    BY <1>1, MountsAre, Zenon DEF D!DefaultInit, D!DefaultViews, DefaultViews
  <2>2. view \notin AirViews /\ view \notin BerryViews
    BY <2>1, ViewsApart
  <2> QED
    BY <2>1, <2>2, MountedFits DEF First
<1>2. CASE A!AirInit
  <2>1. PICK size \in {PAGE, 2 * PAGE} : view \in AirViews /\ Mounting(1, TRUE, FALSE, size)
    BY <1>2, MountsAre, Zenon DEF A!AirInit, A!AirViews, AirViews
  <2>2. view \notin BerryViews
    BY <2>1, ViewsApart
  <2> QED
    BY <2>1, <2>2, MountedFits DEF First
<1>3. CASE B!BerryInit
  <2>1. view \in BerryViews /\ Mounting(0, FALSE, TRUE, PAGE)
    BY <1>3, MountsAre, Zenon DEF B!BerryInit, B!BerryViews, BerryViews
  <2>2. view \notin AirViews
    BY <2>1, ViewsApart
  <2> QED
    BY <2>1, <2>2, MountedFits DEF First
<1> QED
  BY <1>1, <1>2, <1>3 DEF Init


(***************************************************************************)
(* The server, lost calls and other administrators.                        *)
(***************************************************************************)

(* One row is given another status. *)
LEMMA RowSet ==
  ASSUME NEW f \in [Ids -> 0..2], NEW x, NEW v \in 0..2
  PROVE  /\ [f EXCEPT ![x] = v] \in [Ids -> 0..2]
         /\ \A i \in Ids : [f EXCEPT ![x] = v][i] = IF i = x THEN v ELSE f[i]
  OBVIOUS

(* What an operation does to the rows: no row comes back, and only the row of
   the operation changes, or those that are purged. *)
LEMMA AppliedIs ==
  ASSUME TypeOK, NEW c \in Records
  PROVE  /\ Applied(c) \in [Ids -> 0..2]
         /\ \A i \in Ids : db[i] = 0 => Applied(c)[i] = 0
         /\ \A i \in Ids : Applied(c)[i] # db[i] => c.act = "purge" \/ (c.act \in Changing /\ c.id = i)
         /\ c.id \in Ids /\ c.act = "delete" => Applied(c)[c.id] = 0
<1>1. db \in [Ids -> 0..2]
  BY DEF TypeOK
<1>2. CASE c.act = "delete"
  <2>1. Applied(c) = [db EXCEPT ![c.id] = 0]
    BY <1>2 DEF Applied
  <2>2. Applied(c) \in [Ids -> 0..2]
        /\ \A i \in Ids : Applied(c)[i] = IF i = c.id THEN (0) ELSE db[i]
    <3> DEFINE v == 0
    <3>1. v \in 0..2
      BY <1>1
    <3>2. Applied(c) = [db EXCEPT ![c.id] = v]
      BY <2>1, Zenon
    <3> DEFINE w == v
    <3>3. Applied(c) = [db EXCEPT ![c.id] = w] /\ w \in 0..2
      BY <3>1, <3>2
    <3> HIDE DEF w
    <3>4. Applied(c) \in [Ids -> 0..2] /\ \A i \in Ids : Applied(c)[i] = IF i = c.id THEN w ELSE db[i]
      BY <1>1, <3>3, RowSet
    <3> QED
      BY <3>4 DEF w
  <2>3. "delete" \in Changing
    BY DEF Changing
  <2> QED
    BY <1>2, <2>2, <2>3
<1>3. CASE c.act = "enable"
  <2>1. Applied(c) = [db EXCEPT ![c.id] = IF @ = 0 THEN 0 ELSE 1]
    BY <1>3 DEF Applied
  <2>2. Applied(c) \in [Ids -> 0..2]
        /\ \A i \in Ids : Applied(c)[i] = IF i = c.id THEN (IF db[i] = 0 THEN 0 ELSE 1) ELSE db[i]
    <3> DEFINE v == IF db[c.id] = 0 THEN 0 ELSE 1
    <3>1. v \in 0..2
      BY <1>1
    <3>2. Applied(c) = [db EXCEPT ![c.id] = v]
      BY <2>1, Zenon
    <3> DEFINE w == v
    <3>3. Applied(c) = [db EXCEPT ![c.id] = w] /\ w \in 0..2
      BY <3>1, <3>2
    <3> HIDE DEF w
    <3>4. Applied(c) \in [Ids -> 0..2] /\ \A i \in Ids : Applied(c)[i] = IF i = c.id THEN w ELSE db[i]
      BY <1>1, <3>3, RowSet
    <3> QED
      BY <3>4 DEF w
  <2>3. "enable" \in Changing
    BY DEF Changing
  <2> QED
    BY <1>3, <2>2, <2>3
<1>4. CASE c.act = "disable"
  <2>1. Applied(c) = [db EXCEPT ![c.id] = IF @ = 0 THEN 0 ELSE 2]
    BY <1>4 DEF Applied
  <2>2. Applied(c) \in [Ids -> 0..2]
        /\ \A i \in Ids : Applied(c)[i] = IF i = c.id THEN (IF db[i] = 0 THEN 0 ELSE 2) ELSE db[i]
    <3> DEFINE v == IF db[c.id] = 0 THEN 0 ELSE 2
    <3>1. v \in 0..2
      BY <1>1
    <3>2. Applied(c) = [db EXCEPT ![c.id] = v]
      BY <2>1, Zenon
    <3> DEFINE w == v
    <3>3. Applied(c) = [db EXCEPT ![c.id] = w] /\ w \in 0..2
      BY <3>1, <3>2
    <3> HIDE DEF w
    <3>4. Applied(c) \in [Ids -> 0..2] /\ \A i \in Ids : Applied(c)[i] = IF i = c.id THEN w ELSE db[i]
      BY <1>1, <3>3, RowSet
    <3> QED
      BY <3>4 DEF w
  <2>3. "disable" \in Changing
    BY DEF Changing
  <2> QED
    BY <1>4, <2>2, <2>3
<1>5. CASE c.act = "purge"
  <2>1. Applied(c) = [i \in Ids |-> IF db[i] = 2 THEN 0 ELSE db[i]]
    BY <1>5 DEF Applied
  <2> QED
    BY <1>1, <1>5, <2>1
<1>6. CASE c.act \notin {"delete", "enable", "disable", "purge"}
  <2>1. Applied(c) = db
    BY <1>6 DEF Applied
  <2> QED
    BY <1>1, <1>6, <2>1
<1> QED
  BY <1>2, <1>3, <1>4, <1>5, <1>6

(* An answer has the rows it lists, with their status. *)
LEMMA AnswerIs ==
  ASSUME TypeOK, NEW q \in Seq(Ids)
  PROVE  /\ Answer(q) \in Seq(Answers) /\ Len(Answer(q)) = Len(q) /\ DOMAIN Answer(q) = DOMAIN q
         /\ \A k \in DOMAIN q : Answer(q)[k].id = q[k] /\ Answer(q)[k].status = db[q[k]]
<1>1. /\ Len(q) \in Nat /\ DOMAIN q = 1..Len(q) /\ \A k \in DOMAIN q : q[k] \in Ids
      /\ db \in [Ids -> 0..2]
  BY SeqIs DEF TypeOK
<1>2. \A k \in DOMAIN q : [id |-> q[k], status |-> db[q[k]]] \in Answers
  BY <1>1 DEF Answers
<1>3. Answer(q) \in [1..Len(q) -> Answers]
  BY <1>1, <1>2 DEF Answer
<1>4. Answer(q) \in Seq(Answers) /\ Len(Answer(q)) = Len(q)
  BY <1>1, <1>3, FunctionIsSeq
<1>5. \A k \in DOMAIN q : Answer(q)[k] = [id |-> q[k], status |-> db[q[k]]]
  BY DEF Answer
<1>6. ASSUME NEW k \in DOMAIN q
      PROVE  Answer(q)[k].id = q[k] /\ Answer(q)[k].status = db[q[k]]
  <2> DEFINE x == q[k]
             y == db[x]
  <2>1. Answer(q)[k] = [id |-> x, status |-> y]
    BY <1>5
  <2> HIDE DEF x, y
  <2>2. Answer(q)[k].id = x /\ Answer(q)[k].status = y
    BY <2>1
  <2> QED
    BY <2>2 DEF x, y
<1> QED
  BY <1>1, <1>3, <1>4, <1>6

(* What comes back from the server. *)
LEMMA OutcomeIs ==
  ASSUME TypeOK, NEW c \in Records, Fits(c)
  PROVE  /\ Outcome(c) \in Seq(Answers)
         /\ c.op \in {"load", "search"} =>
              LET q == IF c.op = "load" THEN PageOf(Listing(c.base), c.from) ELSE Listing("found")
              IN  /\ q \in Seq(Rows) /\ q \in Seq(Ids) /\ Outcome(c) = Answer(q)
         /\ c.op = "manage" /\ c.id # 0 =>
              /\ 1 \in DOMAIN Outcome(c) /\ Len(Outcome(c)) = 1
              /\ Outcome(c)[1].id = c.id /\ Outcome(c)[1].status = Applied(c)[c.id]
         /\ c.op = "manage" /\ c.id = 0 => Outcome(c) = <<>>
<1>1. c.op \in {"load", "search", "manage"} /\ c.id \in Ids \cup {0} /\ c.from \in Nat
  BY DEF Records
<1>2. CASE c.op = "load"
  <2>1. c.base \in {"all", "some"}
    BY <1>2 DEF Fits
  <2> DEFINE l == Listing(c.base)
             q == PageOf(l, c.from)
  <2>2. l \in Seq(Rows) /\ l \in Seq(Ids)
    BY <2>1, ListingIs
  <2>3. q \in Seq(Rows) /\ q \in Seq(Ids)
    <3> HIDE DEF l
    <3> QED
      BY <1>1, <2>2, PageIs
  <2>4. Outcome(c) = Answer(q)
    BY <1>2 DEF Outcome
  <2> HIDE DEF q
  <2>5. Answer(q) \in Seq(Answers)
    BY <2>3, AnswerIs
  <2> QED
    BY <1>2, <2>3, <2>4, <2>5 DEF q
<1>3. CASE c.op = "search"
  <2> DEFINE q == Listing("found")
  <2>1. q \in Seq(Rows) /\ q \in Seq(Ids)
    BY ListingIs
  <2>2. Outcome(c) = Answer(q)
    BY <1>3 DEF Outcome
  <2> HIDE DEF q
  <2>3. Answer(q) \in Seq(Answers)
    BY <2>1, AnswerIs
  <2> QED
    BY <1>3, <2>1, <2>2, <2>3 DEF q
<1>4. CASE c.op = "manage"
  <2>1. CASE c.id = 0
    <3>1. Outcome(c) = <<>>
      BY <1>4, <2>1 DEF Outcome
    <3>2. <<>> \in Seq(Answers)
      OBVIOUS
    <3> QED
      BY <1>4, <2>1, <3>1, <3>2
  <2>2. CASE c.id # 0
    <3> DEFINE d == [id |-> c.id, status |-> Applied(c)[c.id]]
    <3>1. Outcome(c) = <<d>>
      BY <1>4, <2>2 DEF Outcome
    <3>2. Applied(c)[c.id] \in 0..2
      BY <1>1, <2>2, AppliedIs
    <3>3. d \in Answers /\ d.id = c.id /\ d.status = Applied(c)[c.id]
      BY <1>1, <2>2, <3>2 DEF Answers
    <3> HIDE DEF d
    <3>4. <<d>> \in Seq(Answers) /\ Len(<<d>>) = 1 /\ <<d>>[1] = d /\ 1 \in DOMAIN <<d>>
      BY <3>3
    <3> QED
      BY <1>4, <2>2, <3>1, <3>3, <3>4
  <2> QED
    BY <2>1, <2>2
<1> QED
  BY <1>1, <1>2, <1>3, <1>4

\* What the history is after an answer.
Served0(c, ok) ==
  [hist EXCEPT !.troubles = IF ok \/ (c.id # 0 /\ db[c.id] = 0) THEN @ ELSE @ + 1,
               !.moved = @ \/ \E i \in Ids : db[i] # 0 /\ db'[i] = 0]

(* What the server notes of an answer: rows that are gone move the listings. *)
LEMMA ServedHist ==
  ASSUME TypeOK, NEW c, NEW ok \in BOOLEAN, hist' = Served0(c, ok)
  PROVE  /\ hist' \in History
         /\ hist'.moved = (hist.moved \/ \E i \in Ids : db[i] # 0 /\ db'[i] = 0)
         /\ hist'.disturbed = hist.disturbed /\ hist'.threw = hist.threw
<1> DEFINE t == IF ok \/ (c.id # 0 /\ db[c.id] = 0) THEN hist.troubles ELSE hist.troubles + 1
           m == hist.moved \/ \E i \in Ids : db[i] # 0 /\ db'[i] = 0
           e == [hist EXCEPT !.troubles = t, !.moved = m]
<1>1. hist \in History /\ hist.troubles \in Nat /\ hist.moved \in BOOLEAN
  BY DEF TypeOK, History
<1>2. t \in Nat /\ m \in BOOLEAN
  BY <1>1
<1>3. e = hist'
  <2>1. [hist EXCEPT !.troubles = t].moved = hist.moved
    <3> HIDE DEF t
    <3> QED
      BY <1>1 DEF History
  <2> QED
    BY <2>1, Zenon DEF Served0
<1> HIDE DEF t, m
<1>4. /\ e \in History /\ e.moved = m /\ e.disturbed = hist.disturbed
      /\ e.threw = hist.threw
  BY <1>1, <1>2 DEF History
<1> HIDE DEF e
<1> QED
  BY <1>3, <1>4, Zenon DEF m

(* The answer to a call is there. *)
LEMMA ServeIs ==
  ASSUME Base, NEW s \in Slots, Serve(s)
  PROVE  /\ s \in InFlight /\ calls[s].phase = "asked" /\ calls[s] \in Records /\ Fits(calls[s])
         /\ InFlight' = InFlight
         /\ \A t \in Slots : t # s => calls'[t] = calls[t]
         /\ UNCHANGED <<view, list, obj, ui, switch>>
         /\ LET c == calls[s]  n == calls'[s]
            IN  /\ n \in Records /\ n.phase = "served"
                /\ n.op = c.op /\ n.id = c.id /\ n.act = c.act /\ n.from = c.from /\ n.base = c.base
                /\ n.then = c.then /\ n.list = c.list /\ n.page = c.page /\ n.size = c.size
                     /\ n.idx = c.idx
                /\ n.data = IF n.ok THEN Outcome(c) ELSE <<>>
                /\ c.id # 0 /\ n.ok => db[c.id] # 0
                /\ db' = IF n.ok /\ c.op = "manage" THEN Applied(c) ELSE db
         /\ hist' \in History
         /\ hist'.moved = (hist.moved \/ \E i \in Ids : db[i] # 0 /\ db'[i] = 0)
         /\ hist'.disturbed = hist.disturbed /\ hist'.threw = hist.threw
<1> DEFINE c == calls[s]
<1>1. PICK ok \in BOOLEAN :
       /\ c.id # 0 /\ ok => db[c.id] # 0
       /\ db' = IF ok /\ c.op = "manage" THEN Applied(c) ELSE db
       /\ calls' = [calls EXCEPT ![s].phase = "served", ![s].ok = ok,
                                 ![s].data = IF ok THEN Outcome(c) ELSE <<>>]
       /\ hist' = Served0(c, ok)
  BY Zenon DEF Serve, Served0
<1>2. calls[s] # None /\ c.phase = "asked" /\ UNCHANGED <<view, list, obj, ui, switch>>
  BY DEF Serve
<1>3. s \in InFlight /\ c \in Records /\ Fits(c) /\ calls \in [Slots -> Records \cup {None}] /\ TypeOK
  BY <1>2, ArraysAreLists DEF Base, InFlight, TypeOK
<1> DEFINE data == IF ok THEN Outcome(c) ELSE <<>>
           n == [c EXCEPT !.phase = "served", !.ok = ok, !.data = data]
<1>4. data \in Seq(Answers)
  <2>1. <<>> \in Seq(Answers)
    OBVIOUS
  <2>2. Outcome(c) \in Seq(Answers)
    BY <1>3, OutcomeIs
  <2> QED
    BY <2>1, <2>2
<1>5. calls' = [calls EXCEPT ![s] = n]
  <2> HIDE DEF data
  <2> DEFINE c1 == [c EXCEPT !.phase = "served"]
             c2 == [c1 EXCEPT !.ok = ok]
             c3 == [c2 EXCEPT !.data = data]
             k1 == [calls EXCEPT ![s] = c1]
             k2 == [k1 EXCEPT ![s] = c2]
             k3 == [k2 EXCEPT ![s] = c3]
  <2>1. k1[s] = c1 /\ k2[s] = c2
    <3> HIDE DEF c1, c2
    <3> QED
      BY <1>3
  <2>2. k3 = [calls EXCEPT ![s] = c3]
    <3> HIDE DEF c1, c2, c3
    <3> QED
      BY <1>3
  <2>3. calls' = k3
    <3>1. calls' = [[[calls EXCEPT ![s] = [calls[s] EXCEPT !.phase = "served"]] EXCEPT ![s] = [k1[s] EXCEPT !.ok = ok]] EXCEPT ![s] = [k2[s] EXCEPT !.data = data]]
      <4>1. calls' = [calls EXCEPT ![s].phase = "served", ![s].ok = ok, ![s].data = data]
        BY <1>1 DEF data
      <4> QED
        BY <2>1, <4>1, Zenon
    <3> QED
      BY <2>1, <3>1, Zenon
  <2>4. c3 = n
    BY Zenon
  <2> HIDE DEF k3, c3, n
  <2> QED
    BY <2>2, <2>3, <2>4, Zenon
<1> HIDE DEF data
<1>6. /\ n \in Records /\ n.phase = "served" /\ n.ok = ok /\ n.data = data
      /\ n.op = c.op /\ n.id = c.id /\ n.act = c.act /\ n.from = c.from /\ n.base = c.base
      /\ n.then = c.then /\ n.list = c.list /\ n.page = c.page /\ n.size = c.size /\ n.idx = c.idx
  <2> HIDE DEF c
  <2>1. c \in Records
    BY <1>3
  <2> QED
    BY <1>4, <2>1 DEF Records
<1> HIDE DEF n
<1>7. calls'[s] = n /\ \A t \in Slots : t # s => calls'[t] = calls[t]
  BY <1>3, <1>5
<1>8. InFlight' = InFlight
  <2>1. n # None /\ None' = None
    BY <1>6, NoneIsNoRecord DEF None
  <2> QED
    BY <1>2, <1>7, <2>1 DEF InFlight
<1>9. /\ hist' \in History
      /\ hist'.moved = (hist.moved \/ \E i \in Ids : db[i] # 0 /\ db'[i] = 0)
      /\ hist'.disturbed = hist.disturbed /\ hist'.threw = hist.threw
  BY <1>1, <1>3, ServedHist
<1>10. n.data = IF n.ok THEN Outcome(c) ELSE <<>>
  BY <1>6 DEF data
<1> HIDE DEF c
<1>11. c.id # 0 /\ n.ok => db[c.id] # 0
  BY <1>1, <1>6
<1>12. db' = IF n.ok /\ c.op = "manage" THEN Applied(c) ELSE db
  BY <1>1, <1>6
<1> QED
  BY <1>2, <1>3, <1>6, <1>7, <1>8, <1>9, <1>10, <1>11, <1>12 DEF c


(* An answer of the server keeps Base and the arrays, and an accepted deletion is noted. *)
LEMMA ServeKeeps ==
  ASSUME Base, NEW s \in Slots, Serve(s)
  PROVE  /\ Base' /\ Arrays' = Arrays
         /\ calls[s].op = "manage" /\ calls'[s].ok /\ calls[s].act = "delete" => hist'.moved
<1> DEFINE c == calls[s]
           n == calls'[s]
<1>1. /\ s \in InFlight /\ c.phase = "asked" /\ c \in Records /\ Fits(c)
      /\ InFlight' = InFlight
      /\ \A t \in Slots : t # s => calls'[t] = calls[t]
      /\ UNCHANGED <<view, list, obj, ui, switch>>
  BY ServeIs
<1>2. /\ n \in Records /\ n.phase = "served"
      /\ n.op = c.op /\ n.id = c.id /\ n.act = c.act /\ n.from = c.from /\ n.base = c.base
      /\ n.then = c.then /\ n.list = c.list /\ n.page = c.page /\ n.size = c.size /\ n.idx = c.idx
      /\ n.data = IF n.ok THEN Outcome(c) ELSE <<>>
      /\ c.id # 0 /\ n.ok => db[c.id] # 0
      /\ db' = IF n.ok /\ c.op = "manage" THEN Applied(c) ELSE db
  BY ServeIs
<1>3. /\ hist' \in History
      /\ hist'.moved = (hist.moved \/ \E i \in Ids : db[i] # 0 /\ db'[i] = 0)
  BY ServeIs
<1>4. TypeOK /\ calls \in [Slots -> Records \cup {None}] /\ db \in [Ids -> 0..2] /\ None' = None
  BY DEF Base, TypeOK, None
<1>5. \A t \in Slots : calls'[t] = None <=> calls[t] = None
  <2>1. n # None /\ c # None
    BY <1>1, <1>2, NoneIsNoRecord
  <2> QED
    BY <1>1, <2>1
<1>6. calls' \in [Slots -> Records \cup {None}]
  <2>1. \A t \in Slots : calls'[t] \in Records \cup {None}
    BY <1>1, <1>2, <1>4
  <2>2. calls' = [t \in Slots |-> calls'[t]]
    <3>1. PICK v : calls' = [calls EXCEPT ![s] = v]
      <4>1. \E ok \in BOOLEAN : calls' = [calls EXCEPT ![s].phase = "served", ![s].ok = ok,
                                 ![s].data = IF ok THEN Outcome(calls[s]) ELSE <<>>]
        BY Zenon DEF Serve
      <4> QED
        BY <1>4, <4>1
    <3> QED
      BY <1>4, <3>1
  <2> QED
    BY <2>1, <2>2
<1>7. \A t \in Slots : calls[t] # None => calls'[t].list = calls[t].list
  BY <1>1, <1>2
<1>8. Arrays' = Arrays
  <2>1. Unneeded' = Unneeded
    BY DEF Unneeded
  <2>2. {calls'[t].list : t \in InFlight} = {calls[t].list : t \in InFlight}
    BY <1>7 DEF InFlight
  <2>3. Arrays' = {Unneeded', list'} \cup {calls'[t].list : t \in InFlight'}
    BY DEF Arrays
  <2> QED
    BY <1>1, <2>1, <2>2, <2>3 DEF Arrays
<1>9. Refs(list, calls)' = Refs(list, calls)
  <2> DEFINE some == {t \in Slots : calls[t] # None}
             of(l) == {l.rows[k] : k \in DOMAIN l.rows}
  <2>1. Refs(list, calls) = of(list) \cup UNION {of(calls[t].list) : t \in some}
    BY Zenon DEF Refs
  <2>2. Refs(list, calls)' = of(list') \cup UNION {of(calls'[t].list) : t \in {t \in Slots : calls'[t] # None'}}
    BY Zenon DEF Refs
  <2>3. {t \in Slots : calls'[t] # None'} = some
    BY <1>4, <1>5
  <2>4. \A t \in some : of(calls'[t].list) = of(calls[t].list)
    BY <1>7
  <2>5. {of(calls'[t].list) : t \in some} = {of(calls[t].list) : t \in some}
    <3> HIDE DEF of, some
    <3> QED
      BY <2>4
  <2>6. of(list') = of(list)
    BY <1>1
  <2> HIDE DEF of, some
  <2> QED
    BY <2>1, <2>2, <2>3, <2>5, <2>6
<1>10. db' \in [Ids -> 0..2]
  BY <1>1, <1>2, <1>4, AppliedIs
<1>11. TypeOK'
  <2>1. obj' \in [Refs(list, calls)' -> Objects]
    BY <1>1, <1>4, <1>9 DEF TypeOK
  <2>2. /\ view' \in DefaultViews \cup AirViews \cup BerryViews
        /\ list' \in Lists /\ ui' \in States
    BY <1>1, <1>4 DEF TypeOK
  <2> QED
    BY <1>3, <1>6, <1>10, <2>1, <2>2 DEF TypeOK
<1>12. OneArray'
  BY <1>8 DEF Base, OneArray
<1>13. c.op = "manage" /\ n.ok /\ c.act = "delete" => hist'.moved
  <2> SUFFICES ASSUME c.op = "manage", n.ok, c.act = "delete" PROVE hist'.moved
    OBVIOUS
  <2>1. c.id # 0 /\ c.id \in Ids
    BY <1>1 DEF Fits, Records
  <2>2. db[c.id] # 0 /\ db'[c.id] = 0
    BY <1>1, <1>2, <1>4, <2>1, AppliedIs
  <2> QED
    BY <1>3, <2>1, <2>2
<1>14. ASSUME NEW t \in InFlight' PROVE Fits(calls[t])'
  <2>1. CASE t # s
    <3>1. t \in InFlight /\ t \in Slots /\ calls'[t] = calls[t]
      BY <1>1, <2>1 DEF InFlight
    <3>2. Fits(calls[t])
      BY <3>1 DEF Base
    <3> DEFINE d == calls[t]
    <3>3. Addressed(calls[t])' <=> Addressed(d)
      BY <3>1 DEF Addressed, Place
    <3>4. First' = First /\ view' = view
      BY <1>1 DEF First
    <3> HIDE DEF d
    <3>5. Fits(d) /\ calls'[t] = d
      BY <3>1, <3>2 DEF d
    <3> QED
      BY <1>3, <3>3, <3>4, <3>5 DEF Fits
  <2>2. CASE t = s
    <3>1. Addressed(calls[s])' <=> Addressed(c)
      <4>1. Place(calls[s])' = Place(c)
        BY <1>2 DEF Place
      <4> QED
        BY <1>2, <4>1 DEF Addressed
    <3>2. First' = First /\ view' = view
      BY <1>1 DEF First
    <3>3. c.op = "manage" /\ n.ok /\ c.id # 0 => 1 \in DOMAIN n.data
      BY <1>1, <1>2, <1>4, OutcomeIs
    <3>4. calls'[s] = n
      OBVIOUS
    <3> HIDE DEF c, n
    <3>5. Fits(calls[s])'
      BY <1>1, <1>2, <1>13, <3>1, <3>2, <3>3, <3>4 DEF Fits
    <3> QED
      BY <2>2, <3>5
  <2> QED
    BY <2>1, <2>2
<1>15. list'.gen # -1 /\ UiFits(ui)'
  BY <1>1 DEF Base, UiFits, First
<1>16. Base'
  BY <1>11, <1>12, <1>14, <1>15 DEF Base
<1> QED
  BY <1>8, <1>13, <1>16

\* What the history is when a call is lost.
Lost0(c) ==
  [hist EXCEPT !.troubles = @ + 1, !.threw = TRUE,
               !.moved = @ \/ \E i \in Ids : db[i] # 0 /\ db'[i] = 0,
               !.disturbed = @ \/ c.op = "manage"]

(* What is noted of a call that is lost. *)
LEMMA LostHist ==
  ASSUME TypeOK, NEW c \in Records
  PROVE  LET h == Lost0(c)
         IN  /\ h \in History /\ h.threw
             /\ h.moved = (hist.moved \/ \E i \in Ids : db[i] # 0 /\ db'[i] = 0)
             /\ h.disturbed = (hist.disturbed \/ c.op = "manage")
<1> DEFINE m == hist.moved \/ \E i \in Ids : db[i] # 0 /\ db'[i] = 0
           d == hist.disturbed \/ c.op = "manage"
           t == hist.troubles + 1
           f == [hist EXCEPT !.troubles = t, !.threw = TRUE]
           e == [f EXCEPT !.moved = m, !.disturbed = d]
<1>1. hist \in History /\ hist.troubles \in Nat /\ hist.disturbed \in BOOLEAN /\ hist.moved \in BOOLEAN
  BY DEF TypeOK, History
<1>2. t \in Nat /\ m \in BOOLEAN /\ d \in BOOLEAN
  BY <1>1
<1>3. /\ f \in History /\ f.threw = TRUE /\ f.moved = hist.moved
      /\ f.disturbed = hist.disturbed
  <2> HIDE DEF t
  <2> QED
    BY <1>1, <1>2 DEF History
<1>4. e = Lost0(c)
  <2>1. [f EXCEPT !.moved = m].disturbed = hist.disturbed
    <3> HIDE DEF f, m
    <3> QED
      BY <1>3 DEF History
  <2> QED
    BY <1>3, <2>1, Zenon DEF Lost0
<1> HIDE DEF f, m, d
<1>5. e \in History /\ e.threw = TRUE /\ e.moved = m /\ e.disturbed = d
  BY <1>2, <1>3 DEF History
<1> HIDE DEF e
<1> QED
  BY <1>4, <1>5, Zenon DEF m, d


(* A step of a handler or a button keeps Base and forgets nothing of the history. *)
LEMMA StepBecomes ==
  ASSUME Base, NEW l, NEW o, NEW u, NEW cs, NEW sw, NEW h, Step(l, o, u, cs, sw, h)
  PROVE  /\ Become(l, o, u, cs, sw, h) /\ Prepared(l, o, u, cs, h) /\ h \in History
         /\ (hist.moved => h.moved)
         /\ db' = db /\ db' \in [Ids -> 0..2] /\ Base'
<1>1. /\ Become(l, o, u, cs, sw, h) /\ Prepared(l, o, u, cs, h) /\ h \in History
         /\ (hist.moved => h.moved)
      /\ db' = db /\ db' \in [Ids -> 0..2]
  BY DEF Step, Sets, Remembers, Base, TypeOK
<1> QED
  BY <1>1, Becomes

(* A call is lost: nothing else is, but the server may have done the operation. *)
LEMMA LostIs ==
  ASSUME Base, NEW s \in Slots, Lost(s)
  PROVE  /\ s \in InFlight /\ Base' /\ view' = view /\ list' = list /\ ui' = ui
         /\ Arrays' \subseteq Arrays /\ InFlight' = InFlight \ {s} /\ hist'.threw
         /\ \A r \in DOMAIN obj' : r \in DOMAIN obj /\ obj'[r] = obj[r]
         /\ \A t \in InFlight' : /\ Likewise(calls'[t], calls[t]) /\ calls'[t].list = calls[t].list
                                 /\ calls'[t].phase = calls[t].phase /\ calls'[t].ok = calls[t].ok
                                 /\ calls'[t].data = calls[t].data
         /\ db' = db \/ (calls[s].op = "manage" /\ db' = Applied(calls[s]))
         /\ hist'.moved = (hist.moved \/ \E i \in Ids : db[i] # 0 /\ db'[i] = 0)
         /\ hist'.disturbed = (hist.disturbed \/ calls[s].op = "manage")
<1> DEFINE c == calls[s]
           cs == [calls EXCEPT ![s] = None]
           h == Lost0(c)
<1>1. s \in InFlight /\ c \in Records /\ Fits(c) /\ TypeOK
  BY ArraysAreLists DEF Base, Lost, InFlight
<1>2. PICK done \in BOOLEAN :
       /\ done => c.phase = "asked" /\ c.op = "manage" /\ (c.id # 0 => db[c.id] # 0)
       /\ db' = IF done THEN Applied(c) ELSE db
       /\ Become(list, obj, ui, cs, switch, h)
  BY Zenon DEF Lost, Lost0
<1>3. db' \in [Ids -> 0..2] /\ (db' = db \/ (c.op = "manage" /\ db' = Applied(c)))
  BY <1>1, <1>2, AppliedIs DEF TypeOK
<1>4. /\ h \in History /\ h.threw
      /\ h.moved = (hist.moved \/ \E i \in Ids : db[i] # 0 /\ db'[i] = 0)
      /\ h.disturbed = (hist.disturbed \/ c.op = "manage")
  BY <1>1, LostHist
<1>5. /\ cs \in [Slots -> Records \cup {None}] /\ cs[s] = None
      /\ \A t \in Slots \ {s} : cs[t] = calls[t]
      /\ \A t \in Slots : cs[t] # None => cs[t].list \in Arrays /\ Fits(cs[t])
  BY SlotIs
<1> HIDE DEF h, cs
<1>6. \A r \in Refs(list, cs) : r \in DOMAIN obj /\ obj[r] \in Objects
  <2>1. \A r \in Refs(list, cs) : r \in DOMAIN obj \/ \E k \in DOMAIN list.rows : r = list.rows[k]
    BY <1>5, RefsAre
  <2> QED
    BY <2>1, RowsHeld DEF Arrays
<1>7. UiFits(ui)
  BY UiIs
<1>8. Prepared(list, obj, ui, cs, h)
  BY <1>4, <1>5, <1>6, <1>7, ListStays DEF Prepared
<1>9. /\ Base'
      /\ Arrays' \subseteq {list} \cup {L \in Arrays : L.gen # list.gen}
      /\ list' = list /\ ui' = ui /\ hist' = h /\ view' = view
      /\ DOMAIN obj' = Refs(list, cs) /\ \A r \in DOMAIN obj' : obj'[r] = obj[r]
      /\ InFlight' = {t \in Slots : cs[t] # None}
      /\ \A t \in InFlight' :
              /\ Likewise(calls'[t], cs[t]) /\ calls'[t].phase = cs[t].phase
              /\ calls'[t].ok = cs[t].ok /\ calls'[t].data = cs[t].data
              /\ calls'[t].list = IF cs[t].list.gen = list.gen THEN list ELSE cs[t].list
  <2>1. /\ Become(list, obj, ui, cs, switch, h) /\ Prepared(list, obj, ui, cs, h)
        /\ h \in History /\ (hist.moved => h.moved) /\ db' \in [Ids -> 0..2]
    BY <1>2, <1>3, <1>4, <1>8 DEF h
  <2> QED
    BY <2>1, Becomes
<1>10. InFlight' = InFlight \ {s}
  BY <1>5, <1>9 DEF InFlight
<1>11. \A t \in InFlight' : cs[t] = calls[t] /\ t \in InFlight /\ t # s /\ calls[t].list \in Arrays
  BY <1>5, <1>10 DEF InFlight, Arrays
<1>12. \A t \in InFlight' : calls'[t].list = calls[t].list
  BY <1>9, <1>11, ListStays
<1>13. Arrays' \subseteq Arrays
  BY <1>9 DEF Arrays
<1>14. \A t \in InFlight' : /\ Likewise(calls'[t], calls[t])
                           /\ calls'[t].phase = calls[t].phase /\ calls'[t].ok = calls[t].ok
                           /\ calls'[t].data = calls[t].data
  BY <1>9, <1>11
<1>15. \A r \in DOMAIN obj' : r \in DOMAIN obj /\ obj'[r] = obj[r]
  BY <1>6, <1>9
<1> QED
  BY <1>1, <1>3, <1>4, <1>9, <1>10, <1>12, <1>13, <1>14, <1>15

(* Another administrator. *)
LEMMA ForeignIs ==
  ASSUME Base, Foreign
  PROVE  /\ Base' /\ UNCHANGED <<view, list, obj, ui, switch, calls>>
         /\ hist'.moved /\ hist'.disturbed /\ hist'.threw = hist.threw
<1>1. UNCHANGED <<view, list, obj, ui, switch, calls>>
  BY DEF Foreign
<1>2. PICK i \in Ids : /\ db' = [db EXCEPT ![i] = IF @ = 0 THEN 1 ELSE 0]
                       /\ hist' = [hist EXCEPT !.troubles = @ + 1, !.disturbed = TRUE, !.moved = TRUE]
  BY DEF Foreign
<1>3. hist \in History /\ hist.troubles + 1 \in Nat /\ db \in [Ids -> 0..2]
  BY DEF Base, TypeOK, History
<1>4. db' \in [Ids -> 0..2]
  BY <1>2, <1>3
<1>5. hist' \in History /\ hist'.moved /\ hist'.disturbed /\ hist'.threw = hist.threw
  <2> DEFINE n == hist.troubles + 1
             e == [hist EXCEPT !.troubles = n, !.disturbed = TRUE, !.moved = TRUE]
  <2>1. e = hist' /\ n \in Nat
    BY <1>2, <1>3, Zenon
  <2> HIDE DEF n
  <2>2. e \in History /\ e.moved = TRUE /\ e.disturbed = TRUE /\ e.threw = hist.threw
    BY <1>3, <2>1 DEF History
  <2> QED
    BY <2>1, <2>2
<1>6. Refs(list, calls)' = Refs(list, calls) /\ Arrays' = Arrays /\ InFlight' = InFlight
  BY <1>1 DEF Refs, Arrays, InFlight, Unneeded, None
<1>7. TypeOK'
  BY <1>1, <1>4, <1>5, <1>6 DEF Base, TypeOK, None
<1>8. OneArray' /\ list'.gen # -1 /\ UiFits(ui)'
  BY <1>1, <1>6 DEF Base, OneArray, UiFits, First
<1>9. \A t \in InFlight' : Fits(calls[t])'
  <2> SUFFICES ASSUME NEW t \in InFlight PROVE Fits(calls[t])'
    BY <1>6
  <2>1. Fits(calls[t]) /\ calls'[t] = calls[t] /\ view' = view /\ hist'.moved
    BY <1>1, <1>5 DEF Base
  <2>2. (Addressed(calls[t])' <=> Addressed(calls[t])) /\ First' = First
    BY <1>1 DEF Addressed, Place, First
  <2> QED
    BY <2>1, <2>2 DEF Fits
<1> QED
  BY <1>1, <1>5, <1>7, <1>8, <1>9 DEF Base

(* Each step of the specification is one of these. *)
LEMMA NextIs ==
  ASSUME Base, Next
  PROVE  \/ \E s \in Slots : Serve(s) \/ Lost(s)
         \/ Foreign
         \/ \E l, o, u, cs, sw, h : Step(l, o, u, cs, sw, h)
  BY WorkIs DEF Next

(* Base is inductive: every step keeps the types, one array to a number, and calls that
   fit the list they are for. *)
LEMMA BaseStays ==
  ASSUME Base, [Next]_vars
  PROVE  Base'
<1>1. CASE UNCHANGED vars
  <2>1. Refs(list, calls)' = Refs(list, calls) /\ Arrays' = Arrays /\ InFlight' = InFlight
    BY <1>1 DEF Refs, Arrays, InFlight, Unneeded, None, vars
  <2>2. TypeOK' /\ OneArray' /\ list'.gen # -1 /\ UiFits(ui)'
    BY <1>1, <2>1 DEF Base, TypeOK, OneArray, UiFits, First, None, vars
  <2>3. \A t \in InFlight' : Fits(calls[t])'
    <3> SUFFICES ASSUME NEW t \in InFlight PROVE Fits(calls[t])'
      BY <2>1
    <3>1. Fits(calls[t]) /\ calls'[t] = calls[t] /\ view' = view /\ hist' = hist
      BY <1>1 DEF Base, vars
    <3>2. (Addressed(calls[t])' <=> Addressed(calls[t])) /\ First' = First
      BY <1>1 DEF Addressed, Place, First, vars
    <3> QED
      BY <3>1, <3>2 DEF Fits
  <2> QED
    BY <2>2, <2>3 DEF Base
<1>2. CASE Next
  BY <1>2, NextIs, ServeKeeps, LostIs, ForeignIs, StepBecomes
<1> QED
  BY <1>1, <1>2

(* Rows, lists, objects, calls and page keep their types in all fifteen tables,
   with any number of rows and calls. *)
THEOREM TypesHold == Spec => []TypeOK
<1>1. Init => Base
  BY Starts
<1>2. Base /\ [Next]_vars => Base'
  BY BaseStays
<1>3. Base => TypeOK
  BY DEF Base
<1> QED
  BY <1>1, <1>2, <1>3, PTL DEF Spec

(* A row object changes only by the answer to an operation on its own row: however the
   answers are ordered, none is written into another row (the handlers that keep a row
   number, such as manageToken of default/src/components/TokensTable.js). *)
THEOREM RowIsRight == Spec => RightRow
<1>1. Init => Base
  BY Starts
<1>2. Base /\ [Next]_vars => Base'
  BY BaseStays
<1> DEFINE Answered == \A r \in DOMAIN obj \cap DOMAIN obj' :
       obj'[r] # obj[r] =>
         \E s \in InFlight : calls'[s] # calls[s] /\ calls[s].op = "manage" /\ calls[s].id = r[1]
<1>3. ASSUME Base, Next PROVE Answered
  <2>1. CASE \E s \in Slots : Serve(s) \/ Lost(s)
    BY <1>3, <2>1, ServeIs, LostIs
  <2>2. CASE Foreign
    BY <1>3, <2>2, ForeignIs
  <2>3. CASE \E l, o, u, cs, sw, h : Step(l, o, u, cs, sw, h)
    <3>1. PICK l, o, u, cs, sw, h : Step(l, o, u, cs, sw, h)
      BY <2>3
    <3>2. /\ DOMAIN obj' = Refs(l, cs) /\ \A r \in DOMAIN obj' : obj'[r] = o[r]
          /\ \A s \in Slots : cs[s] = None <=> calls'[s] = None
      BY <1>3, <3>1, StepBecomes, Becomes
    <3>3. Changes(l, o, cs)
      BY <3>1 DEF Step, Sets
    <3> QED
      BY <3>2, <3>3 DEF Changes, InFlight
  <2> QED
    BY <1>3, <2>1, <2>2, <2>3, NextIs
<1>4. Base /\ [Next]_vars => [Answered]_vars
  BY <1>3
<1> HIDE DEF Answered
<1>5. Spec => [][Answered]_vars
  BY <1>1, <1>2, <1>4, PTL DEF Spec
<1> QED
  BY <1>5 DEF RightRow, Answered


(***************************************************************************)
(* The rows of the lists.                                                  *)
(***************************************************************************)

\* No row twice.
Distinct(r) == \A i, j \in DOMAIN r : r[i][1] = r[j][1] => i = j

\* The first rows of a listing of the server: all, or so many pages.
Leading(r, q) ==
  /\ Len(r) <= Len(q) /\ \A k \in DOMAIN r : r[k][1] = q[k]
  /\ Len(r) = Len(q) \/ \E n \in Nat : Len(r) = n * PAGE

Sound(L) ==
  ~L.mixed => /\ Distinct(L.rows)
              /\ ~hist.moved /\ L.base \in {"all", "some"} => Leading(L.rows, Listing(L.base))

\* The rows of an answer are those of the page.
Right(c) ==
  c.op \in {"load", "search"} /\ c.phase = "served" /\ c.ok =>
    /\ \A i, j \in DOMAIN c.data : c.data[i].id = c.data[j].id => i = j
    /\ c.op = "load" /\ ~hist.moved =>
         LET q == PageOf(Listing(c.base), c.from)
         IN  Len(c.data) = Len(q) /\ \A k \in DOMAIN c.data : c.data[k].id = q[k]

(* The listings stay as long as no row comes or goes. *)
LEMMA ListingStays ==
  ASSUME view' = view, \A i \in Ids : db[i] = 0 <=> db'[i] = 0
  PROVE  \A base : Listing(base)' = Listing(base)
<1>1. Rows' = Rows
  BY DEF Rows
<1>2. (Rows \cap Matching)' = Rows \cap Matching
  BY <1>1
<1>3. Descending(Rows)' = Descending(Rows) /\ Ascending(Rows)' = Ascending(Rows)
      /\ Descending(Rows \cap Matching)' = Descending(Rows \cap Matching)
  BY <1>1, <1>2, Zenon DEF Descending, Ascending
<1> SUFFICES ASSUME NEW base PROVE Listing(base)' = Listing(base)
  OBVIOUS
<1>4. CASE base = "all"
  BY <1>3, <1>4 DEF Listing
<1>5. CASE base = "found"
  BY <1>3, <1>5 DEF Listing
<1>6. CASE base # "all" /\ base # "found"
  BY <1>3, <1>6 DEF Listing
<1> QED
  BY <1>4, <1>5, <1>6

(* A distinct listing makes a leading list distinct. *)
LEMMA LeadingIsDistinct ==
  ASSUME NEW r \in Seq(Pairs), NEW S, NEW q \in Seq(S), Leading(r, q),
         \A i, j \in DOMAIN q : q[i] = q[j] => i = j
  PROVE  Distinct(r)
<1>1. Len(r) \in Nat /\ DOMAIN r = 1..Len(r)
  BY SeqIs
<1>2. Len(q) \in Nat /\ DOMAIN q = 1..Len(q)
  BY SeqIs
<1>3. Len(r) <= Len(q) /\ \A k \in DOMAIN r : r[k][1] = q[k]
  BY DEF Leading
<1>4. \A k \in DOMAIN r : k \in DOMAIN q
  BY <1>1, <1>2, <1>3
<1> QED
  BY <1>3, <1>4 DEF Distinct

(* The next multiple. *)
LEMMA NextPage ==
  ASSUME NEW n \in Nat, NEW b \in Nat
  PROVE  n * b + b = (n + 1) * b /\ n + 1 \in Nat
OBVIOUS

\* A page of the listing, from where it starts.
Cutting(p, q, a) ==
  /\ p \in Seq(Ids)
  /\ Len(p) = IF Len(q) <= a THEN 0 ELSE IF Len(q) <= a + PAGE THEN Len(q) - a ELSE PAGE
  /\ \A k \in DOMAIN p : a + k \in DOMAIN q /\ p[k] = q[a + k]

(* A page of the listing is cut out of it where it starts. *)
LEMMA PageAt ==
  ASSUME NEW q \in Seq(Ids), NEW from \in Nat
  PROVE  Cutting(PageOf(q, from), q, from * PAGE)
<1>1. Cutting(PageOf(q, from), q, from * PAGE)
  BY PageIs, Zenon DEF Cutting
<1> QED
  BY <1>1

\* The rows "new" of a page take their place among those there are.
Placing(q, from, old, new, r, a) ==
  /\ q \in Seq(Ids) /\ from \in Nat /\ a \in Nat
  /\ old \in Seq(Pairs) /\ new \in Seq(Pairs) /\ r \in Seq(Pairs)
  /\ Leading(old, q) /\ a = from * PAGE /\ a <= Len(old)
  /\ Len(new) = Len(PageOf(q, from)) /\ \A k \in DOMAIN new : new[k][1] = PageOf(q, from)[k]
  /\ Len(r) = IF a + Len(new) < Len(old) THEN Len(old) ELSE a + Len(new)
  /\ \A k \in DOMAIN r : \/ k \in DOMAIN old /\ r[k] = old[k]
                         \/ k - a \in DOMAIN new /\ r[k] = new[k - a]

(* A page that is put where it belongs. *)
LEMMA PagePlaced ==
  ASSUME NEW q, NEW from, NEW old, NEW new, NEW r, NEW a, Placing(q, from, old, new, r, a)
  PROVE  Leading(r, q)
<1> USE DEF Placing
<1> DEFINE p == PageOf(q, from)
<1>1. /\ Len(q) \in Nat /\ Len(old) \in Nat /\ Len(new) \in Nat /\ Len(r) \in Nat /\ PAGE \in Nat
      /\ DOMAIN q = 1..Len(q) /\ DOMAIN old = 1..Len(old)
      /\ DOMAIN new = 1..Len(new) /\ DOMAIN r = 1..Len(r)
  <2>1. Len(q) \in Nat /\ DOMAIN q = 1..Len(q)
    BY SeqIs
  <2>2. Len(old) \in Nat /\ DOMAIN old = 1..Len(old) /\ Len(new) \in Nat
        /\ DOMAIN new = 1..Len(new) /\ Len(r) \in Nat /\ DOMAIN r = 1..Len(r)
    BY SeqIs
  <2> QED
    BY <2>1, <2>2, TableAssumption
<1>2. Cutting(p, q, a)
  BY PageAt
<1>3. Len(new) = Len(p) /\ \A k \in DOMAIN new : new[k][1] = p[k]
  OBVIOUS
<1> HIDE DEF p
<1>4. DOMAIN p = 1..Len(p)
  BY <1>2, SeqIs DEF Cutting
<1>5. /\ Len(p) = IF Len(q) <= a THEN 0 ELSE IF Len(q) <= a + PAGE THEN Len(q) - a ELSE PAGE
      /\ \A k \in DOMAIN new : a + k \in DOMAIN q /\ p[k] = q[a + k]
  BY <1>1, <1>2, <1>3, <1>4 DEF Cutting
<1>6. Len(old) <= Len(q) /\ \A k \in DOMAIN old : old[k][1] = q[k]
  BY DEF Leading
<1>7. \A k \in DOMAIN r : r[k][1] = q[k]
  <2> SUFFICES ASSUME NEW k \in DOMAIN r PROVE r[k][1] = q[k]
    OBVIOUS
  <2>1. CASE k \in DOMAIN old /\ r[k] = old[k]
    BY <1>6, <2>1
  <2>2. CASE k - a \in DOMAIN new /\ r[k] = new[k - a]
    <3>1. r[k][1] = p[k - a] /\ p[k - a] = q[a + (k - a)]
      BY <1>3, <1>5, <2>2
    <3>2. a + (k - a) = k
      BY <1>1
    <3> QED
      BY <3>1, <3>2
  <2> QED
    BY <2>1, <2>2
<1> DEFINE lq == Len(q)  lo == Len(old)  ln == Len(new)  lr == Len(r)
<1>8. /\ lq \in Nat /\ lo \in Nat /\ ln \in Nat /\ lr \in Nat /\ PAGE \in Nat /\ a \in Nat
      /\ ln = (IF lq <= a THEN 0 ELSE IF lq <= a + PAGE THEN lq - a ELSE PAGE)
      /\ lo <= lq /\ a <= lo /\ lr = (IF a + ln < lo THEN lo ELSE a + ln)
  <2>1. ln = (IF lq <= a THEN 0 ELSE IF lq <= a + PAGE THEN lq - a ELSE PAGE)
    BY <1>3, <1>5
  <2>2. lr = (IF a + ln < lo THEN lo ELSE a + ln)
    OBVIOUS
  <2> QED
    BY <1>1, <1>6, <2>1, <2>2
<1>9. lo = lq \/ \E n \in Nat : lo = n * PAGE
  BY DEF Leading
<1> HIDE DEF lq, lo, ln, lr
<1>10. lr <= lq
  BY <1>8
<1>11. lr = lq \/ lr = lo \/ lr = a + PAGE
  BY <1>8
<1>12. a + PAGE = (from + 1) * PAGE /\ from + 1 \in Nat
  BY <1>8, NextPage
<1>13. lr = lq \/ \E n \in Nat : lr = n * PAGE
  BY <1>9, <1>11, <1>12
<1> QED
  BY <1>7, <1>10, <1>13 DEF Leading, lq, lr


(* A list is the same list if it has the same rows. *)
LEMMA LeadingAgain ==
  ASSUME NEW q \in Seq(Ids), NEW old \in Seq(Pairs), NEW r \in Seq(Pairs), Leading(old, q),
         Len(r) = Len(old), \A k \in DOMAIN r : k \in DOMAIN old /\ r[k] = old[k]
  PROVE  Leading(r, q)
BY DEF Leading

\* A list that is as long as nothing came or went.
Whole(r, base) == Leading(r, Listing(base)) /\ Distinct(r)

(* A list of first rows of a listing has none twice. *)
LEMMA WholeIs ==
  ASSUME TypeOK, NEW r \in Seq(Pairs), NEW base \in {"all", "some"}, Leading(r, Listing(base))
  PROVE  Whole(r, base)
<1>1. Listing(base) \in Seq(Ids)
      /\ \A i, j \in DOMAIN Listing(base) : Listing(base)[i] = Listing(base)[j] => i = j
  BY ListingIs
<1>2. Distinct(r)
  BY <1>1, LeadingIsDistinct
<1> QED
  BY <1>2 DEF Whole

(* The rows of an answer. *)
LEMMA FreshRows ==
  ASSUME Base, NEW s \in InFlight, calls[s].op \in {"load", "search"}, calls[s].phase = "served",
         calls[s].ok, Right(calls[s])
  PROVE  LET c == calls[s]
         IN  /\ Distinct(Fresh(c)) /\ Fresh(c) \in Seq(Pairs) /\ DOMAIN Fresh(c) = DOMAIN c.data
             /\ Fresh(c) = <<>> <=> c.data = <<>>
             /\ c.op = "load" /\ ~hist.moved =>
                  LET p == PageOf(Listing(c.base), c.from)
                  IN  Len(Fresh(c)) = Len(p) /\ \A k \in DOMAIN Fresh(c) : Fresh(c)[k][1] = p[k]
<1> DEFINE c == calls[s]
<1>1. TypeOK /\ c \in Records
  BY ArraysAreLists DEF Base
<1>2. /\ Fresh(c) \in Seq(Pairs) /\ Len(Fresh(c)) = Len(c.data) /\ Len(c.data) \in Nat
      /\ DOMAIN c.data = 1..Len(c.data) /\ DOMAIN Fresh(c) = DOMAIN c.data
      /\ \A k \in DOMAIN c.data : Fresh(c)[k][1] = c.data[k].id
  BY <1>1, FreshIs
<1>3. c.data \in Seq(Answers)
  BY <1>1 DEF Records
<1>4. /\ \A i, j \in DOMAIN c.data : c.data[i].id = c.data[j].id => i = j
      /\ c.op = "load" /\ ~hist.moved =>
           LET p == PageOf(Listing(c.base), c.from)
           IN  Len(c.data) = Len(p) /\ \A k \in DOMAIN c.data : c.data[k].id = p[k]
  BY DEF Right
<1> HIDE DEF c
<1>5. Distinct(Fresh(c))
  BY <1>2, <1>4 DEF Distinct
<1>6. Fresh(c) = <<>> <=> c.data = <<>>
  BY <1>2, <1>3
<1>7. c.op = "load" /\ ~hist.moved =>
        LET p == PageOf(Listing(c.base), c.from)
        IN  Len(Fresh(c)) = Len(p) /\ \A k \in DOMAIN Fresh(c) : Fresh(c)[k][1] = p[k]
  BY <1>2, <1>4
<1> QED
  BY <1>2, <1>5, <1>6, <1>7 DEF c

(* An answer that takes the place of the list. *)
LEMMA ReplacedSound ==
  ASSUME Base, NEW s \in InFlight, calls[s].op \in {"load", "search"}, calls[s].phase = "served",
         calls[s].ok, Right(calls[s]), calls[s].op = "load" => calls[s].from = 0
  PROVE  Sound(Replaced(calls[s]))
<1> DEFINE c == calls[s]
<1>1. /\ TypeOK /\ c \in Records /\ Fits(c)
      /\ Replaced(c).rows = Fresh(c) /\ Replaced(c).base = c.base
  BY ArraysAreLists, PlacedAreLists DEF Base
<1>2. /\ Distinct(Fresh(c)) /\ Fresh(c) \in Seq(Pairs)
      /\ c.op = "load" /\ ~hist.moved =>
           LET p == PageOf(Listing(c.base), c.from)
           IN  Len(Fresh(c)) = Len(p) /\ \A k \in DOMAIN Fresh(c) : Fresh(c)[k][1] = p[k]
  BY FreshRows
<1>3. c.op = "search" => c.base = "found"
  BY <1>1 DEF Fits
<1>4. c.op = "load" => c.base \in {"all", "some"}
  BY <1>1 DEF Fits
<1>5. ASSUME c.op = "load", ~hist.moved
      PROVE  Leading(Fresh(c), Listing(c.base))
  <2> DEFINE q == Listing(c.base)
             f == Fresh(c)
  <2>1. q \in Seq(Ids)
    BY <1>1, <1>4, <1>5, ListingIs
  <2>2. /\ f \in Seq(Pairs) /\ Len(f) = Len(PageOf(q, 0))
        /\ \A k \in DOMAIN f : f[k][1] = PageOf(q, 0)[k]
    BY <1>2, <1>5
  <2> HIDE DEF q, f
  <2>3. Len(q) \in Nat /\ Len(f) \in Nat /\ DOMAIN f = 1..Len(f)
    BY <2>1, <2>2, SeqIs
  <2>4. PAGE \in Nat
    BY TableAssumption
  <2> DEFINE e == <<>>
             z == 0
  <2>5. e \in Seq(Pairs) /\ Len(e) = z /\ DOMAIN e = {} /\ z \in Nat
    OBVIOUS
  <2>6. Len(e) <= Len(q) /\ z = z * PAGE
    BY <2>3, <2>4
  <2>7. Leading(e, q)
    BY <2>5, <2>6 DEF Leading
  <2>8. Len(f) = IF z + Len(f) < Len(e) THEN Len(e) ELSE z + Len(f)
    BY <2>3
  <2>9. \A k \in DOMAIN f : k - z \in DOMAIN f /\ f[k] = f[k - z]
    BY <2>3
  <2>10. z <= Len(e)
    BY <2>5
  <2> HIDE DEF e, z
  <2>11. z \in Nat /\ Len(f) = Len(PageOf(q, z)) /\ \A k \in DOMAIN f : f[k][1] = PageOf(q, z)[k]
    BY <2>2, <2>5 DEF z
  <2>12. Leading(f, q)
    <3>1. Placing(q, z, e, f, f, z)
      BY <2>1, <2>2, <2>5, <2>6, <2>7, <2>8, <2>9, <2>10, <2>11 DEF Placing
    <3> QED
      BY <3>1, PagePlaced
  <2> QED
    BY <2>12 DEF q, f
<1> HIDE DEF c
<1>6. Sound(Replaced(c))
  <2> DEFINE R == Replaced(c)
  <2>1. R.rows = Fresh(c) /\ R.base = c.base
    BY <1>1
  <2> HIDE DEF R
  <2> QED
    BY <1>2, <1>3, <1>5, <2>1 DEF Sound, R, c
<1> QED
  BY <1>6 DEF c


(* What a page is put into, when the list it makes is not mixed. *)
LEMMA UnmixedIs ==
  ASSUME Base, NEW s \in InFlight, calls[s].op = "load", Sound(calls[s].list),
         ~Shifted(calls[s])
  PROVE  LET c == calls[s]
         IN  /\ ~c.list.mixed /\ c.list.base = c.base /\ ~hist.moved
             /\ c.base \in {"all", "some"} /\ Whole(c.list.rows, c.base)
<1> DEFINE c == calls[s]
<1>1. TypeOK /\ c \in Records /\ Fits(c)
  BY ArraysAreLists DEF Base
<1>2. c.base \in {"all", "some"} /\ c.list \in Lists
  BY <1>1 DEF Fits, Records
<1>3. ~c.list.mixed /\ c.list.base = c.base /\ ~hist.moved
  BY DEF Shifted
<1>4. Distinct(c.list.rows) /\ Leading(c.list.rows, Listing(c.base))
  BY <1>2, <1>3 DEF Sound
<1> QED
  BY <1>2, <1>3, <1>4 DEF Whole

(* A list that is as long as nothing came or went is sound. *)
LEMMA WholeIsSound ==
  ASSUME NEW L, NEW base, Whole(L.rows, base), L.base = base
  PROVE  Sound(L)
BY DEF Whole, Sound

(* Doubling commutes with counting. *)
LEMMA Twice ==
  ASSUME NEW n \in Nat, NEW b \in Nat
  PROVE  n * (2 * b) = 2 * (n * b)
OBVIOUS

(* A page put among the rows. *)
LEMMA SplicedSound ==
  ASSUME Base, NEW s \in InFlight, calls[s].op = "load", calls[s].phase = "served",
         calls[s].ok, Right(calls[s]), Sound(calls[s].list)
  PROVE  Sound(Spliced(calls[s]))
<1> DEFINE c == calls[s]
           old == c.list.rows
           new == Fresh(c)
           q == Listing(c.base)
           r == SpliceAt(old, c.from * c.size, new)
<1>1. /\ TypeOK /\ c \in Records
      /\ Spliced(c).rows = r /\ Spliced(c).base = c.list.base
      /\ Spliced(c).mixed = (Shifted(c) \/ OutOfPlace(c)) /\ c.from * c.size \in Nat
  BY ArraysAreLists, PlacedAreLists DEF Base
<1> SUFFICES ASSUME ~Shifted(c), ~OutOfPlace(c)
             PROVE  Sound(Spliced(c))
  BY <1>1 DEF Sound
<1>2. c.list.base = c.base /\ ~hist.moved /\ c.base \in {"all", "some"} /\ Whole(old, c.base)
  BY UnmixedIs
<1>3. /\ new \in Seq(Pairs) /\ (new = <<>> <=> c.data = <<>>)
      /\ Len(new) = Len(PageOf(q, c.from))
      /\ \A k \in DOMAIN new : new[k][1] = PageOf(q, c.from)[k]
  BY <1>2, FreshRows
<1>4. old \in Seq(Pairs) /\ c.from \in Nat /\ c.size \in {PAGE, 2 * PAGE} /\ PAGE \in Nat \ {0}
  BY <1>1, TableAssumption DEF Records, Lists
<1>5. q \in Seq(Ids)
  BY <1>1, <1>2, ListingIs
<1>6. Leading(old, q)
  BY <1>2 DEF Whole
<1>7. c.data # <<>> => /\ c.from * PAGE <= Len(old)
                       /\ c.size = PAGE \/ Len(old) <= c.from * PAGE
  <2>1. Len(old) \in Nat /\ c.from * PAGE \in Nat
    <3> HIDE DEF c, old
    <3> QED
      BY <1>4, SeqIs
  <2>2. c.data # <<>> => ~(Len(old) < c.from * PAGE) /\ ~(Len(old) > c.from * PAGE /\ c.size # PAGE)
    BY DEF OutOfPlace
  <2> HIDE DEF c, old
  <2> QED
    BY <2>1, <2>2
<1> DEFINE from == c.from
           size == c.size
           at == from * size
           a == IF at < Len(old) THEN at ELSE Len(old)
<1>8. at \in Nat
  BY <1>1
<1>9. /\ c.data # <<>> => from * PAGE <= Len(old) /\ (size = PAGE \/ Len(old) <= from * PAGE)
      /\ r = SpliceAt(old, at, new) /\ from \in Nat /\ size \in {PAGE, 2 * PAGE}
      /\ Len(new) = Len(PageOf(q, from)) /\ \A k \in DOMAIN new : new[k][1] = PageOf(q, from)[k]
      /\ c.base \in {"all", "some"}
  BY <1>1, <1>2, <1>3, <1>4, <1>7
<1> HIDE DEF c, old, new, q, r, from, size
<1>10. Len(old) \in Nat /\ DOMAIN old = 1..Len(old) /\ Len(new) \in Nat /\ DOMAIN new = 1..Len(new)
       /\ from * PAGE \in Nat
  BY <1>3, <1>4, <1>9, SeqIs
<1>11. /\ r \in Seq(Pairs)
       /\ Len(r) = IF a + Len(new) < Len(old) THEN Len(old) ELSE a + Len(new)
       /\ \A k \in DOMAIN r : r[k] = IF k > a /\ k <= a + Len(new) THEN new[k - a] ELSE old[k]
       /\ \A k \in DOMAIN r : k > a /\ k <= a + Len(new) => k - a \in DOMAIN new
       /\ \A k \in DOMAIN r : ~(k > a /\ k <= a + Len(new)) => k \in DOMAIN old
  <2> HIDE DEF at
  <2> QED
    BY <1>3, <1>4, <1>8, <1>9, SpliceIs
<1>12. a \in Nat /\ a <= Len(old)
  <2> HIDE DEF at
  <2> QED
    BY <1>8, <1>10
<1>13. Leading(r, q)
  <2>1. CASE c.data = <<>>
    <3>1. new = <<>>
      BY <1>3, <2>1
    <3>2. Len(new) = 0
      BY <3>1
    <3> HIDE DEF at, a
    <3>3. Len(r) = Len(old) /\ \A k \in DOMAIN r : k \in DOMAIN old /\ r[k] = old[k]
      <4>1. Len(r) \in Nat /\ DOMAIN r = 1..Len(r)
        BY <1>11, SeqIs
      <4>2. Len(r) = Len(old)
        <5>1. Len(r) = IF a + 0 < Len(old) THEN Len(old) ELSE a + 0
          BY <1>11, <3>2
        <5>2. a \in Nat /\ Len(old) \in Nat /\ a <= Len(old)
          BY <1>10, <1>12
        <5> QED
          BY <5>1, <5>2
      <4>3. \A k \in DOMAIN r : ~(k > a /\ k <= a + Len(new))
        BY <1>12, <3>2, <4>1
      <4> QED
        BY <1>11, <4>2, <4>3
    <3> QED
      BY <1>4, <1>5, <1>6, <1>11, <3>3, LeadingAgain
  <2>2. CASE c.data # <<>>
    <3>1. a = from * PAGE
      <4>1. from * PAGE <= Len(old) /\ (size = PAGE \/ Len(old) <= from * PAGE)
        BY <1>9, <2>2
      <4>2. CASE size = PAGE
        <5>1. at = from * PAGE
          BY <4>2
        <5> HIDE DEF at
        <5> QED
          BY <1>10, <4>1, <5>1
      <4>3. CASE size = 2 * PAGE /\ Len(old) <= from * PAGE
        <5>1. at = 2 * (from * PAGE)
          BY <1>4, <1>9, <4>3, Twice
        <5>2. Len(old) = from * PAGE
          BY <1>10, <4>1, <4>3
        <5> HIDE DEF at
        <5> QED
          BY <1>10, <5>1, <5>2
      <4> QED
        BY <1>9, <4>1, <4>2, <4>3
    <3> HIDE DEF at, a
    <3>2. \A k \in DOMAIN r : \/ k \in DOMAIN old /\ r[k] = old[k]
                              \/ k - a \in DOMAIN new /\ r[k] = new[k - a]
      BY <1>11
    <3>3. Placing(q, from, old, new, r, a)
      BY <1>3, <1>4, <1>5, <1>6, <1>9, <1>11, <1>12, <3>1, <3>2 DEF Placing
    <3> QED
      BY <3>3, PagePlaced
  <2> QED
    BY <2>1, <2>2
<1>14. Whole(r, c.base)
  BY <1>1, <1>9, <1>11, <1>13, WholeIs DEF q
<1> QED
  BY <1>1, <1>2, <1>14, WholeIsSound


(* Each element of two sequences put together is one of the two. *)
LEMMA Joined ==
  ASSUME NEW S, NEW x \in Seq(S), NEW y \in Seq(S)
  PROVE  /\ x \o y \in Seq(S) /\ Len(x \o y) = Len(x) + Len(y)
         /\ \A k \in DOMAIN (x \o y) : \/ k \in DOMAIN x /\ (x \o y)[k] = x[k]
                                       \/ k - Len(x) \in DOMAIN y /\ (x \o y)[k] = y[k - Len(x)]
<1> DEFINE r == x \o y
<1>1. /\ r \in Seq(S) /\ Len(r) = Len(x) + Len(y)
      /\ \A i \in 1..(Len(x) + Len(y)) : r[i] = IF i <= Len(x) THEN x[i] ELSE y[i - Len(x)]
  BY ConcatProperties
<1> HIDE DEF r
<1>2. DOMAIN r = 1..Len(r)
  BY <1>1, SeqIs
<1>3. Len(x) \in Nat /\ DOMAIN x = 1..Len(x)
  BY SeqIs
<1>4. Len(y) \in Nat /\ DOMAIN y = 1..Len(y)
  BY SeqIs
<1>5. \A k \in DOMAIN r : \/ k \in DOMAIN x /\ r[k] = x[k]
                          \/ k - Len(x) \in DOMAIN y /\ r[k] = y[k - Len(x)]
  BY <1>1, <1>2, <1>3, <1>4
<1> QED
  BY <1>1, <1>5 DEF r

(* A page put at the end. *)
LEMMA PushedSound ==
  ASSUME Base, NEW s \in InFlight, calls[s].op = "load", calls[s].phase = "served",
         calls[s].ok, Right(calls[s]), Sound(calls[s].list)
  PROVE  Sound(Pushed(calls[s]))
<1> DEFINE c == calls[s]
           old == c.list.rows
           new == Fresh(c)
           q == Listing(c.base)
           r == old \o new
           from == c.from
<1>1. /\ TypeOK /\ c \in Records
      /\ Pushed(c).rows = r /\ Pushed(c).base = c.list.base
      /\ Pushed(c).mixed = (Shifted(c) \/ (c.data # <<>> /\ Len(old) # from * PAGE))
  BY ArraysAreLists, PlacedAreLists DEF Base
<1> SUFFICES ASSUME ~Shifted(c), ~(c.data # <<>> /\ Len(old) # from * PAGE)
             PROVE  Sound(Pushed(c))
  BY <1>1 DEF Sound
<1>2. c.list.base = c.base /\ ~hist.moved /\ c.base \in {"all", "some"} /\ Whole(old, c.base)
  BY UnmixedIs
<1>3. /\ new \in Seq(Pairs) /\ (new = <<>> <=> c.data = <<>>)
      /\ Len(new) = Len(PageOf(q, c.from))
      /\ \A k \in DOMAIN new : new[k][1] = PageOf(q, c.from)[k]
  BY <1>2, FreshRows
<1>4. old \in Seq(Pairs) /\ from \in Nat
  BY <1>1 DEF Records, Lists
<1>5. q \in Seq(Ids)
  BY <1>1, <1>2, ListingIs
<1>6. Leading(old, q)
  BY <1>2 DEF Whole
<1>7. c.data # <<>> => Len(old) = from * PAGE
  OBVIOUS
<1>8. Len(new) = Len(PageOf(q, from)) /\ \A k \in DOMAIN new : new[k][1] = PageOf(q, from)[k]
  BY <1>3
<1> DEFINE base == c.base
           a == Len(old)
           noData == c.data = <<>>
<1>9. base \in {"all", "some"} /\ (new = <<>> <=> noData) /\ (~noData => a = from * PAGE)
  BY <1>2, <1>3, <1>7
<1>10. r = old \o new /\ q = Listing(base)
  OBVIOUS
<1> HIDE DEF c, old, new, q, r, from, base, noData
<1>11. a \in Nat /\ DOMAIN old = 1..a /\ Len(new) \in Nat /\ DOMAIN new = 1..Len(new)
  BY <1>3, <1>4, SeqIs
<1>12. r \in Seq(Pairs) /\ Len(r) = a + Len(new)
  <2>1. old \o new \in Seq(Pairs) /\ Len(old \o new) = Len(old) + Len(new)
    <3>1. old \in Seq(Pairs) /\ new \in Seq(Pairs)
      BY <1>3, <1>4
    <3> QED
      BY <3>1, Joined
  <2> QED
    BY <1>10, <2>1
<1>14. \A k \in DOMAIN r : \/ k \in DOMAIN old /\ r[k] = old[k]
                           \/ k - a \in DOMAIN new /\ r[k] = new[k - a]
  BY <1>3, <1>4, <1>10, Joined
<1> HIDE DEF a
<1>15. Leading(r, q)
  <2>1. CASE noData
    <3>1. Len(new) = 0
      BY <1>9, <2>1
    <3>2. DOMAIN new = {}
      BY <1>11, <3>1
    <3>3. \A k \in DOMAIN r : k \in DOMAIN old /\ r[k] = old[k]
      BY <1>14, <3>2
    <3>4. Len(r) = a
      BY <1>11, <1>12, <3>1
    <3> QED
      BY <1>4, <1>5, <1>6, <1>12, <3>3, <3>4, LeadingAgain DEF a
  <2>2. CASE ~noData
    <3>1. a = from * PAGE /\ a \in Nat
      BY <1>9, <1>11, <2>2
    <3>2. Len(r) = IF a + Len(new) < a THEN a ELSE a + Len(new)
      BY <1>11, <1>12
    <3>3. a <= Len(old) /\ Len(r) = IF a + Len(new) < Len(old) THEN Len(old) ELSE a + Len(new)
      BY <1>11, <3>2 DEF a
    <3>4. Placing(q, from, old, new, r, a)
      BY <1>3, <1>4, <1>5, <1>6, <1>8, <1>12, <1>14, <3>1, <3>3 DEF Placing
    <3> QED
      BY <3>4, PagePlaced
  <2> QED
    BY <2>1, <2>2
<1>16. Whole(r, base)
  BY <1>1, <1>9, <1>10, <1>12, <1>15, WholeIs
<1> QED
  BY <1>1, <1>2, <1>16, WholeIsSound DEF base

(* A list in another order, or without one of its rows. *)
LEMMA SortedSound ==
  ASSUME Base, list.rows # <<>>, Sound(list)
  PROVE  Sound(Sorted)
<1>1. /\ Sorted.base = "sorted" /\ Sorted.mixed = list.mixed
      /\ \E p \in [DOMAIN list.rows -> DOMAIN list.rows] :
           /\ \A i, j \in DOMAIN list.rows : p[i] = p[j] => i = j
           /\ Sorted.rows = [k \in DOMAIN list.rows |-> list.rows[p[k]]]
  BY SortedIs DEF Base
<1>2. PICK p \in [DOMAIN list.rows -> DOMAIN list.rows] :
        /\ \A i, j \in DOMAIN list.rows : p[i] = p[j] => i = j
        /\ Sorted.rows = [k \in DOMAIN list.rows |-> list.rows[p[k]]]
  BY <1>1
<1>3. Distinct(list.rows) => Distinct(Sorted.rows)
  <2> DEFINE r == Sorted.rows
             q == list.rows
  <2>1. r = [k \in DOMAIN q |-> q[p[k]]] /\ \A i, j \in DOMAIN q : p[i] = p[j] => i = j
    BY <1>2
  <2>2. p \in [DOMAIN q -> DOMAIN q]
    OBVIOUS
  <2> HIDE DEF r, q
  <2> QED
    BY <2>1, <2>2 DEF Distinct, r, q
<1> QED
  BY <1>1, <1>3 DEF Sound

(* A copy of a sound list is sound. *)
LEMMA CopiedSound ==
  ASSUME Base, NEW s \in InFlight, Sound(calls[s].list)
  PROVE  Sound(Copied(calls[s]))
<1> DEFINE c == calls[s]
<1>1. /\ Copied(c).rows = c.list.rows /\ Copied(c).base = c.list.base
      /\ Copied(c).mixed = c.list.mixed
  BY PlacedAreLists
<1> QED
  BY <1>1 DEF Sound

(* A sound list without one of its rows is sound. *)
LEMMA CutSound ==
  ASSUME Base, NEW s \in InFlight, calls[s].op = "manage", calls[s].phase = "served",
         calls[s].act = "delete", Sound(calls[s].list)
  PROVE  Sound(Cut(calls[s]))
<1> DEFINE c == calls[s]
           L == c.list
<1>1. c \in Records /\ Fits(c) /\ L \in Lists
  BY ArraysAreLists DEF Base, Records
<1>2. CASE Cut(c) = Copied(c)
  BY <1>2, CopiedSound
<1>3. CASE Cut(c) # Copied(c)
  <2>1. /\ Cut(c).mixed = L.mixed /\ Cut(c).base = (IF c.ok THEN L.base ELSE "cut")
        /\ \E k \in DOMAIN L.rows :
             /\ L.rows[k][1] = c.id
             /\ \A i \in DOMAIN Cut(c).rows : \E j \in DOMAIN L.rows :
                  j # k /\ Cut(c).rows[i] = L.rows[j] /\ j = (IF i < k THEN i ELSE i + 1)
    BY <1>3, CutIs
  <2>2. c.ok => hist.moved
    BY <1>1 DEF Fits
  <2>3. PICK k \in DOMAIN L.rows :
          \A i \in DOMAIN Cut(c).rows : \E j \in DOMAIN L.rows :
            j # k /\ Cut(c).rows[i] = L.rows[j] /\ j = (IF i < k THEN i ELSE i + 1)
    BY <2>1
  <2>4. Cut(c) \in Lists
    BY CutIs
  <2> DEFINE r == Cut(c).rows
             q == L.rows
  <2>5. /\ r \in Seq(Pairs) /\ q \in Seq(Pairs) /\ k \in DOMAIN q
        /\ \A i \in DOMAIN r : \E j \in DOMAIN q :
             r[i] = q[j] /\ j = (IF i < k THEN i ELSE i + 1)
    BY <1>1, <2>3, <2>4 DEF Lists
  <2>6. Distinct(q) => Distinct(r)
    <3> HIDE DEF r, q
    <3> SUFFICES ASSUME Distinct(q), NEW i \in DOMAIN r, NEW j \in DOMAIN r, r[i][1] = r[j][1]
                 PROVE  i = j
      BY DEF Distinct
    <3>1. PICK x \in DOMAIN q : r[i] = q[x] /\ x = (IF i < k THEN i ELSE i + 1)
      BY <2>5
    <3>2. PICK y \in DOMAIN q : r[j] = q[y] /\ y = (IF j < k THEN j ELSE j + 1)
      BY <2>5
    <3>3. x = y
      BY <3>1, <3>2 DEF Distinct
    <3>4. i \in Nat /\ j \in Nat /\ k \in Nat
      BY <2>5, SeqIs
    <3> QED
      BY <3>1, <3>2, <3>3, <3>4
  <2>7. L.mixed \in BOOLEAN /\ (c.ok => hist.moved) /\ Cut(c).mixed = L.mixed
        /\ Cut(c).base = (IF c.ok THEN L.base ELSE "cut")
    BY <1>1, <2>1, <2>2 DEF Lists
  <2>8. ~L.mixed => Distinct(L.rows)
    BY DEF Sound
  <2>9. ~L.mixed => Distinct(Cut(c).rows)
    BY <2>6, <2>8
  <2>10. ~(~hist.moved /\ Cut(c).base \in {"all", "some"})
    <3>1. CASE c.ok
      BY <2>7, <3>1
    <3>2. CASE ~c.ok
      BY <2>7, <3>2
    <3> QED
      BY <3>1, <3>2
  <2>11. Sound(Cut(c))
    <3> HIDE DEF c
    <3> QED
      BY <2>7, <2>9, <2>10 DEF Sound
  <2> QED
    BY <2>11
<1> QED
  BY <1>2, <1>3

\* The lists, and the answers that wait for their handlers.
Sounds == /\ \A L \in Arrays : Sound(L)
          /\ \A s \in InFlight : Right(calls[s])

(* Each list that a step makes is sound. *)
LEMMA MadeSound ==
  ASSUME Base, Sounds, NEW l, Made(l)
  PROVE  Sound(l)
<1>1. /\ Sound(list) /\ \A s \in InFlight : Sound(calls[s].list) /\ Right(calls[s])
  BY DEF Sounds, Arrays
<1>2. CASE l = list
  BY <1>1, <1>2
<1>3. CASE l = Sorted /\ list.rows # <<>>
  BY <1>1, <1>3, SortedSound
<1>4. ASSUME NEW s \in InFlight, calls[s].phase = "served",
             \/ calls[s].op = "manage" /\ l = Copied(calls[s])
             \/ calls[s].op = "manage" /\ calls[s].act = "delete" /\ l = Cut(calls[s])
             \/ calls[s].op = "load" /\ calls[s].ok /\ calls[s].from = 0 /\ l = Replaced(calls[s])
             \/ calls[s].op = "load" /\ calls[s].ok /\ l = Spliced(calls[s])
             \/ calls[s].op = "load" /\ calls[s].ok /\ l = Pushed(calls[s])
             \/ calls[s].op = "search" /\ calls[s].ok /\ l = Replaced(calls[s])
      PROVE  Sound(l)
  <2>1. CASE calls[s].op = "manage" /\ l = Copied(calls[s])
    BY <1>1, <2>1, CopiedSound
  <2>2. CASE calls[s].op = "manage" /\ calls[s].act = "delete" /\ l = Cut(calls[s])
    BY <1>1, <1>4, <2>2, CutSound
  <2>3. CASE calls[s].op = "load" /\ calls[s].ok /\ calls[s].from = 0 /\ l = Replaced(calls[s])
    BY <1>1, <1>4, <2>3, ReplacedSound
  <2>4. CASE calls[s].op = "load" /\ calls[s].ok /\ l = Spliced(calls[s])
    BY <1>1, <1>4, <2>4, SplicedSound
  <2>5. CASE calls[s].op = "load" /\ calls[s].ok /\ l = Pushed(calls[s])
    BY <1>1, <1>4, <2>5, PushedSound
  <2>6. CASE calls[s].op = "search" /\ calls[s].ok /\ l = Replaced(calls[s])
    BY <1>1, <1>4, <2>6, ReplacedSound
  <2> QED
    BY <1>4, <2>1, <2>2, <2>3, <2>4, <2>5, <2>6
<1> QED
  BY <1>2, <1>3, <1>4 DEF Made


\* The rows of the server are the same, or the listings do not count any more.
Still ==
  \/ hist'.moved
  \/ view' = view /\ hist'.moved = hist.moved /\ \A i \in Ids : db[i] = 0 <=> db'[i] = 0

(* A sound list stays so while no row of the server comes or goes, or after the listings
   have moved. *)
LEMMA SoundStays ==
  ASSUME Still, NEW L, Sound(L)
  PROVE  Sound(L)'
<1>1. ~L.mixed => Distinct(L.rows)
  BY DEF Sound
<1>2. CASE hist'.moved
  BY <1>1, <1>2 DEF Sound, Distinct
<1>3. CASE ~hist'.moved
  <2>1. /\ view' = view /\ hist'.moved = hist.moved /\ \A i \in Ids : db[i] = 0 <=> db'[i] = 0
    BY <1>3 DEF Still
  <2>2. Listing(L.base)' = Listing(L.base)
    BY <2>1, ListingStays
  <2>3. ~L.mixed /\ L.base \in {"all", "some"} => Leading(L.rows, Listing(L.base))
    BY <1>3, <2>1 DEF Sound
  <2> QED
    BY <1>1, <2>2, <2>3 DEF Sound, Distinct, Leading
<1> QED
  BY <1>2, <1>3

(* ... and a right answer stays right. *)
LEMMA RightStays ==
  ASSUME Still, NEW c, Right(c), NEW t,
         calls'[t].op = c.op, calls'[t].phase = c.phase, calls'[t].ok = c.ok,
         calls'[t].data = c.data, calls'[t].from = c.from, calls'[t].base = c.base
  PROVE  Right(calls[t])'
<1> DEFINE q == Listing(c.base)
           e == Listing(calls[t].base)'
<1>1. e = Listing(c.base)'
  BY DEF Listing
<1>2. ~hist'.moved => e = q /\ hist'.moved = hist.moved
  BY <1>1, ListingStays DEF Still
<1> HIDE DEF q, e
<1>3. c.op \in {"load", "search"} /\ c.phase = "served" /\ c.ok =>
        /\ \A i, j \in DOMAIN c.data : c.data[i].id = c.data[j].id => i = j
        /\ c.op = "load" /\ ~hist.moved =>
             /\ Len(c.data) = Len(PageOf(q, c.from))
             /\ \A k \in DOMAIN c.data : c.data[k].id = PageOf(q, c.from)[k]
  BY DEF Right, q
<1>4. c.op \in {"load", "search"} /\ c.phase = "served" /\ c.ok =>
        /\ \A i, j \in DOMAIN c.data : c.data[i].id = c.data[j].id => i = j
        /\ c.op = "load" /\ ~hist'.moved =>
             /\ Len(c.data) = Len(PageOf(e, c.from))
             /\ \A k \in DOMAIN c.data : c.data[k].id = PageOf(e, c.from)[k]
  BY <1>2, <1>3
<1>5. PageOf(Listing(calls[t].base), calls[t].from)' = PageOf(e, c.from)
  BY DEF PageOf, e
<1> QED
  BY <1>4, <1>5 DEF Right


(* A page has each of its rows once. *)
LEMMA PageDistinct ==
  ASSUME NEW q \in Seq(Ids), NEW from \in Nat,
         \A i, j \in DOMAIN q : q[i] = q[j] => i = j
  PROVE  \A i, j \in DOMAIN PageOf(q, from) : PageOf(q, from)[i] = PageOf(q, from)[j] => i = j
<1> DEFINE p == PageOf(q, from)
           a == from * PAGE
<1>1. Cutting(p, q, a)
  BY PageAt
<1>2. p \in Seq(Ids) /\ \A k \in DOMAIN p : a + k \in DOMAIN q /\ p[k] = q[a + k]
  BY <1>1 DEF Cutting
<1>3. a \in Nat
  BY TableAssumption
<1> HIDE DEF p, a
<1>4. DOMAIN p = 1..Len(p) /\ Len(p) \in Nat
  BY <1>2, SeqIs
<1> SUFFICES ASSUME NEW i \in DOMAIN p, NEW j \in DOMAIN p, p[i] = p[j]
             PROVE  i = j
  BY DEF p
<1>5. a + i = a + j
  BY <1>2
<1> QED
  BY <1>3, <1>4, <1>5

(* The answer of the server to a call for rows is right. *)
LEMMA OutcomeRight ==
  ASSUME TypeOK, NEW c \in Records, Fits(c), c.op \in {"load", "search"},
         NEW m, m.op = c.op, m.base = c.base, m.from = c.from, m.data = Outcome(c)
  PROVE  Right(m)
<1> DEFINE load == c.op = "load"
           all == Listing(c.base)
           p == PageOf(all, c.from)
           q == IF load THEN p ELSE Listing("found")
<1>1. q \in Seq(Ids) /\ Outcome(c) = Answer(q)
  BY OutcomeIs
<1>2. /\ Len(m.data) = Len(q) /\ DOMAIN m.data = DOMAIN q
      /\ \A k \in DOMAIN q : m.data[k].id = q[k]
  <2> HIDE DEF q
  <2> QED
    BY <1>1, AnswerIs
<1>3. \A i, j \in DOMAIN q : q[i] = q[j] => i = j
  <2>1. CASE load
    <3>1. c.base \in {"all", "some"} /\ c.from \in Nat
      BY <2>1 DEF Fits, Records
    <3>2. all \in Seq(Ids) /\ \A i, j \in DOMAIN all : all[i] = all[j] => i = j
      BY <3>1, ListingIs
    <3> HIDE DEF all
    <3>3. \A i, j \in DOMAIN p : p[i] = p[j] => i = j
      BY <3>1, <3>2, PageDistinct
    <3> QED
      BY <2>1, <3>3
  <2>2. CASE ~load
    <3>1. \A i, j \in DOMAIN Listing("found") : Listing("found")[i] = Listing("found")[j] => i = j
      BY ListingIs
    <3> QED
      BY <2>2, <3>1
  <2> QED
    BY <2>1, <2>2
<1>4. m.op = "load" => q = PageOf(Listing(m.base), m.from)
  OBVIOUS
<1> HIDE DEF q
<1>5. \A i, j \in DOMAIN m.data : m.data[i].id = m.data[j].id => i = j
  BY <1>2, <1>3
<1> QED
  BY <1>2, <1>4, <1>5 DEF Right

(* An answer comes. *)
LEMMA ServeSounds ==
  ASSUME Base, Sounds, NEW s \in Slots, Serve(s)
  PROVE  Sounds'
<1> DEFINE c == calls[s]
           n == calls'[s]
<1>1. /\ s \in InFlight /\ c.phase = "asked" /\ c \in Records /\ Fits(c)
      /\ InFlight' = InFlight
      /\ \A t \in Slots : t # s => calls'[t] = calls[t]
      /\ view' = view /\ Arrays' = Arrays /\ TypeOK
  BY ServeIs, ServeKeeps DEF Base
<1>2. /\ n.phase = "served"
      /\ n.op = c.op /\ n.from = c.from /\ n.base = c.base
      /\ n.data = IF n.ok THEN Outcome(c) ELSE <<>>
      /\ db' = IF n.ok /\ c.op = "manage" THEN Applied(c) ELSE db
      /\ hist'.moved = (hist.moved \/ \E i \in Ids : db[i] # 0 /\ db'[i] = 0)
      /\ hist' \in History
  BY ServeIs
<1>3. Still
  <2>1. \A i \in Ids : db[i] = 0 => db'[i] = 0
    BY <1>1, <1>2, AppliedIs
  <2>2. hist.moved \in BOOLEAN
    BY <1>1 DEF TypeOK, History
  <2> QED
    BY <1>1, <1>2, <2>1, <2>2 DEF Still
<1>4. \A L \in Arrays' : Sound(L)'
  BY <1>1, <1>3, SoundStays DEF Sounds
<1>5. ASSUME NEW t \in InFlight' PROVE Right(calls[t])'
  <2>1. CASE t # s
    <3>1. t \in InFlight /\ t \in Slots /\ calls'[t] = calls[t]
      BY <1>1, <2>1 DEF InFlight
    <3>2. Right(calls[t])
      BY <3>1 DEF Sounds
    <3>3. PICK m : m = calls[t]
      OBVIOUS
    <3> QED
      BY <1>3, <3>1, <3>2, <3>3, RightStays
  <2>2. CASE t = s
    <3>1. PICK m : m = calls'[s]
      OBVIOUS
    <3>2. CASE c.op \in {"load", "search"} /\ n.ok
      <4>1. m.op = c.op /\ m.base = c.base /\ m.from = c.from /\ m.data = Outcome(c)
        BY <1>2, <3>1, <3>2
      <4>2. Right(m)
        BY <1>1, <3>2, <4>1, OutcomeRight
      <4> QED
        BY <1>3, <2>2, <3>1, <4>2, RightStays
    <3>3. CASE ~(c.op \in {"load", "search"} /\ n.ok)
      <4>1. Right(m)
        BY <1>2, <3>1, <3>3 DEF Right
      <4> QED
        BY <1>3, <2>2, <3>1, <4>1, RightStays
    <3> QED
      BY <3>2, <3>3
  <2> QED
    BY <2>1, <2>2
<1> QED
  BY <1>4, <1>5 DEF Sounds

(* A call is lost. *)
LEMMA LostSounds ==
  ASSUME Base, Sounds, NEW s \in Slots, Lost(s)
  PROVE  Sounds'
<1>1. /\ s \in InFlight /\ view' = view /\ TypeOK /\ calls[s] \in Records
      /\ Arrays' \subseteq Arrays /\ InFlight' = InFlight \ {s}
      /\ \A t \in InFlight' : /\ Likewise(calls'[t], calls[t])
                              /\ calls'[t].phase = calls[t].phase /\ calls'[t].ok = calls[t].ok
                              /\ calls'[t].data = calls[t].data
      /\ db' = db \/ (calls[s].op = "manage" /\ db' = Applied(calls[s]))
      /\ hist'.moved = (hist.moved \/ \E i \in Ids : db[i] # 0 /\ db'[i] = 0)
  BY LostIs, ArraysAreLists DEF Base
<1>2. Still
  <2>1. \A i \in Ids : db[i] = 0 => db'[i] = 0
    BY <1>1, AppliedIs
  <2>2. hist.moved \in BOOLEAN
    BY <1>1 DEF TypeOK, History
  <2> QED
    BY <1>1, <2>1, <2>2 DEF Still
<1>3. \A L \in Arrays' : Sound(L)'
  BY <1>1, <1>2, SoundStays DEF Sounds
<1>4. ASSUME NEW t \in InFlight' PROVE Right(calls[t])'
  <2>1. t \in InFlight /\ Right(calls[t])
    BY <1>1 DEF Sounds
  <2>2. PICK m : m = calls[t]
    OBVIOUS
  <2> QED
    BY <1>1, <1>2, <2>1, <2>2, RightStays DEF Likewise
<1> QED
  BY <1>3, <1>4 DEF Sounds

(* Another administrator. *)
LEMMA ForeignSounds ==
  ASSUME Base, Sounds, Foreign
  PROVE  Sounds'
<1>1. /\ UNCHANGED <<view, list, calls>> /\ hist'.moved
  BY ForeignIs
<1>2. Still
  BY <1>1 DEF Still
<1>3. Arrays' = Arrays /\ InFlight' = InFlight
  BY <1>1 DEF Arrays, InFlight, Unneeded, None
<1>4. \A L \in Arrays' : Sound(L)'
  BY <1>2, <1>3, SoundStays DEF Sounds
<1>5. ASSUME NEW t \in InFlight' PROVE Right(calls[t])'
  <2>1. Right(calls[t]) /\ calls'[t] = calls[t]
    BY <1>1, <1>3 DEF Sounds
  <2>2. PICK m : m = calls[t]
    OBVIOUS
  <2> QED
    BY <1>2, <2>1, <2>2, RightStays
<1> QED
  BY <1>4, <1>5 DEF Sounds

(* A handler, or a button. *)
LEMMA StepSounds ==
  ASSUME Base, Sounds, NEW l, NEW o, NEW u, NEW cs, NEW sw, NEW h, Step(l, o, u, cs, sw, h)
  PROVE  Sounds'
<1>1. /\ Become(l, o, u, cs, sw, h) /\ Prepared(l, o, u, cs, h) /\ h \in History
      /\ (hist.moved => h.moved) /\ db' = db /\ db' \in [Ids -> 0..2]
  BY StepBecomes
<1>2. /\ Arrays' \subseteq {l} \cup Arrays
      /\ hist' = h /\ view' = view
      /\ InFlight' = {s \in Slots : cs[s] # None}
      /\ \A s \in InFlight' :
           /\ Likewise(calls'[s], cs[s]) /\ calls'[s].phase = cs[s].phase
           /\ calls'[s].ok = cs[s].ok /\ calls'[s].data = cs[s].data
  BY <1>1, Becomes
<1>3. Made(l) /\ Goes(cs) /\ h.moved = hist.moved
  BY DEF Step, Sets, Remembers
<1>4. Still
  BY <1>1, <1>2, <1>3 DEF Still
<1>5. \A L \in Arrays' : Sound(L)'
  BY <1>2, <1>3, <1>4, SoundStays, MadeSound DEF Sounds
<1>6. ASSUME NEW t \in InFlight' PROVE Right(calls[t])'
  <2>1. t \in Slots /\ cs[t] # None /\ (cs[t] \in {calls[t], None} \/ cs[t].phase = "asked")
    BY <1>2, <1>3 DEF Goes
  <2>2. Right(cs[t])
    <3>1. CASE cs[t] = calls[t]
      <4>1. t \in InFlight
        BY <1>2, <3>1 DEF InFlight
      <4> QED
        BY <3>1, <4>1 DEF Sounds
    <3>2. CASE cs[t].phase = "asked"
      BY <3>2 DEF Right
    <3> QED
      BY <2>1, <1>2, <3>1, <3>2
  <2> QED
    BY <1>2, <1>4, <2>2, RightStays DEF Likewise
<1> QED
  BY <1>5, <1>6 DEF Sounds


(* The lists are sound at the start, and stay so. *)
LEMMA StartsSound ==
  ASSUME Init
  PROVE  Sounds
<1>1. /\ Base /\ list.rows = <<>> /\ list.base = "all"
      /\ \A L \in Arrays : L = Unneeded \/ L = list
      /\ \A s \in InFlight : calls[s].phase = "asked"
  BY Starts
<1>2. Leading(<<>>, Listing("all")) /\ Distinct(<<>>)
  <2>1. Listing("all") \in Seq(Ids)
    BY <1>1, ListingIs DEF Base
  <2> DEFINE q == Listing("all")
  <2> HIDE DEF q
  <2>2. Len(q) \in Nat
    BY <2>1 DEF q
  <2>3. 0 = 0 * PAGE
    BY TableAssumption
  <2> QED
    BY <2>2, <2>3 DEF Leading, Distinct, q
<1>3. \A L \in Arrays : L.rows = <<>> /\ L.base = "all"
  BY <1>1 DEF Unneeded
<1>4. \A L \in Arrays : Sound(L)
  BY <1>2, <1>3 DEF Sound
<1>5. \A s \in InFlight : Right(calls[s])
  BY <1>1 DEF Right
<1> QED
  BY <1>4, <1>5 DEF Sounds

(* Every step keeps all lists sound and all waiting answers right. *)
LEMMA SoundsStay ==
  ASSUME Base, Sounds, [Next]_vars
  PROVE  Sounds'
<1>1. CASE UNCHANGED vars
  <2>1. Still
    BY <1>1 DEF Still, vars
  <2>2. Arrays' = Arrays /\ InFlight' = InFlight
    BY <1>1 DEF Arrays, InFlight, Unneeded, None, vars
  <2>3. \A L \in Arrays' : Sound(L)'
    BY <2>1, <2>2, SoundStays DEF Sounds
  <2>4. ASSUME NEW t \in InFlight' PROVE Right(calls[t])'
    <3>1. Right(calls[t]) /\ calls'[t] = calls[t]
      BY <1>1, <2>2 DEF Sounds, vars
    <3>2. PICK m : m = calls[t]
      OBVIOUS
    <3> QED
      BY <2>1, <3>1, <3>2, RightStays
  <2> QED
    BY <2>3, <2>4 DEF Sounds
<1>2. CASE Next
  <2>1. CASE \E s \in Slots : Serve(s) \/ Lost(s)
    BY <2>1, ServeSounds, LostSounds
  <2>2. CASE Foreign
    BY <2>2, ForeignSounds
  <2>3. CASE \E l, o, u, cs, sw, h : Step(l, o, u, cs, sw, h)
    BY <2>3, StepSounds
  <2> QED
    BY <1>2, <2>1, <2>2, <2>3, NextIs
<1> QED
  BY <1>1, <1>2

(* No row is listed twice, however the calls overlap, unless pages came together
   that do not belong together. *)
THEOREM RowsAreListedOnce == Spec => []NoRowTwice
<1>1. Init => Base /\ Sounds
  BY Starts, StartsSound
<1>2. Base /\ Sounds /\ [Next]_vars => Base' /\ Sounds'
  BY BaseStays, SoundsStay
<1>3. Base /\ Sounds => NoRowTwice
  BY DEF Sounds, Arrays, Sound, Distinct, NoRowTwice
<1> QED
  BY <1>1, <1>2, <1>3, PTL DEF Spec

(* The number of pages of a list whose pages are all full. *)
LEMMA FullPages ==
  ASSUME NEW n \in Nat, NEW b \in Nat \ {0}
  PROVE  /\ CeilDiv(n * b, b) = n /\ CeilDiv(n * b + 1, b) = n + 1
         /\ (n * b) % b = 0
<1>1. \A r \in 0..(b - 1) : (n * b + r) \div b = n
  OBVIOUS
<1>2. n * b \in Nat
  OBVIOUS
<1> DEFINE m == n * b
<1>3. CeilDiv(m, b) = n
  <2>1. (m + (b - 1)) \div b = n
    BY <1>1
  <2>2. m + (b - 1) = m + b - 1
    BY <1>2
  <2> QED
    BY <2>1, <2>2 DEF CeilDiv
<1>4. CeilDiv(m + 1, b) = n + 1
  <2>1. ((n + 1) * b) \div b = n + 1
    OBVIOUS
  <2>2. m + b = (n + 1) * b
    BY NextPage
  <2> HIDE DEF m
  <2>3. m + 1 + b - 1 = m + b
    BY <1>2 DEF m
  <2> QED
    BY <2>1, <2>2, <2>3 DEF CeilDiv
<1>5. m % b = 0
  OBVIOUS
<1> QED
  BY <1>3, <1>4, <1>5

(* A row that is not in the list is on a page that can be turned to. *)
LEMMA InReach ==
  ASSUME Base, Sounds
  PROVE  NothingOutOfReach
<1> SUFFICES ASSUME ~hist.moved, ~list.mixed, view \notin AirViews, list.base = ui.order
             PROVE  \/ Range(Listing(list.base)) \subseteq IdsIn(list.rows)
                    \/ Offered > CeilDiv(Len(list.rows), ui.size)
  BY DEF NothingOutOfReach
<1>1. /\ ui.size = PAGE /\ list.base \in {"all", "some"} /\ TypeOK
      /\ list.rows \in Seq(Pairs)
  BY UiIs DEF Base, UiFits
<1> DEFINE q == Listing(list.base)
           r == list.rows
<1>2. Leading(r, q)
  BY <1>1 DEF Sounds, Arrays, Sound
<1>3. q \in Seq(Ids)
  BY <1>1, ListingIs
<1>4. r \in Seq(Pairs)
  BY <1>1
<1>5. CASE Len(r) = Len(q)
  <2> HIDE DEF r, q
  <2>1. DOMAIN r = 1..Len(r)
    BY <1>4, SeqIs
  <2>2. DOMAIN q = 1..Len(q)
    BY <1>3, SeqIs
  <2>3. \A k \in DOMAIN q : k \in DOMAIN r /\ q[k] = r[k][1]
    BY <1>2, <1>5, <2>1, <2>2 DEF Leading
  <2>4. Range(q) \subseteq IdsIn(r)
    BY <2>3 DEF Range, IdsIn
  <2> QED
    BY <2>4 DEF r, q
<1>6. CASE Len(r) # Len(q)
  <2>1. PICK n \in Nat : Len(r) = n * PAGE
    BY <1>2, <1>6 DEF Leading
  <2>2. PAGE \in Nat \ {0}
    BY TableAssumption
  <2>3. CeilDiv(Len(r), PAGE) = n /\ CeilDiv(Len(r) + 1, PAGE) = n + 1 /\ Len(r) % PAGE = 0
    BY <2>1, <2>2, FullPages
  <2>4. CASE view \in DefaultViews
    <3>1. D!Pages = CeilDiv(Len(r), PAGE) + 1
      BY <2>3, WordsD DEF D!Pages
    <3> QED
      BY <1>1, <2>3, <2>4, <3>1 DEF Offered
  <2>5. CASE view \notin DefaultViews
    <3>1. B!Pages = CeilDiv(Len(r) + 1, PAGE)
      BY <2>3, WordsB DEF B!Pages
    <3> QED
      BY <1>1, <2>3, <2>5, <3>1 DEF Offered
  <2> QED
    BY <2>4, <2>5
<1> QED
  BY <1>5, <1>6

(* While a row is missing from the list, a page beyond the loaded ones is offered. *)
THEOREM RowsAreInReach == Spec => []NothingOutOfReach
<1>1. Init => Base /\ Sounds
  BY Starts, StartsSound
<1>2. Base /\ Sounds /\ [Next]_vars => Base' /\ Sounds'
  BY BaseStays, SoundsStay
<1>3. Base /\ Sounds => NothingOutOfReach
  BY InReach
<1> QED
  BY <1>1, <1>2, <1>3, PTL DEF Spec


(***************************************************************************)
(* What the tables show.  The state after a step is given by the list l,   *)
(* the objects o, the calls cs and the rows d of the server.               *)
(***************************************************************************)
Of(L) == {L.rows[k] : k \in DOMAIN L.rows}
Alike(L, M) == Of(L) = Of(M) /\ L.mixed = M.mixed
On(cs) == {s \in Slots : cs[s] # None}

\* The server has done what was asked, and the handler has not gone on yet.
Waits(c) == c.op = "manage" /\ c.phase = "served" /\ c.ok
Purging(cs) == \E s \in On(cs) : Waits(cs[s]) /\ cs[s].act = "purge"
Owed(i, cs) ==
  \E s \in On(cs) : /\ Waits(cs[s])
                    /\ cs[s].act = "purge" \/ (cs[s].act \in Changing /\ cs[s].id = i)

\* The answer that waits is still true.
Candid(c, cs, d) ==
  c.phase = "served" /\ c.ok =>
    /\ c.op \in {"load", "search"} => \A k \in DOMAIN c.data : c.data[k].status = d[c.data[k].id]
    /\ c.op = "manage" /\ c.id # 0 => c.data[1].status = d[c.id] \/ Purging(cs)

\* A row shows what the server has, or an answer is there that will change it.
Shows(r, o, cs, d) == o[r].gone \/ o[r].status = d[r[1]] \/ Owed(r[1], cs)

\* The calls do not meddle with each other, they hold the rows that are shown, and what
\* the rows show is true or about to be.
Honest(l, o, cs, d) ==
  /\ \A s, t \in On(cs) : s # t => Apart(cs[s], cs[t])
  /\ \A s \in On(cs) : cs[s].list = Unneeded \/ Alike(cs[s].list, l)
  /\ \A s \in On(cs) : Candid(cs[s], cs, d)
  /\ ~l.mixed => \A r \in Of(l) : Shows(r, o, cs, d)

\* While nobody disturbs, default and air are honest.
Calm == view \notin BerryViews /\ ~hist.disturbed
Truth == Calm => Honest(list, obj, calls, db)

(* The calls in flight, of the state as it is. *)
LEMMA InFlightIs == InFlight = On(calls)
BY DEF InFlight, On

(* A load or a search is alone, and so is a deletion in air. *)
LEMMA AloneIs ==
  ASSUME NEW cs, \A s, t \in On(cs) : s # t => Apart(cs[s], cs[t]), NEW s \in On(cs),
         cs[s].op # "manage" \/ (cs[s].act = "delete" /\ view \in AirViews)
  PROVE  On(cs) = {s}
<1>1. view \in AirViews => view \notin DefaultViews
  BY ViewsApart
<1>2. \A t \in On(cs) : t = s
  <2> SUFFICES ASSUME NEW t \in On(cs), t # s PROVE FALSE
    OBVIOUS
  <2>1. Apart(cs[s], cs[t])
    OBVIOUS
  <2> QED
    BY <1>1, <2>1 DEF Apart
<1> QED
  BY <1>2

(* The calls after a handler went on. *)
LEMMA GoingIs ==
  ASSUME Base, NEW s \in InFlight, NEW n
  PROVE  LET cs == Going(s, n)
         IN  /\ cs[s] = n /\ \A t \in Slots : t # s => cs[t] = calls[t]
             /\ n = None => On(cs) = On(calls) \ {s}
             /\ On(cs) \subseteq On(calls) \cup {s}
<1>1. s \in Slots /\ calls \in [Slots -> Records \cup {None}]
  BY DEF InFlight, Base, TypeOK
<1>2. Going(s, n)[s] = n /\ \A t \in Slots : t # s => Going(s, n)[t] = calls[t]
  BY <1>1 DEF Going
<1> QED
  BY <1>1, <1>2 DEF On

(* A new call, which touches no row of another. *)
LEMMA BegunHonest ==
  ASSUME Base, Honest(list, obj, calls, db), NEW l, NEW o, NEW cs, NEW h,
         Begun(l, o, cs, h), ~h.disturbed
  PROVE  Honest(l, o, cs, db)
<1> DEFINE By(s, c) ==
             /\ calls[s] = None /\ NewCall(c) /\ l = list /\ o = obj /\ cs = Going(s, c)
             /\ \A t \in InFlight : Apart(c, calls[t])
<1>0. PICK s \in Slots : \E c : By(s, c)
  BY DEF Begun
<1>1. PICK c : By(s, c)
  BY <1>0
<1>2. calls \in [Slots -> Records \cup {None}] /\ c \in Records /\ c # None
      /\ c.list \in {list, Unneeded} /\ c.phase = "asked"
  BY <1>1, NoneIsNoRecord DEF Base, TypeOK, NewCall
<1>3. cs[s] = c /\ \A t \in Slots : t # s => cs[t] = calls[t]
  BY <1>1, <1>2 DEF Going
<1>4. On(cs) = On(calls) \cup {s} /\ s \notin On(calls) /\ On(calls) = InFlight
  BY <1>1, <1>2, <1>3, InFlightIs DEF On
<1>5. \A t \in On(calls) : t # s /\ cs[t] = calls[t]
  BY <1>3, <1>4 DEF On
<1>6. \A t, v \in On(cs) : t # v => Apart(cs[t], cs[v])
  <2> SUFFICES ASSUME NEW t \in On(cs), NEW v \in On(cs), t # v PROVE Apart(cs[t], cs[v])
    OBVIOUS
  <2>1. CASE t = s
    BY <1>1, <1>3, <1>4, <1>5, <2>1
  <2>2. CASE v = s
    <3>1. Apart(c, calls[t])
      BY <1>1, <1>4, <2>2
    <3>2. Apart(calls[t], c)
      BY <3>1 DEF Apart
    <3> QED
      BY <1>3, <1>4, <1>5, <2>2, <3>2
  <2>3. CASE t # s /\ v # s
    BY <1>4, <1>5, <2>3 DEF Honest
  <2> QED
    BY <2>1, <2>2, <2>3
<1>7. Purging(calls) => Purging(cs)
  BY <1>4, <1>5 DEF Purging
<1>8. \A i : Owed(i, calls) => Owed(i, cs)
  BY <1>4, <1>5 DEF Owed
<1>9. \A t \in On(cs) : cs[t].list = Unneeded \/ Alike(cs[t].list, l)
  BY <1>1, <1>2, <1>3, <1>4, <1>5 DEF Honest, Alike
<1>10. \A t \in On(cs) : Candid(cs[t], cs, db)
  <2>1. Candid(c, cs, db)
    BY <1>2 DEF Candid
  <2>2. \A t \in On(calls) : Candid(calls[t], cs, db)
    BY <1>7 DEF Honest, Candid
  <2> QED
    BY <1>3, <1>4, <1>5, <2>1, <2>2
<1>11. ~l.mixed => \A r \in Of(l) : Shows(r, o, cs, db)
  BY <1>1, <1>8 DEF Honest, Shows
<1> QED
  BY <1>6, <1>9, <1>10, <1>11 DEF Honest

(* A list in another order has the same rows. *)
LEMMA SameRows ==
  ASSUME Base, list.rows # <<>>
  PROVE  Of(Sorted) = Of(list) /\ Sorted.mixed = list.mixed
<1> DEFINE q == list.rows
           r == Sorted.rows
<1>1. /\ Sorted.mixed = list.mixed
      /\ \E p \in [DOMAIN q -> DOMAIN q] :
           /\ \A i, j \in DOMAIN q : p[i] = p[j] => i = j
           /\ r = [k \in DOMAIN q |-> q[p[k]]]
  BY SortedIs DEF Base
<1>2. Len(q) \in Nat /\ DOMAIN q = 1..Len(q)
  BY UiIs
<1> HIDE DEF q, r
<1>3. PICK p \in [DOMAIN q -> DOMAIN q] :
        /\ \A i, j \in DOMAIN q : p[i] = p[j] => i = j
        /\ r = [k \in DOMAIN q |-> q[p[k]]]
  BY <1>1
<1>4. \A j \in DOMAIN q : \E k \in DOMAIN q : p[k] = j
  <2> DEFINE K == DOMAIN q
  <2>1. IsFiniteSet(K)
    BY <1>2, FS_Interval
  <2> HIDE DEF K
  <2>2. p \in Injection(K, K)
    BY <1>3 DEF Injection, IsInjective, K
  <2>3. p \in Surjection(K, K)
    BY <2>1, <2>2, FS_Injection
  <2>4. \A j \in K : \E k \in K : p[k] = j
    BY <2>3 DEF Surjection
  <2> QED
    BY <2>4 DEF K
<1>5. DOMAIN r = DOMAIN q /\ \A k \in DOMAIN q : r[k] = q[p[k]]
  BY <1>3
<1>6. {r[k] : k \in DOMAIN r} = {q[k] : k \in DOMAIN q}
  BY <1>4, <1>5
<1> QED
  BY <1>1, <1>6 DEF Of, q, r

(* The list in another order. *)
LEMMA OrderedHonest ==
  ASSUME Base, Honest(list, obj, calls, db), list.rows # <<>>
  PROVE  Honest(Sorted, obj, calls, db)
BY SameRows DEF Honest, Alike


(* What the rows show when an answer with rows has come: nothing else is in flight. *)
LEMMA FilledShows ==
  ASSUME Base, Honest(list, obj, calls, db), NEW s \in InFlight, calls[s].op \in {"load", "search"},
         NEW cs
  PROVE  LET c == calls[s]
         IN  /\ ~list.mixed => \A r \in Of(list) : Shows(r, Filled(c), cs, db)
             /\ c.phase = "served" /\ c.ok =>
                  \A k \in DOMAIN c.data : Shows(Fresh(c)[k], Filled(c), cs, db)
<1> DEFINE c == calls[s]
<1>1. c \in Records /\ TypeOK /\ s \in On(calls)
  BY ArraysAreLists, InFlightIs DEF Base
<1>2. On(calls) = {s}
  BY <1>1, AloneIs DEF Honest
<1>3. \A i : ~Owed(i, calls)
  BY <1>2 DEF Owed, Waits
<1>4. \A r \in Of(list) : r \in DOMAIN obj
  BY RowsHeld DEF Of, Arrays
<1>5. \A r \in DOMAIN obj : Filled(c)[r] = obj[r]
  BY DEF Filled
<1>6. ~list.mixed => \A r \in Of(list) : Shows(r, Filled(c), cs, db)
  BY <1>3, <1>4, <1>5 DEF Honest, Shows
<1>7. ASSUME c.phase = "served", c.ok, NEW j \in DOMAIN c.data
      PROVE  Shows(Fresh(c)[j], Filled(c), cs, db)
  <2> DEFINE r == Fresh(c)[j]
  <2>1. /\ DOMAIN Fresh(c) = DOMAIN c.data
        /\ r \notin DOMAIN obj
        /\ FreshObj(c) \in [{Fresh(c)[k] : k \in DOMAIN c.data} -> Objects]
        /\ \A x \in DOMAIN FreshObj(c) :
             \E k \in DOMAIN c.data : /\ x[1] = c.data[k].id
                                      /\ FreshObj(c)[x].status = c.data[k].status
    BY <1>1, FreshIs
  <2>2. r \in DOMAIN FreshObj(c)
    BY <2>1
  <2>3. Filled(c)[r] = FreshObj(c)[r]
    BY <2>1, <2>2 DEF Filled
  <2>4. \A k \in DOMAIN c.data : c.data[k].status = db[c.data[k].id]
    BY <1>1, <1>7 DEF Honest, Candid
  <2> HIDE DEF c, r
  <2>5. Filled(c)[r].status = db[r[1]]
    BY <2>1, <2>2, <2>3, <2>4
  <2> QED
    BY <2>5 DEF Shows, c, r
<1> QED
  BY <1>6, <1>7

(* The answer to a load or a search. *)
LEMMA AnswerHonest ==
  ASSUME Base, view \notin BerryViews, Honest(list, obj, calls, db), NEW s \in InFlight,
         calls[s].op \in {"load", "search"}, calls[s].phase = "served", NEW n,
         n = None \/ (n.list = Unneeded /\ n.phase = "asked"), NEW l,
         \/ l = list
         \/ calls[s].ok /\ l = Replaced(calls[s])
         \/ calls[s].ok /\ calls[s].from # 0 /\ l = Spliced(calls[s])
         \/ calls[s].ok /\ calls[s].from # 0 /\ l = Pushed(calls[s])
  PROVE  Honest(l, Filled(calls[s]), Going(s, n), db)
<1> DEFINE c == calls[s]
           cs == Going(s, n)
<1>1. c \in Records /\ Fits(c) /\ TypeOK /\ s \in On(calls)
  BY ArraysAreLists, InFlightIs DEF Base
<1>2. On(calls) = {s}
  BY <1>1, AloneIs DEF Honest
<1>3. cs[s] = n /\ On(cs) \subseteq {s}
  BY <1>2, GoingIs
<1>4. n # None \/ On(cs) = {}
  BY <1>2, GoingIs
<1>5. /\ ~list.mixed => \A r \in Of(list) : Shows(r, Filled(c), cs, db)
      /\ c.ok => \A k \in DOMAIN c.data : Shows(Fresh(c)[k], Filled(c), cs, db)
  BY FilledShows
<1>6. ~l.mixed => \A r \in Of(l) : Shows(r, Filled(c), cs, db)
  <2>1. CASE l = list
    BY <1>5, <2>1
  <2>2. CASE c.ok /\ l = Replaced(c)
    <3>1. l.rows = Fresh(c) /\ DOMAIN Fresh(c) = DOMAIN c.data
      BY <1>1, <2>2, PlacedAreLists, FreshIs
    <3> QED
      BY <1>5, <2>2, <3>1 DEF Of
  <2>3. CASE c.ok /\ c.from # 0 /\ l \in {Spliced(c), Pushed(c)}
    <3>1. \A k \in DOMAIN l.rows : \/ \E j \in DOMAIN c.list.rows : l.rows[k] = c.list.rows[j]
                                   \/ \E j \in DOMAIN c.data : l.rows[k] = Fresh(c)[j]
      BY <2>3, RowsFrom
    <3>2. ~l.mixed => ~c.list.mixed
      BY <2>3, PlacedAreLists DEF Shifted
    <3>3. c.list.gen # -1
      BY <1>1, <2>3 DEF Fits
    <3>4. Alike(c.list, list)
      BY <1>1, <3>3, UnneededIs DEF Honest
    <3> HIDE DEF c, cs
    <3>5. ASSUME ~l.mixed, NEW k \in DOMAIN l.rows
          PROVE  Shows(l.rows[k], Filled(c), cs, db)
      <4>1. ~list.mixed /\ \A j \in DOMAIN c.list.rows : c.list.rows[j] \in Of(list)
        BY <3>2, <3>4, <3>5 DEF Alike, Of
      <4> QED
        BY <1>5, <2>3, <3>1, <4>1
    <3> QED
      BY <3>5 DEF Of
  <2> QED
    BY <2>1, <2>2, <2>3
<1> HIDE DEF cs, c
<1>7. \A t \in On(cs) : t = s /\ n # None /\ cs[t].list = Unneeded /\ cs[t].phase = "asked"
  BY <1>3, <1>4
<1>8. \A t \in On(cs) : Candid(cs[t], cs, db)
  BY <1>7 DEF Candid
<1>9. Honest(l, Filled(c), cs, db)
  BY <1>6, <1>7, <1>8 DEF Honest
<1> QED
  BY <1>9 DEF c, cs

(* A page or a search that came leaves an honest state. *)
LEMMA PagedHonest ==
  ASSUME Base, view \notin BerryViews, Honest(list, obj, calls, db), NEW l, NEW o, NEW cs,
         Paged(l, o, cs) \/ Found(l, o, cs)
  PROVE  Honest(l, o, cs, db)
<1>1. CASE Paged(l, o, cs)
  <2>0. PICK s \in InFlight :
          \E n, placed :
            /\ Served(s, "load") /\ cs = Going(s, n) /\ o = Filled(calls[s])
            /\ n = None \/ (n \in Records /\ n.list = Unneeded /\ n.phase = "asked")
            /\ placed \in Placements(calls[s]) /\ l = (IF calls[s].ok THEN placed ELSE list)
    BY <1>1 DEF Paged
  <2>1. PICK n, placed :
          /\ Served(s, "load") /\ cs = Going(s, n) /\ o = Filled(calls[s])
          /\ n = None \/ (n \in Records /\ n.list = Unneeded /\ n.phase = "asked")
          /\ placed \in Placements(calls[s]) /\ l = (IF calls[s].ok THEN placed ELSE list)
    BY <2>0
  <2>2. calls[s].op = "load" /\ calls[s].phase = "served"
    BY <2>1 DEF Served
  <2>3. \/ l = list
        \/ calls[s].ok /\ l = Replaced(calls[s])
        \/ calls[s].ok /\ calls[s].from # 0 /\ l = Spliced(calls[s])
        \/ calls[s].ok /\ calls[s].from # 0 /\ l = Pushed(calls[s])
    BY <2>1 DEF Placements
  <2> QED
    BY <2>1, <2>2, <2>3, AnswerHonest
<1>2. CASE Found(l, o, cs)
  <2>1. PICK s \in InFlight :
          /\ Served(s, "search") /\ cs = Going(s, None) /\ o = Filled(calls[s])
          /\ l = (IF calls[s].ok THEN Replaced(calls[s]) ELSE list)
    BY <1>2 DEF Found
  <2>2. calls[s].op = "search" /\ calls[s].phase = "served"
    BY <2>1 DEF Served
  <2> QED
    BY <2>1, <2>2, AnswerHonest
<1> QED
  BY <1>1, <1>2


(* The list a handler of an operation holds has the rows of the list that is shown,
   and each id once. *)
LEMMA HeldList ==
  ASSUME Base, Sounds, view \notin BerryViews, Honest(list, obj, calls, db), NEW s \in InFlight,
         calls[s].op = "manage"
  PROVE  LET c == calls[s]
         IN  /\ Alike(c.list, list) /\ (~list.mixed => Distinct(c.list.rows))
             /\ Copied(c).rows = c.list.rows /\ Copied(c).mixed = c.list.mixed
             /\ Alike(Copied(c), list)
<1> DEFINE c == calls[s]
<1>1. c \in Records /\ Fits(c) /\ s \in On(calls)
  BY ArraysAreLists, InFlightIs DEF Base
<1>2. c.list.gen # -1
  BY <1>1 DEF Fits
<1>3. Alike(c.list, list)
  BY <1>1, <1>2, UnneededIs DEF Honest
<1>4. Sound(c.list)
  BY DEF Sounds, Arrays
<1>5. Copied(c).rows = c.list.rows /\ Copied(c).mixed = c.list.mixed
  BY PlacedAreLists
<1> QED
  BY <1>3, <1>4, <1>5 DEF Sound, Alike, Of

(* The calls that are left when the handler of an operation ends. *)
LEMMA OthersHonest ==
  ASSUME Base, Honest(list, obj, calls, db), NEW s \in InFlight,
         ~(Waits(calls[s]) /\ calls[s].act = "purge"), NEW l, Alike(l, list)
  PROVE  LET cs == Going(s, None)
         IN  /\ \A t, v \in On(cs) : t # v => Apart(cs[t], cs[v])
             /\ \A t \in On(cs) : cs[t].list = Unneeded \/ Alike(cs[t].list, l)
             /\ \A t \in On(cs) : Candid(cs[t], cs, db)
<1> DEFINE cs == Going(s, None)
<1>1. On(cs) = On(calls) \ {s} /\ \A t \in On(cs) : cs[t] = calls[t]
  <2>1. \A t \in Slots : t # s => cs[t] = calls[t]
    BY GoingIs
  <2>2. On(cs) = On(calls) \ {s}
    BY GoingIs
  <2> QED
    BY <2>1, <2>2 DEF On
<1> HIDE DEF cs
<1>2. Purging(calls) => Purging(cs)
  BY <1>1 DEF Purging
<1>3. \A t \in On(cs) : Candid(cs[t], cs, db)
  <2>1. \A t \in On(calls) : Candid(calls[t], cs, db)
    BY <1>2 DEF Honest, Candid
  <2> QED
    BY <1>1, <2>1
<1>4. \A t, v \in On(cs) : t # v => Apart(cs[t], cs[v])
  BY <1>1 DEF Honest
<1>5. \A t \in On(cs) : cs[t].list = Unneeded \/ Alike(cs[t].list, l)
  BY <1>1 DEF Honest, Alike
<1> QED
  BY <1>3, <1>4, <1>5 DEF cs

(* Nothing but an operation that was accepted keeps a row waiting. *)
LEMMA StillOwed ==
  ASSUME Base, NEW s \in InFlight, NEW i, Owed(i, calls),
         ~(Waits(calls[s]) /\ (calls[s].act = "purge" \/ (calls[s].act \in Changing /\ calls[s].id = i)))
  PROVE  Owed(i, Going(s, None))
<1> DEFINE cs == Going(s, None)
<1>1. (\A t \in Slots : t # s => cs[t] = calls[t]) /\ On(cs) = On(calls) \ {s}
  BY GoingIs
<1> HIDE DEF cs
<1>2. Owed(i, cs)
  BY <1>1 DEF Owed, On
<1> QED
  BY <1>2 DEF cs

(* The answer to an operation changes the row it was for. *)
LEMMA SettledHonest ==
  ASSUME Base, Sounds, view \notin BerryViews, Honest(list, obj, calls, db), NEW l, NEW o, NEW cs,
         Settled(l, o, cs)
  PROVE  Honest(l, o, cs, db)
<1>1. PICK s \in InFlight :
        /\ Served(s, "manage") /\ cs = Going(s, None)
        /\ l \in {list, Copied(calls[s])}
        /\ \/ o = obj /\ ~(calls[s].ok /\ calls[s].act \in Changing)
           \/ calls[s].id # 0 /\ Touches(calls[s], o)
  BY DEF Settled
<1> DEFINE c == calls[s]
<1>2. c \in Records /\ Fits(c) /\ s \in On(calls) /\ c.op = "manage" /\ c.phase = "served"
  BY <1>1, ArraysAreLists, InFlightIs DEF Base, Served
<1>3. c.id = 0 <=> c.act \in {"purge", "balances"}
  BY <1>2 DEF Fits
<1>4. /\ Alike(c.list, list) /\ (~list.mixed => Distinct(c.list.rows)) /\ Alike(l, list)
  <2>1. Alike(list, list)
    BY DEF Alike
  <2> QED
    BY <1>1, <1>2, <2>1, HeldList
<1>5. ~(Waits(c) /\ c.act = "purge")
  BY <1>1, <1>3 DEF Waits, Changing
<1>6. /\ \A t, v \in On(cs) : t # v => Apart(cs[t], cs[v])
      /\ \A t \in On(cs) : cs[t].list = Unneeded \/ Alike(cs[t].list, l)
      /\ \A t \in On(cs) : Candid(cs[t], cs, db)
  BY <1>1, <1>4, <1>5, OthersHonest
<1>7. ASSUME ~l.mixed, NEW r \in Of(l) PROVE Shows(r, o, cs, db)
  <2>1. ~list.mixed /\ r \in Of(list) /\ Shows(r, obj, calls, db)
    BY <1>4, <1>7 DEF Alike, Honest
  <2>2. r \in DOMAIN obj /\ r \in Pairs
    BY <2>1, RowsHeld DEF Of, Arrays
  <2>3. CASE o = obj /\ ~(c.ok /\ c.act \in Changing)
    <3>1. ~(Waits(c) /\ (c.act = "purge" \/ (c.act \in Changing /\ c.id = r[1])))
      BY <2>3 DEF Waits, Changing
    <3>2. Owed(r[1], calls) => Owed(r[1], cs)
      BY <1>1, <3>1, StillOwed
    <3> QED
      BY <2>1, <2>3, <3>2 DEF Shows
  <2>4. CASE c.id # 0 /\ Touches(c, o)
    <3>1. PICK new \in Objects :
            /\ o = [obj EXCEPT ![Pointed(c)] = new]
            /\ obj[Pointed(c)].gone => new.gone
            /\ \/ new.gone
               \/ c.ok /\ new.status = c.data[1].status
               \/ ~(c.ok /\ c.act \in Changing) /\ new.status = obj[Pointed(c)].status
      BY <2>4, Zenon DEF Touches
    <3>2. Place(c) \in DOMAIN c.list.rows /\ Pointed(c)[1] = c.id
      BY <1>2, <2>4 DEF Fits, Addressed, Pointed
    <3>3. CASE r = Pointed(c)
      <4>1. o[r] = new /\ r[1] = c.id
        BY <2>2, <3>1, <3>2, <3>3
      <4>2. CASE new.gone
        BY <4>1, <4>2 DEF Shows
      <4>3. CASE c.ok /\ new.status = c.data[1].status
        <5>1. c.data[1].status = db[c.id] \/ Purging(calls)
          BY <1>2, <2>4, <4>3 DEF Honest, Candid
        <5>2. Purging(calls) => Owed(r[1], cs)
          <6> SUFFICES ASSUME Purging(calls) PROVE Owed(r[1], cs)
            OBVIOUS
          <6>1. PICK t \in On(calls) : Waits(calls[t]) /\ calls[t].act = "purge"
            BY DEF Purging
          <6>2. t # s
            BY <1>5, <6>1
          <6>3. cs[t] = calls[t] /\ t \in On(cs)
            BY <1>1, <6>1, <6>2, GoingIs DEF On
          <6> QED
            BY <6>1, <6>3 DEF Owed
        <5> QED
          BY <4>1, <4>3, <5>1, <5>2 DEF Shows
      <4>4. CASE /\ ~new.gone /\ ~(c.ok /\ c.act \in Changing)
                 /\ new.status = obj[Pointed(c)].status
        <5>1. ~obj[r].gone /\ o[r].status = obj[r].status
          BY <3>1, <3>3, <4>1, <4>4
        <5>2. ~(Waits(c) /\ (c.act = "purge" \/ (c.act \in Changing /\ c.id = r[1])))
          BY <4>4 DEF Waits, Changing
        <5>3. Owed(r[1], calls) => Owed(r[1], cs)
          BY <1>1, <5>2, StillOwed
        <5> QED
          BY <2>1, <5>1, <5>3 DEF Shows
      <4> QED
        BY <3>1, <4>2, <4>3, <4>4
    <3>4. CASE r # Pointed(c)
      <4>1. o[r] = obj[r]
        BY <2>2, <3>1, <3>4
      <4>2. PICK k \in DOMAIN c.list.rows : r = c.list.rows[k]
        BY <1>4, <2>1 DEF Alike, Of
      <4>3. r[1] # c.id
        BY <1>4, <2>1, <3>2, <3>4, <4>2 DEF Distinct, Pointed
      <4>4. ~(Waits(c) /\ (c.act = "purge" \/ (c.act \in Changing /\ c.id = r[1])))
        BY <1>3, <2>4, <4>3
      <4>5. Owed(r[1], calls) => Owed(r[1], cs)
        BY <1>1, <4>4, StillOwed
      <4> QED
        BY <2>1, <4>1, <4>5 DEF Shows
    <3> QED
      BY <3>3, <3>4
  <2> QED
    BY <1>1, <2>3, <2>4
<1> QED
  BY <1>6, <1>7 DEF Honest

(* A row is taken off the list: nothing else is in flight. *)
LEMMA ShortenedHonest ==
  ASSUME Base, Sounds, view \notin BerryViews, Honest(list, obj, calls, db), NEW l, NEW o, NEW cs,
         Shortened(l, o, cs)
  PROVE  Honest(l, o, cs, db)
<1>1. PICK s \in InFlight :
        /\ Served(s, "manage") /\ cs = Going(s, None) /\ o = obj
        /\ view \in AirViews /\ calls[s].act = "delete" /\ l = Cut(calls[s])
  BY DEF Shortened
<1> DEFINE c == calls[s]
           L == c.list
<1>2. c \in Records /\ s \in On(calls) /\ c.op = "manage"
  BY <1>1, ArraysAreLists, InFlightIs DEF Base, Served
<1>3. On(calls) = {s}
  BY <1>1, <1>2, AloneIs DEF Honest
<1>4. On(cs) = {}
  BY <1>1, <1>3, GoingIs
<1>5. /\ Alike(L, list) /\ (~list.mixed => Distinct(L.rows)) /\ Copied(c).rows = L.rows
  BY <1>2, HeldList
<1>6. ASSUME ~l.mixed, NEW r \in Of(l) PROVE Shows(r, o, cs, db)
  <2>1. Cut(c).mixed = L.mixed
    BY CutIs
  <2>2. ~list.mixed /\ Distinct(L.rows)
    BY <1>1, <1>5, <1>6, <2>1 DEF Alike
  <2>3. r \in Of(L) /\ r[1] # c.id
    <3>1. CASE Cut(c) = Copied(c)
      <4>1. \A k \in DOMAIN L.rows : L.rows[k][1] # c.id
        BY <3>1, CutIs
      <4> QED
        BY <1>1, <1>5, <1>6, <3>1, <4>1 DEF Of
    <3>2. CASE Cut(c) # Copied(c)
      <4>1. PICK k \in DOMAIN L.rows :
              /\ L.rows[k][1] = c.id
              /\ \A i \in DOMAIN Cut(c).rows : \E j \in DOMAIN L.rows :
                   j # k /\ Cut(c).rows[i] = L.rows[j] /\ j = (IF i < k THEN i ELSE i + 1)
        BY <3>2, CutIs
      <4>2. PICK i \in DOMAIN Cut(c).rows : r = Cut(c).rows[i]
        BY <1>1, <1>6 DEF Of
      <4>3. PICK j \in DOMAIN L.rows : j # k /\ r = L.rows[j]
        BY <4>1, <4>2
      <4>4. r[1] # c.id
        BY <2>2, <4>1, <4>3 DEF Distinct
      <4> QED
        BY <4>3, <4>4 DEF Of
    <3> QED
      BY <3>1, <3>2
  <2>4. Shows(r, obj, calls, db)
    BY <1>5, <2>2, <2>3 DEF Honest, Alike
  <2>5. ~Owed(r[1], calls)
    BY <1>1, <1>3, <2>3 DEF Owed
  <2> QED
    BY <1>1, <2>4, <2>5 DEF Shows
<1> QED
  BY <1>4, <1>6 DEF Honest


\* The call d is what the call c was, and its list is l if it is not the same.
Again(d, c, l) ==
  /\ d.op = c.op /\ d.id = c.id /\ d.act = c.act /\ d.phase = c.phase /\ d.ok = c.ok
  /\ d.data = c.data /\ d.list \in {c.list, l}

(* What was honest of the list, objects, calls and rows that a step sets is so of the state. *)
LEMMA HonestAgain ==
  ASSUME NEW l, NEW o, NEW cs, NEW d, Honest(l, o, cs, d),
         list' = l, db' = d, view' = view, InFlight' = On(cs),
         \A r \in Of(l) : obj'[r] = o[r],
         \A s \in On(cs) : Again(calls'[s], cs[s], l)
  PROVE  Honest(list, obj, calls, db)'
<1>1. On(calls)' = On(cs)
  BY DEF On, InFlight
<1>2. Purging(calls)' <=> Purging(cs)
  BY <1>1 DEF Purging, Waits, Again
<1>3. \A i : Owed(i, calls)' <=> Owed(i, cs)
  BY <1>1 DEF Owed, Waits, Again
<1>4. Of(list)' = Of(l)
  BY DEF Of
<1>5. \A s, t \in On(cs) : s # t => Apart(calls[s], calls[t])'
  <2> SUFFICES ASSUME NEW s \in On(cs), NEW t \in On(cs), s # t
               PROVE  Apart(calls[s], calls[t])'
    OBVIOUS
  <2>1. Apart(cs[s], cs[t])
    BY DEF Honest
  <2>2. Again(calls'[s], cs[s], l) /\ Again(calls'[t], cs[t], l)
    OBVIOUS
  <2> QED
    BY <2>1, <2>2 DEF Apart, Again
<1>6. \A s \in On(cs) : calls'[s].list = Unneeded' \/ Alike(calls[s].list, list)'
  <2> SUFFICES ASSUME NEW s \in On(cs)
               PROVE  calls'[s].list = Unneeded' \/ Alike(calls[s].list, list)'
    OBVIOUS
  <2>1. calls'[s].list \in {cs[s].list, l} /\ (cs[s].list = Unneeded \/ Alike(cs[s].list, l))
    BY DEF Honest, Again
  <2>2. Unneeded' = Unneeded
    BY DEF Unneeded
  <2> QED
    BY <2>1, <2>2 DEF Alike, Of
<1>7. \A s \in On(cs) : Candid(calls[s], calls, db)'
  <2> SUFFICES ASSUME NEW s \in On(cs)
               PROVE  Candid(calls[s], calls, db)'
    OBVIOUS
  <2>1. Candid(cs[s], cs, d) /\ Again(calls'[s], cs[s], l)
    BY DEF Honest
  <2> QED
    BY <1>2, <2>1 DEF Candid, Again
<1>8. ~l.mixed => \A r \in Of(l) : Shows(r, obj, calls, db)'
  <2> SUFFICES ASSUME ~l.mixed, NEW r \in Of(l)
               PROVE  Shows(r, obj, calls, db)'
    OBVIOUS
  <2>1. Shows(r, o, cs, d) /\ obj'[r] = o[r]
    BY DEF Honest
  <2> QED
    BY <1>3, <2>1 DEF Shows
<1> QED
  BY <1>1, <1>4, <1>5, <1>6, <1>7, <1>8 DEF Honest

(* Handlers and buttons. *)
LEMMA StepHonest ==
  ASSUME Base, Sounds, Truth, NEW l, NEW o, NEW u, NEW cs, NEW sw, NEW h, Step(l, o, u, cs, sw, h)
  PROVE  Truth'
<1>1. /\ Become(l, o, u, cs, sw, h) /\ Prepared(l, o, u, cs, h) /\ h \in History
      /\ (hist.moved => h.moved) /\ db' = db /\ db' \in [Ids -> 0..2]
  BY StepBecomes
<1>2. /\ list' = l /\ hist' = h /\ view' = view
      /\ DOMAIN obj' = Refs(l, cs) /\ \A r \in DOMAIN obj' : obj'[r] = o[r]
      /\ InFlight' = {s \in Slots : cs[s] # None}
      /\ \A s \in InFlight' :
           /\ Likewise(calls'[s], cs[s]) /\ calls'[s].phase = cs[s].phase
           /\ calls'[s].ok = cs[s].ok /\ calls'[s].data = cs[s].data
           /\ calls'[s].list = IF cs[s].list.gen = l.gen THEN l ELSE cs[s].list
  BY <1>1, Becomes
<1>3. Shape(l, o, cs, h) /\ (hist.disturbed => h.disturbed)
  BY DEF Step, Sets, Remembers
<1> SUFFICES ASSUME view \notin BerryViews, ~h.disturbed
             PROVE  Honest(list, obj, calls, db)'
  BY <1>2 DEF Truth, Calm
<1>4. Honest(list, obj, calls, db)
  BY <1>3 DEF Truth, Calm
<1>5. Honest(l, o, cs, db)
  BY <1>3, <1>4, BegunHonest, OrderedHonest, PagedHonest, SettledHonest, ShortenedHonest
  DEF Shape, Stood, Ordered
<1>6. \A r \in Of(l) : obj'[r] = o[r]
  BY <1>2 DEF Of, Refs
<1>7. InFlight' = On(cs) /\ \A s \in On(cs) : Again(calls'[s], cs[s], l)
  BY <1>2 DEF On, Again, Likewise
<1> QED
  BY <1>1, <1>2, <1>5, <1>6, <1>7, HonestAgain

(* The answer of the server. *)
LEMMA ServeHonest ==
  ASSUME Base, Truth, NEW s \in Slots, Serve(s)
  PROVE  Truth'
<1>1. /\ s \in InFlight /\ calls[s].phase = "asked" /\ calls[s] \in Records /\ Fits(calls[s])
      /\ InFlight' = InFlight /\ TypeOK
      /\ \A t \in Slots : t # s => calls'[t] = calls[t]
      /\ view' = view /\ list' = list /\ obj' = obj
      /\ hist'.disturbed = hist.disturbed
  BY ServeIs DEF Base
<1> PICK cs : cs = calls'
  OBVIOUS
<1> DEFINE c == calls[s]
           n == cs[s]
           d == IF n.ok /\ c.op = "manage" THEN Applied(c) ELSE db
<1>2. /\ n.phase = "served"
      /\ n.op = c.op /\ n.id = c.id /\ n.act = c.act /\ n.list = c.list
      /\ n.data = IF n.ok THEN Outcome(c) ELSE <<>>
      /\ db' = d
  BY ServeIs
<1> SUFFICES ASSUME view \notin BerryViews, ~hist.disturbed
             PROVE  Honest(list, obj, calls, db)'
  BY <1>1 DEF Truth, Calm
<1>3. Honest(list, obj, calls, db)
  BY DEF Truth, Calm
<1>4. On(cs) = On(calls) /\ s \in On(cs) /\ \A t \in On(cs) : t \in Slots /\ (t # s => cs[t] = calls[t])
  <2>1. InFlight' = {t \in Slots : cs[t] # None}
    BY DEF InFlight, None
  <2> QED
    BY <1>1, <2>1, InFlightIs DEF On
<1>5. ~Waits(c)
  BY <1>1 DEF Waits
<1>6. Purging(calls) => Purging(cs)
  BY <1>4, <1>5 DEF Purging
<1>7. \A i : Owed(i, calls) => Owed(i, cs)
  BY <1>4, <1>5 DEF Owed
<1>8. \A i \in Ids : d[i] # db[i] =>
        Waits(n) /\ (c.act = "purge" \/ (c.act \in Changing /\ c.id = i))
  <2>1. CASE n.ok /\ c.op = "manage"
    BY <1>1, <1>2, <2>1, AppliedIs DEF Waits
  <2>2. CASE ~(n.ok /\ c.op = "manage")
    BY <2>2
  <2> QED
    BY <2>1, <2>2
<1>9. \A t, v \in On(cs) : t # v => Apart(cs[t], cs[v])
  BY <1>2, <1>3, <1>4 DEF Honest, Apart
<1>10. \A t \in On(cs) : cs[t].list = Unneeded \/ Alike(cs[t].list, list)
  BY <1>2, <1>3, <1>4 DEF Honest
<1>11. Candid(n, cs, d)
  <2> SUFFICES ASSUME n.ok
               PROVE  /\ c.op \in {"load", "search"} =>
                           \A k \in DOMAIN n.data : n.data[k].status = d[n.data[k].id]
                      /\ c.op = "manage" /\ c.id # 0 => n.data[1].status = d[c.id]
    BY <1>2 DEF Candid
  <2>1. n.data = Outcome(c)
    BY <1>2
  <2>2. ASSUME c.op \in {"load", "search"}
        PROVE  \A k \in DOMAIN n.data : n.data[k].status = d[n.data[k].id]
    <3> DEFINE q == IF c.op = "load" THEN PageOf(Listing(c.base), c.from) ELSE Listing("found")
    <3>1. q \in Seq(Ids) /\ n.data = Answer(q)
      BY <1>1, <2>1, <2>2, OutcomeIs
    <3>2. d = db
      BY <2>2
    <3> HIDE DEF q, d
    <3>3. /\ DOMAIN n.data = DOMAIN q
          /\ \A k \in DOMAIN q : n.data[k].id = q[k] /\ n.data[k].status = db[q[k]]
      BY <1>1, <3>1, AnswerIs
    <3> QED
      BY <3>2, <3>3
  <2>3. ASSUME c.op = "manage", c.id # 0
        PROVE  n.data[1].status = d[c.id]
    BY <1>1, <2>1, <2>3, OutcomeIs
  <2> QED
    BY <2>2, <2>3
<1>12. \A t \in On(cs) : Candid(cs[t], cs, d)
  <2> SUFFICES ASSUME NEW t \in On(cs), t # s
               PROVE  Candid(cs[t], cs, d)
    BY <1>11
  <2>1. /\ cs[t] = calls[t] /\ t \in On(calls) /\ t \in InFlight /\ Candid(calls[t], calls, db)
        /\ Apart(c, calls[t]) /\ calls[t] \in Records /\ Fits(calls[t])
    BY <1>3, <1>4, InFlightIs, ArraysAreLists DEF Honest, Base
  <2>2. c.op = "manage" /\ calls[t].op = "manage" /\ c.id # calls[t].id
    BY <2>1 DEF Apart
  <2> HIDE DEF c, n, d
  <2>3. ASSUME calls[t].phase = "served", calls[t].ok, calls[t].id # 0
        PROVE  calls[t].data[1].status = d[calls[t].id] \/ Purging(cs)
    <3>1. calls[t].data[1].status = db[calls[t].id] \/ Purging(cs)
      BY <1>6, <2>1, <2>2, <2>3 DEF Candid
    <3>2. calls[t].id \in Ids
      BY <2>1, <2>3 DEF Records
    <3>3. CASE d[calls[t].id] = db[calls[t].id]
      BY <3>1, <3>3
    <3>4. CASE d[calls[t].id] # db[calls[t].id]
      <4>1. Waits(n) /\ n.act = "purge"
        BY <1>2, <1>8, <2>2, <3>2, <3>4 DEF n
      <4> QED
        BY <1>4, <4>1 DEF Purging, n
    <3> QED
      BY <3>3, <3>4
  <2> QED
    BY <2>1, <2>2, <2>3 DEF Candid
<1>13. ASSUME ~list.mixed, NEW r \in Of(list) PROVE Shows(r, obj, cs, d)
  <2>1. Shows(r, obj, calls, db)
    BY <1>3, <1>13 DEF Honest
  <2>2. r[1] \in Ids
    BY <1>13, RowsHeld DEF Of, Arrays, Pairs
  <2>3. d[r[1]] # db[r[1]] => Owed(r[1], cs)
    <3> HIDE DEF d
    <3> SUFFICES ASSUME d[r[1]] # db[r[1]] PROVE Owed(r[1], cs)
      OBVIOUS
    <3>1. Waits(n) /\ (n.act = "purge" \/ (n.act \in Changing /\ n.id = r[1]))
      BY <1>2, <1>8, <2>2
    <3> QED
      BY <1>4, <3>1 DEF Owed
  <2> QED
    BY <1>7, <2>1, <2>3 DEF Shows
<1>14. Honest(list, obj, cs, d)
  BY <1>9, <1>10, <1>12, <1>13 DEF Honest
<1>15. InFlight' = On(cs) /\ \A t \in On(cs) : Again(calls'[t], cs[t], list)
  BY <1>1, <1>4, InFlightIs DEF Again
<1> HIDE DEF d
<1> QED
  BY <1>1, <1>2, <1>14, <1>15, HonestAgain

(* A call that is lost. *)
LEMMA LostHonest ==
  ASSUME Base, Truth, NEW s \in Slots, Lost(s)
  PROVE  Truth'
<1>1. /\ s \in InFlight /\ view' = view /\ list' = list
      /\ InFlight' = InFlight \ {s} /\ TypeOK'
      /\ \A r \in DOMAIN obj' : r \in DOMAIN obj /\ obj'[r] = obj[r]
      /\ db' = db \/ calls[s].op = "manage"
      /\ hist'.disturbed = (hist.disturbed \/ calls[s].op = "manage")
  BY LostIs DEF Base
<1> SUFFICES ASSUME view \notin BerryViews, ~hist.disturbed, calls[s].op # "manage"
             PROVE  Honest(list, obj, calls, db)'
  BY <1>1 DEF Truth, Calm
<1>2. Honest(list, obj, calls, db) /\ s \in On(calls)
  BY <1>1, InFlightIs DEF Truth, Calm
<1>3. On(calls) = {s}
  BY <1>2, AloneIs DEF Honest
<1>4. InFlight' = {} /\ db' = db
  BY <1>1, <1>3, InFlightIs
<1>5. \A i : ~Owed(i, calls)
  BY <1>3 DEF Owed, Waits
<1> DEFINE none == [t \in Slots |-> None]
<1>6. On(none) = {}
  BY DEF On
<1>7. \A r \in Of(list) : obj'[r] = obj[r]
  <2>1. Of(list) \subseteq Refs(list, calls)'
    BY <1>1 DEF Of, Refs
  <2> QED
    BY <1>1, <2>1 DEF TypeOK
<1> HIDE DEF none
<1>8. ~list.mixed => \A r \in Of(list) : Shows(r, obj, none, db)
  BY <1>2, <1>5 DEF Honest, Shows
<1>9. Honest(list, obj, none, db)
  BY <1>6, <1>8 DEF Honest
<1> QED
  BY <1>1, <1>4, <1>6, <1>7, <1>9, HonestAgain


\* A spinner turns for a call in flight, unless a handler threw.
Spinning == ~hist.threw => Spins(ui, calls)

(* Calls that are what they were, as far as spinners go. *)
LEMMA SpinsAgain ==
  ASSUME NEW u, NEW cs, Spins(u, cs), ui' = u, view' = view,
         \A s \in Slots : cs[s] # None =>
           calls'[s] # None' /\ calls'[s].op = cs[s].op /\ calls'[s].act = cs[s].act
  PROVE  Spins(ui, calls)'
<1> SUFFICES ASSUME NEW flag \in Flags, u[flag]
             PROVE  \E s \in Slots : calls'[s] # None' /\ Ends(calls[s], flag)'
  BY DEF Spins, Flags
<1>1. PICK s \in Slots : cs[s] # None /\ Ends(cs[s], flag)
  BY DEF Spins
<1>2. Ends(calls[s], flag)'
  BY <1>1 DEF Ends
<1> QED
  BY <1>1, <1>2

(* Every step keeps a call for each spinner that turns, until a handler throws. *)
LEMMA SpinningStays ==
  ASSUME Base, Spinning, [Next]_vars
  PROVE  Spinning'
<1>1. CASE UNCHANGED vars
  <2>1. UNCHANGED <<view, ui, calls, hist>> /\ None' = None
    BY <1>1 DEF vars, None
  <2> SUFFICES ASSUME ~hist.threw PROVE Spins(ui, calls)'
    BY <2>1 DEF Spinning
  <2>2. Spins(ui, calls)
    BY DEF Spinning
  <2>3. PICK u, cs : u = ui /\ cs = calls
    OBVIOUS
  <2> QED
    BY <2>1, <2>2, <2>3, SpinsAgain
<1>2. ASSUME NEW s \in Slots, Serve(s) PROVE Spinning'
  <2>1. /\ InFlight' = InFlight /\ view' = view /\ ui' = ui /\ hist'.threw = hist.threw
        /\ \A t \in Slots : t # s => calls'[t] = calls[t]
        /\ calls'[s].op = calls[s].op /\ calls'[s].act = calls[s].act
    BY <1>2, ServeIs
  <2>2. \A t \in Slots : calls[t] # None => calls'[t] # None'
    BY <2>1 DEF InFlight
  <2> SUFFICES ASSUME ~hist.threw PROVE Spins(ui, calls)'
    BY <2>1 DEF Spinning
  <2>3. Spins(ui, calls)
    BY DEF Spinning
  <2>4. PICK u, cs : u = ui /\ cs = calls
    OBVIOUS
  <2> QED
    BY <2>1, <2>2, <2>3, <2>4, SpinsAgain
<1>3. ASSUME NEW s \in Slots, Lost(s) PROVE Spinning'
  BY <1>3, LostIs DEF Spinning
<1>4. CASE Foreign
  <2>1. UNCHANGED <<view, ui, calls>> /\ hist'.threw = hist.threw /\ None' = None
    BY <1>4, ForeignIs DEF None
  <2> SUFFICES ASSUME ~hist.threw PROVE Spins(ui, calls)'
    BY <2>1 DEF Spinning
  <2>2. Spins(ui, calls)
    BY DEF Spinning
  <2>3. PICK u, cs : u = ui /\ cs = calls
    OBVIOUS
  <2> QED
    BY <2>1, <2>2, <2>3, SpinsAgain
<1>5. ASSUME NEW l, NEW o, NEW u, NEW cs, NEW sw, NEW h, Step(l, o, u, cs, sw, h)
      PROVE  Spinning'
  <2>1. /\ Become(l, o, u, cs, sw, h) /\ Prepared(l, o, u, cs, h) /\ h \in History
        /\ (hist.moved => h.moved) /\ db' \in [Ids -> 0..2]
    BY <1>5, StepBecomes
  <2>2. /\ ui' = u /\ hist' = h /\ view' = view
        /\ InFlight' = {s \in Slots : cs[s] # None}
        /\ \A s \in InFlight' : Likewise(calls'[s], cs[s])
        /\ \A s \in Slots : cs[s] = None <=> calls'[s] = None
    BY <2>1, Becomes
  <2>3. (Spins(ui, calls) => Spins(u, cs)) /\ h.threw = hist.threw
    BY <1>5 DEF Step, Sets, Remembers
  <2> SUFFICES ASSUME ~hist.threw PROVE Spins(ui, calls)'
    BY <2>2, <2>3 DEF Spinning
  <2>4. Spins(u, cs)
    BY <2>3 DEF Spinning
  <2>5. \A s \in Slots : cs[s] # None =>
          calls'[s] # None' /\ calls'[s].op = cs[s].op /\ calls'[s].act = cs[s].act
    BY <2>2 DEF Likewise, None
  <2> QED
    BY <2>2, <2>4, <2>5, SpinsAgain
<1> QED
  BY <1>1, <1>2, <1>3, <1>4, <1>5, NextIs

(* The state a table starts in is honest, and its spinner has its call. *)
LEMMA StartsHonest ==
  ASSUME Init
  PROVE  Truth /\ Spinning
<1>1. /\ Spins(ui, calls) /\ list.rows = <<>>
      /\ view \notin BerryViews => \A s, t \in InFlight : s = t
      /\ \A s \in InFlight : calls[s].phase = "asked" /\ calls[s].list = Unneeded
  BY Starts
<1>2. Of(list) = {}
  BY <1>1 DEF Of
<1> QED
  BY <1>1, <1>2, InFlightIs DEF Truth, Calm, Honest, Candid, Spinning

(* Every step keeps the state honest while the administrator alone administers and one
   operation per row is under way. *)
LEMMA TruthStays ==
  ASSUME Base, Sounds, Truth, [Next]_vars
  PROVE  Truth'
<1>1. CASE UNCHANGED vars
  <2>1. UNCHANGED <<view, db, list, obj, calls, hist>>
    BY <1>1 DEF vars
  <2> SUFFICES ASSUME Calm PROVE Honest(list, obj, calls, db)'
    BY <2>1 DEF Truth, Calm
  <2>2. PICK l, o, cs, d : l = list /\ o = obj /\ cs = calls /\ d = db
    OBVIOUS
  <2>3. Honest(l, o, cs, d)
    BY <2>2 DEF Truth
  <2>4. InFlight' = On(cs)
    BY <2>1, <2>2 DEF InFlight, On, None
  <2>5. \A s \in On(cs) : Again(calls'[s], cs[s], l)
    BY <2>1, <2>2 DEF Again
  <2> QED
    BY <2>1, <2>2, <2>3, <2>4, <2>5, HonestAgain
<1>2. CASE Foreign
  BY <1>2, ForeignIs DEF Truth, Calm
<1> QED
  BY <1>1, <1>2, ServeHonest, LostHonest, StepHonest, NextIs

(* What the rows of the page show, when nothing is in flight. *)
LEMMA PageShows ==
  ASSUME Base, Truth, Spinning
  PROVE  ShowsTheTruth
<1>1. ASSUME Quiet, ~hist.threw PROVE ~ui.loading /\ ~ui.searching
  <2>1. \A flag \in Flags : ~ui[flag]
    BY <1>1 DEF Spinning, Spins, Quiet, InFlight
  <2>2. ~ui["loading"] /\ ~ui["searching"]
    BY <2>1 DEF Flags
  <2> QED
    BY <2>2
<1>2. ASSUME Quiet, ~hist.disturbed, ~list.mixed, view \notin BerryViews,
             NEW r \in Range(Slice(list, ui)), ~obj[r].gone
      PROVE  obj[r].status = db[r[1]]
  <2>1. Honest(list, obj, calls, db)
    BY <1>2 DEF Truth, Calm
  <2>2. FirstOf(ui) \in Nat
    <3>1. /\ ui.page - 1 \in Nat /\ ui.size \in {PAGE, 2 * PAGE} /\ PAGE \in Nat
      BY <1>2, UiIs, TableAssumption
    <3> DEFINE p == ui.page - 1
               n == ui.size
    <3>2. FirstOf(ui) = p * n
      BY <1>2 DEF FirstOf
    <3>3. p \in Nat /\ n \in Nat
      BY <3>1
    <3> HIDE DEF p, n
    <3> QED
      BY <3>2, <3>3
  <2>3. PICK k \in DOMAIN Slice(list, ui) : r = Slice(list, ui)[k]
    BY <1>2 DEF Range
  <2>4. list \in Lists /\ ui \in States
    BY UiIs DEF UiFits
  <2>5. r \in Of(list)
    BY <2>2, <2>3, <2>4, SliceRow DEF Of
  <2>6. ~Owed(r[1], calls)
    BY <1>2, InFlightIs DEF Owed, Quiet
  <2> QED
    BY <1>2, <2>1, <2>5, <2>6 DEF Honest, Shows
<1> QED
  BY <1>1, <1>2 DEF ShowsTheTruth

(* What the administrator sees is what the server has, in the default interface and
   in air, while he alone administers, and the spinners of all three stop. *)
THEOREM TheTruthIsShown == Spec => []ShowsTheTruth
<1>1. Init => Base /\ Sounds /\ Truth /\ Spinning
  BY Starts, StartsSound, StartsHonest
<1>2. Base /\ Sounds /\ Truth /\ Spinning /\ [Next]_vars
      => Base' /\ Sounds' /\ Truth' /\ Spinning'
  BY BaseStays, SoundsStay, TruthStays, SpinningStays
<1>3. Base /\ Truth /\ Spinning => ShowsTheTruth
  BY PageShows
<1> QED
  BY <1>1, <1>2, <1>3, PTL DEF Spec
=============================================================================
