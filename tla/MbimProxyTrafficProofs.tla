----------------------- MODULE MbimProxyTrafficProofs -----------------------
(***************************************************************************)
(* Proofs about the traffic of the proxy with one device: the lists that   *)
(* are merged and compared, and the commands that are forwarded and        *)
(* answered.                                                               *)
(*                                                                         *)
(* What a fold computes is proved by induction over the length of the      *)
(* prefix: a set of numbers that holds 0 and the successor of each of its  *)
(* elements is Nat (PrefixInduction), and a function that is given by its  *)
(* values on smaller sets exists (FoldExists).                             *)
(***************************************************************************)
EXTENDS MbimProxyTraffic, FiniteSetTheorems, WellFoundedInduction, SequenceTheorems, TLAPS

(***************************************************************************)
(* Folds.                                                                  *)

LEMMA PrefixInduction ==
  ASSUME NEW S, 0 \in S, \A n \in Nat : n \in S => n + 1 \in S
  PROVE  Nat \subseteq S
<1> SUFFICES ASSUME Nat \ S # {} PROVE FALSE
  OBVIOUS
<1> DEFINE R == OpToRel(<, Nat)
<1>1. IsWellFoundedOn(R, Nat)
  BY NatLessThanWellFounded
<1>2. \A x, y \in Nat : <<y, x>> \in R <=> y < x
  BY DEF OpToRel
<1> HIDE DEF R
<1>3. PICK x \in Nat \ S : \A y \in Nat \ S : ~(<<y, x>> \in R)
  BY <1>1, WFMin
<1>4. x # 0 /\ x - 1 \in Nat
  OBVIOUS
<1>5. <<x - 1, x>> \in R
  BY <1>2, <1>4
<1> QED BY <1>3, <1>4, <1>5

\* The greatest and the least of finitely many numbers
LEMMA MaxExists ==
  \A m \in Nat : \A t \in SUBSET (1..m) : t # {} => \E x \in t : \A y \in t : x >= y
<1> DEFINE S == {n \in Nat : \A t \in SUBSET (1..n) : t # {} => \E x \in t : \A y \in t : x >= y}
<1>1. 0 \in S
  <2>1. 1..0 = {}
    OBVIOUS
  <2> QED BY <2>1
<1>2. ASSUME NEW n \in Nat, n \in S
      PROVE  n + 1 \in S
  <2>1. ASSUME NEW t \in SUBSET (1..n + 1), t # {}
        PROVE  \E x \in t : \A y \in t : x >= y
    <3>1. CASE n + 1 \in t
      BY <3>1
    <3>2. CASE n + 1 \notin t
      <4>1. t \in SUBSET (1..n)
        BY <3>2
      <4> QED BY <4>1, <1>2, <2>1
    <3> QED BY <3>1, <3>2
  <2>2. n + 1 \in Nat
    OBVIOUS
  <2> QED BY <2>1, <2>2
<1>3. Nat \subseteq S
  <2> HIDE DEF S
  <2> QED BY <1>1, <1>2, PrefixInduction
<1> QED BY <1>3

\* What the maximum the folds are defined with is of a set of places
LEMMA MaxOf ==
  ASSUME NEW m \in Nat, NEW s \in SUBSET (1..m), s # {}
  PROVE  Max(s) \in s /\ \A y \in s : y <= Max(s)
<1>1. \E x \in s : \A y \in s : x >= y
  BY MaxExists
<1>2. Max(s) \in s /\ \A y \in s : Max(s) >= y
  BY <1>1 DEF Max
<1>3. s \subseteq Nat
  OBVIOUS
<1> QED BY <1>2, <1>3

\* ... and the minimum
LEMMA MinOf ==
  ASSUME NEW m \in Nat, NEW s \in SUBSET (1..m), s # {}
  PROVE  Min(s) \in s /\ \A y \in s : Min(s) <= y
<1> DEFINE t == {n \in 1..m : m + 1 - n \in s}
<1>1. PICK a \in s : TRUE
  OBVIOUS
<1>2. m + 1 - a \in t
  OBVIOUS
<1>3. t \in SUBSET (1..m) /\ t # {}
  BY <1>2
<1>4. PICK x \in t : \A y \in t : x >= y
  BY <1>3, MaxExists
<1>5. m + 1 - x \in s
  OBVIOUS
<1>6. \A y \in s : m + 1 - y \in t
  OBVIOUS
<1>7. \A y \in s : m + 1 - x <= y
  BY <1>4, <1>6
<1> HIDE DEF t
<1> QED BY <1>5, <1>7 DEF Min

LEMMA MaxOfPrefix ==
  ASSUME NEW m \in Nat, NEW k \in 1..m
  PROVE  /\ Max(1..k) = k /\ (1..k) \ {k} = 1..k - 1
         /\ 1..k \in SUBSET (1..m) /\ 1..k - 1 \in SUBSET (1..m) /\ 1..k # {}
<1>1. 1..k \in SUBSET (1..m) /\ 1..k # {} /\ k \in 1..k
  OBVIOUS
<1>2. Max(1..k) \in 1..k /\ \A y \in 1..k : y <= Max(1..k)
  BY <1>1, MaxOf
<1>3. Max(1..k) = k
  BY <1>1, <1>2
<1> QED BY <1>1, <1>3

\* A function on the sets of places that is given by its values on smaller sets exists
FoldsTo(f, m, b, step) ==
  \A s \in SUBSET (1..m) : f[s] = IF s = {} THEN b ELSE step[<<Max(s), f[s \ {Max(s)}]>>]

\* A fold over a sequence of m elements: there is a function of sets of places
\* that starts with b and takes the step of the greatest place
LEMMA FoldExists ==
  ASSUME NEW V, NEW b \in V, NEW m \in Nat, NEW step \in [(1..m) \X V -> V]
  PROVE  \E f \in [SUBSET (1..m) -> V] : FoldsTo(f, m, b, step)
<1> DEFINE IsFold(f, n) == \A s \in SUBSET (1..n) : f[s] = IF s = {} THEN b ELSE step[<<Max(s), f[s \ {Max(s)}]>>]
           HasFold(n) == \E f \in [SUBSET (1..n) -> V] : IsFold(f, n)
           S == {n \in Nat : n <= m => HasFold(n)}
<1>1. 0 \in S
  <2> DEFINE f == [s \in SUBSET (1..0) |-> b]
  <2>1. 1..0 = {} /\ SUBSET (1..0) = {{}}
    OBVIOUS
  <2>2. f \in [SUBSET (1..0) -> V] /\ IsFold(f, 0)
    BY <2>1
  <2> HIDE DEF f, IsFold
  <2>3. HasFold(0)
    BY <2>2
  <2> HIDE DEF HasFold
  <2> QED BY <2>3
<1>2. ASSUME NEW n \in Nat, n \in S
      PROVE  n + 1 \in S
  <2>0. SUFFICES ASSUME n + 1 <= m
                 PROVE  HasFold(n + 1)
    <3> HIDE DEF HasFold
    <3> QED OBVIOUS
  <2>1. PICK f \in [SUBSET (1..n) -> V] : IsFold(f, n)
    <3>1. HasFold(n)
      <4> HIDE DEF HasFold
      <4> QED BY <1>2, <2>0
    <3> HIDE DEF IsFold
    <3> QED BY <3>1
  <2> DEFINE g == [s \in SUBSET (1..n + 1) |-> IF n + 1 \in s THEN step[<<n + 1, f[s \ {n + 1}]>>] ELSE f[s]]
  <2>2. \A s \in SUBSET (1..n + 1) : s \ {n + 1} \in SUBSET (1..n)
    OBVIOUS
  <2>3. n + 1 \in 1..m
    BY <2>0
  <2>4. g \in [SUBSET (1..n + 1) -> V]
    <3> SUFFICES ASSUME NEW s \in SUBSET (1..n + 1) PROVE g[s] \in V
      OBVIOUS
    <3>1. CASE n + 1 \in s
      <4>1. f[s \ {n + 1}] \in V
        BY <2>1, <2>2
      <4>2. <<n + 1, f[s \ {n + 1}]>> \in (1..m) \X V
        BY <4>1, <2>3
      <4>3. step[<<n + 1, f[s \ {n + 1}]>>] \in V
        BY <4>2
      <4> QED BY <4>3, <3>1
    <3>2. CASE n + 1 \notin s
      <4>1. s \in SUBSET (1..n)
        BY <2>2, <3>2
      <4> QED BY <4>1, <3>2, <2>1
    <3> QED BY <3>1, <3>2
  <2>5. ASSUME NEW s \in SUBSET (1..n + 1)
        PROVE  g[s] = IF s = {} THEN b ELSE step[<<Max(s), g[s \ {Max(s)}]>>]
    <3>1. CASE n + 1 \in s
      <4>1. Max(s) = n + 1
        <5>1. s # {} /\ n + 1 \in Nat
          BY <3>1
        <5>2. Max(s) \in s /\ \A y \in s : y <= Max(s)
          BY <5>1, MaxOf
        <5>3. n + 1 <= Max(s) /\ Max(s) \in 1..n + 1
          BY <5>2, <3>1
        <5> QED BY <5>3
      <4>2. s \ {n + 1} \in SUBSET (1..n + 1) /\ n + 1 \notin s \ {n + 1}
        OBVIOUS
      <4>3. g[s \ {n + 1}] = f[s \ {n + 1}]
        BY <4>2
      <4>4. g[s] = step[<<n + 1, f[s \ {n + 1}]>>]
        BY <3>1
      <4> HIDE DEF g
      <4> QED BY <4>1, <4>3, <4>4, <3>1
    <3>2. CASE n + 1 \notin s
      <4>1. s \in SUBSET (1..n)
        BY <2>2, <3>2
      <4>2. g[s] = f[s] /\ f[s] = IF s = {} THEN b ELSE step[<<Max(s), f[s \ {Max(s)}]>>]
        BY <4>1, <3>2, <2>1
      <4>3. s \ {Max(s)} \in SUBSET (1..n + 1) /\ n + 1 \notin s \ {Max(s)}
        BY <3>2
      <4>4. g[s \ {Max(s)}] = f[s \ {Max(s)}]
        BY <4>3
      <4> HIDE DEF g
      <4> QED BY <4>2, <4>4
    <3> QED BY <3>1, <3>2
  <2> HIDE DEF g
  <2>6. IsFold(g, n + 1)
    BY <2>5
  <2> HIDE DEF IsFold
  <2> QED BY <2>4, <2>6
<1>3. Nat \subseteq S
  <2> HIDE DEF S
  <2> QED BY <1>1, <1>2, PrefixInduction
<1>4. m \in S
  BY <1>3
<1>5. HasFold(m)
  <2> HIDE DEF HasFold
  <2> QED BY <1>4
<1> QED BY <1>5 DEF FoldsTo

-----------------------------------------------------------------------------
(***************************************************************************)
(* The lists.                                                              *)

\* What appending one element adds to the elements
LEMMA RangeOfAppend ==
  ASSUME NEW S, NEW s \in Seq(S), NEW e \in S
  PROVE  /\ Append(s, e) \in Seq(S) /\ Append(s, e) # << >>
         /\ Range(Append(s, e)) = Range(s) \cup {e}
<1>1. /\ Append(s, e) \in Seq(S) /\ Len(Append(s, e)) = Len(s) + 1 /\ Len(s) \in Nat
      /\ \A i \in 1..Len(s) : Append(s, e)[i] = s[i]
      /\ Append(s, e)[Len(s) + 1] = e
  OBVIOUS
<1>2. DOMAIN Append(s, e) = 1..Len(s) + 1 /\ DOMAIN s = 1..Len(s)
  BY <1>1
<1>3. 1..Len(s) + 1 = (1..Len(s)) \cup {Len(s) + 1}
  BY <1>1
<1>4. Range(Append(s, e)) = Range(s) \cup {e}
  BY <1>1, <1>2, <1>3 DEF Range
<1> QED BY <1>1, <1>4

\* The fold of AddCids, cid by cid
LEMMA AddCidsSteps ==
  ASSUME NEW cids \in Seq(Cid), NEW more \in Seq(Cid), cids # << >>, more # << >>
  PROVE  \E g : /\ g[0] = cids
                /\ g[Len(more)] = AddCids(cids, more)
                /\ \A k \in 1..Len(more) :
                     g[k] = IF more[k] \in Range(g[k - 1]) THEN g[k - 1] ELSE Append(g[k - 1], more[k])
<1> DEFINE V == Seq(Cid)
           m == Len(more)
           Step(i, all) == IF more[i] \in Range(all) THEN all ELSE Append(all, more[i])
           step == [p \in (1..m) \X V |-> Step(p[1], p[2])]
           fold[s \in SUBSET DOMAIN more] ==
              IF s = {} THEN cids
              ELSE IF more[Max(s)] \in Range(fold[s \ {Max(s)}]) THEN fold[s \ {Max(s)}]
                   ELSE Append(fold[s \ {Max(s)}], more[Max(s)])
           g == [k \in 0..m |-> fold[1..k]]
<1>1. AddCids(cids, more) = fold[DOMAIN more]
  BY DEF AddCids, FoldLeft, MapThenFoldSet
<1>2. m \in Nat /\ DOMAIN more = 1..m
  OBVIOUS
<1>3. step \in [(1..m) \X V -> V]
  <2> SUFFICES ASSUME NEW p \in (1..m) \X V PROVE Step(p[1], p[2]) \in V
    OBVIOUS
  <2>1. more[p[1]] \in Cid /\ p[2] \in V
    OBVIOUS
  <2> QED BY <2>1
<1>4. PICK f \in [SUBSET (1..m) -> V] : FoldsTo(f, m, cids, step)
  <2>1. cids \in V
    OBVIOUS
  <2> HIDE DEF step, m, V, fold, g
  <2> QED BY <2>1, <1>2, <1>3, FoldExists
<1>5. f = [s \in SUBSET DOMAIN more |->
              IF s = {} THEN cids
              ELSE IF more[Max(s)] \in Range(f[s \ {Max(s)}]) THEN f[s \ {Max(s)}]
                   ELSE Append(f[s \ {Max(s)}], more[Max(s)])]
  <2> SUFFICES ASSUME NEW s \in SUBSET (1..m), s # {}
               PROVE  f[s] = Step(Max(s), f[s \ {Max(s)}])
    <3> HIDE DEF m
    <3> QED BY <1>2, <1>4 DEF FoldsTo
  <2>1. Max(s) \in s /\ Max(s) \in 1..m
    BY <1>2, MaxOf
  <2>2. f[s \ {Max(s)}] \in V
    BY <1>4
  <2>3. f[s] = step[<<Max(s), f[s \ {Max(s)}]>>]
    BY <1>4 DEF FoldsTo
  <2> HIDE DEF m
  <2>4. <<Max(s), f[s \ {Max(s)}]>> \in (1..m) \X V
    BY <2>1, <2>2
  <2>5. step[<<Max(s), f[s \ {Max(s)}]>>] = Step(Max(s), f[s \ {Max(s)}])
    BY <2>4
  <2> QED BY <2>3, <2>5
<1>6. fold = [s \in SUBSET DOMAIN more |->
              IF s = {} THEN cids
              ELSE IF more[Max(s)] \in Range(fold[s \ {Max(s)}]) THEN fold[s \ {Max(s)}]
                   ELSE Append(fold[s \ {Max(s)}], more[Max(s)])]
  BY <1>5
<1> HIDE DEF fold
<1>7. g[0] = cids
  <2>1. 1..0 = {} /\ 0 \in 0..m
    OBVIOUS
  <2> QED BY <1>6, <2>1
<1>8. g[m] = AddCids(cids, more)
  BY <1>1, <1>2
<1>9. ASSUME NEW k \in 1..m
      PROVE  g[k] = Step(k, g[k - 1])
  <2>1. /\ Max(1..k) = k /\ (1..k) \ {k} = 1..k - 1
        /\ 1..k \in SUBSET (1..m) /\ 1..k # {}
    BY <1>2, MaxOfPrefix
  <2>2. fold[1..k] = Step(k, fold[1..k - 1])
    BY <1>2, <1>6, <2>1
  <2>3. k \in 0..m /\ k - 1 \in 0..m
    OBVIOUS
  <2> QED BY <2>2, <2>3
<1> HIDE DEF g, m
<1>10. /\ g[0] = cids /\ g[m] = AddCids(cids, more)
       /\ \A k \in 1..m : g[k] = IF more[k] \in Range(g[k - 1]) THEN g[k - 1] ELSE Append(g[k - 1], more[k])
  BY <1>7, <1>8, <1>9
<1> QED BY <1>10 DEF m

\* The cids of both, and a wildcard only if one of the two is
LEMMA AddCidsRange ==
  ASSUME NEW cids \in Seq(Cid), NEW more \in Seq(Cid)
  PROVE  /\ AddCids(cids, more) \in Seq(Cid)
         /\ cids = << >> \/ more = << >> => AddCids(cids, more) = << >>
         /\ cids # << >> /\ more # << >> =>
              AddCids(cids, more) # << >> /\ Range(AddCids(cids, more)) = Range(cids) \cup Range(more)
<1>1. CASE cids = << >> \/ more = << >>
  BY <1>1 DEF AddCids
<1>2. CASE cids # << >> /\ more # << >>
  <2>1. PICK g : /\ g[0] = cids
                 /\ g[Len(more)] = AddCids(cids, more)
                 /\ \A k \in 1..Len(more) :
                      g[k] = IF more[k] \in Range(g[k - 1]) THEN g[k - 1] ELSE Append(g[k - 1], more[k])
    BY <1>2, AddCidsSteps
  <2> DEFINE Good(k) == g[k] \in Seq(Cid) /\ g[k] # << >> /\ Range(g[k]) = Range(cids) \cup {more[i] : i \in 1..k}
             S == {k \in Nat : k <= Len(more) => Good(k)}
  <2>2. 0 \in S
    <3>1. 1..0 = {}
      OBVIOUS
    <3> QED BY <1>2, <2>1, <3>1
  <2>3. ASSUME NEW n \in Nat, n \in S
        PROVE  n + 1 \in S
    <3> SUFFICES ASSUME n + 1 <= Len(more) PROVE Good(n + 1)
      <4> HIDE DEF Good
      <4> QED OBVIOUS
    <3>1. Good(n)
      <4> HIDE DEF Good
      <4> QED BY <2>3
    <3>2. n + 1 \in 1..Len(more) /\ more[n + 1] \in Cid /\ n + 1 - 1 = n
      OBVIOUS
    <3>3. g[n + 1] = IF more[n + 1] \in Range(g[n]) THEN g[n] ELSE Append(g[n], more[n + 1])
      BY <2>1, <3>2
    <3>4. {more[i] : i \in 1..n + 1} = {more[i] : i \in 1..n} \cup {more[n + 1]}
      <4>1. 1..n + 1 = (1..n) \cup {n + 1}
        OBVIOUS
      <4> QED BY <4>1
    <3>5. CASE more[n + 1] \in Range(g[n])
      BY <3>1, <3>3, <3>4, <3>5
    <3>6. CASE more[n + 1] \notin Range(g[n])
      <4>1. g[n + 1] = Append(g[n], more[n + 1])
        BY <3>3, <3>6
      <4>2. /\ Append(g[n], more[n + 1]) \in Seq(Cid) /\ Append(g[n], more[n + 1]) # << >>
            /\ Range(Append(g[n], more[n + 1])) = Range(g[n]) \cup {more[n + 1]}
        <5>1. g[n] \in Seq(Cid)
          BY <3>1
        <5> HIDE DEF Good
        <5> QED BY <5>1, <3>2, RangeOfAppend
      <4> QED BY <3>1, <3>4, <4>1, <4>2
    <3> QED BY <3>5, <3>6
  <2>4. Nat \subseteq S
    <3> HIDE DEF S
    <3> QED BY <2>2, <2>3, PrefixInduction
  <2>5. Good(Len(more))
    <3>1. Len(more) \in Nat
      OBVIOUS
    <3>2. Len(more) \in S
      <4> HIDE DEF S
      <4> QED BY <2>4, <3>1
    <3> HIDE DEF Good
    <3> QED BY <3>2
  <2>6. {more[i] : i \in 1..Len(more)} = Range(more)
    BY DEF Range
  <2> QED BY <1>2, <2>1, <2>5, <2>6
<1> QED BY <1>1, <1>2

\* A search finds an entry of the service, if the list has one
LEMMA FindFinds ==
  ASSUME NEW list \in Seq(Entry), NEW service
  PROVE  /\ Find(list, service) \in 0..Len(list)
         /\ Find(list, service) # 0 => list[Find(list, service)].service = service
         /\ Find(list, service) = 0 => \A i \in 1..Len(list) : list[i].service # service
<1> DEFINE I == {i \in 1..Len(list) : list[i].service = service}
<1>1. Find(list, service) = IF I # {} THEN Min(I) ELSE 0
  BY DEF Find, SelectInSeq
<1>2. Len(list) \in Nat /\ I \in SUBSET (1..Len(list))
  OBVIOUS
<1>3. CASE I = {}
  <2>1. Find(list, service) = 0
    BY <1>1, <1>3
  <2>2. \A i \in 1..Len(list) : list[i].service # service
    BY <1>3
  <2> QED BY <1>2, <2>1, <2>2
<1>4. CASE I # {}
  <2> HIDE DEF I
  <2>1. Min(I) \in I
    BY <1>2, <1>4, MinOf
  <2>2. Find(list, service) \in I
    BY <1>1, <1>4, <2>1
  <2>3. Find(list, service) \in 1..Len(list) /\ list[Find(list, service)].service = service
    BY <2>2 DEF I
  <2> QED BY <2>3, <1>2
<1> QED BY <1>3, <1>4

\* An event of a list is one of an entry of it
LEMMA InEvents ==
  ASSUME NEW list \in Seq(Entry), NEW event
  PROVE  event \in Events(list) <=> \E i \in 1..Len(list) : event \in EventsOf(list[i])
BY DEF Events

\* Two entries of one service
LEMMA JoinedEvents ==
  ASSUME NEW one \in Entry, NEW two \in Entry, one.service = two.service,
         NEW both \in Entry, both.service = one.service, both.cids = AddCids(one.cids, two.cids)
  PROVE  EventsOf(both) = EventsOf(one) \cup EventsOf(two)
<1>1. one.cids \in Seq(Cid) /\ two.cids \in Seq(Cid)
  BY DEF Entry
<1>2. Range(one.cids) \subseteq Cid /\ Range(two.cids) \subseteq Cid
  BY <1>1 DEF Range
<1>3. CASE Wildcard(one) \/ Wildcard(two)
  <2>1. Wildcard(both)
    BY <1>1, <1>3, AddCidsRange DEF Wildcard
  <2> QED BY <1>2, <1>3, <2>1 DEF EventsOf
<1>4. CASE ~Wildcard(one) /\ ~Wildcard(two)
  <2>1. ~Wildcard(both) /\ Range(both.cids) = Range(one.cids) \cup Range(two.cids)
    BY <1>1, <1>4, AddCidsRange DEF Wildcard
  <2> QED BY <1>4, <2>1 DEF EventsOf
<1> QED BY <1>3, <1>4

MergedOf(entry) == IF entry.service \in Standard THEN {} ELSE EventsOf(entry)

\* One turn of the merge adds the events of the entry, unless its service is standard
LEMMA MergeEntryEvents ==
  ASSUME NEW list \in Seq(Entry), NEW in_size \in 0..Len(list), NEW entry \in Entry
  PROVE  /\ MergeEntry(list, in_size, entry) \in Seq(Entry)
         /\ Len(MergeEntry(list, in_size, entry)) >= Len(list)
         /\ Events(MergeEntry(list, in_size, entry)) = Events(list) \cup MergedOf(entry)
<1> DEFINE sub == SubSeq(list, 1, in_size)
           i == Find(sub, entry.service)
           result == MergeEntry(list, in_size, entry)
<1>1. sub \in Seq(Entry) /\ Len(sub) = in_size /\ \A j \in 1..in_size : sub[j] = list[j]
  OBVIOUS
<1> HIDE DEF sub
<1>2. /\ i \in 0..Len(sub)
      /\ i # 0 => sub[i].service = entry.service
  BY <1>1, FindFinds
<1>3. /\ i \in 0..Len(list)
      /\ i # 0 => i \in 1..Len(list) /\ list[i].service = entry.service
  BY <1>1, <1>2
<1>4. result = IF entry.service \in Standard THEN list
               ELSE IF i = 0 THEN Append(list, entry)
               ELSE [list EXCEPT ![i].cids = AddCids(@, entry.cids)]
  BY DEF MergeEntry, sub
<1> HIDE DEF i, result
<1>5. CASE entry.service \in Standard
  BY <1>4, <1>5 DEF MergedOf, result
<1>6. CASE entry.service \notin Standard /\ i = 0
  <2>1. result = Append(list, entry)
    BY <1>4, <1>6
  <2>2. result \in Seq(Entry) /\ Len(result) = Len(list) + 1
    BY <2>1
  <2>3. result[Len(list) + 1] = entry /\ \A j \in 1..Len(list) : result[j] = list[j]
    BY <2>1
  <2>4. ASSUME NEW event
        PROVE  event \in Events(result) <=> event \in Events(list) \/ event \in EventsOf(entry)
    <3>1. event \in Events(result) <=> \E j \in 1..Len(result) : event \in EventsOf(result[j])
      BY <2>2, InEvents
    <3>2. 1..Len(result) = (1..Len(list)) \cup {Len(list) + 1}
      BY <2>2
    <3>3. event \in Events(list) <=> \E j \in 1..Len(list) : event \in EventsOf(list[j])
      BY InEvents
    <3> QED BY <2>3, <3>1, <3>2, <3>3
  <2>5. Events(result) = Events(list) \cup MergedOf(entry)
    BY <2>4, <1>6 DEF MergedOf
  <2>6. Len(result) >= Len(list)
    BY <2>2
  <2> QED BY <2>2, <2>5, <2>6 DEF result
<1>7. CASE entry.service \notin Standard /\ i # 0
  <2> DEFINE both == [list[i] EXCEPT !.cids = AddCids(list[i].cids, entry.cids)]
  <2>1. i \in 1..Len(list) /\ list[i] \in Entry /\ list[i].service = entry.service
    BY <1>3, <1>7
  <2>2. list[i].cids \in Seq(Cid) /\ entry.cids \in Seq(Cid)
    BY <2>1 DEF Entry
  <2>3. AddCids(list[i].cids, entry.cids) \in Seq(Cid)
    BY <2>2, AddCidsRange
  <2>4. both \in Entry /\ both.service = list[i].service /\ both.cids = AddCids(list[i].cids, entry.cids)
    BY <2>1, <2>3 DEF Entry
  <2>5. result = [list EXCEPT ![i] = both]
    BY <1>4, <1>7, <2>1
  <2> HIDE DEF both
  <2>6. result \in Seq(Entry) /\ Len(result) = Len(list) /\ result[i] = both
        /\ \A j \in 1..Len(list) : j # i => result[j] = list[j]
    BY <2>1, <2>4, <2>5
  <2>7. EventsOf(both) = EventsOf(list[i]) \cup EventsOf(entry)
    BY <2>1, <2>4, JoinedEvents
  <2>8. ASSUME NEW event
        PROVE  event \in Events(result) <=> event \in Events(list) \/ event \in EventsOf(entry)
    <3>1. event \in Events(result) <=> \E j \in 1..Len(list) : event \in EventsOf(result[j])
      BY <2>6, InEvents
    <3>2. event \in Events(list) <=> \E j \in 1..Len(list) : event \in EventsOf(list[j])
      BY InEvents
    <3>3. event \in EventsOf(both) <=> event \in EventsOf(list[i]) \/ event \in EventsOf(entry)
      BY <2>7
    <3> QED BY <2>1, <2>6, <3>1, <3>2, <3>3
  <2>9. Events(result) = Events(list) \cup MergedOf(entry)
    BY <2>8, <1>7 DEF MergedOf
  <2>10. Len(result) >= Len(list)
    BY <2>6
  <2> QED BY <2>6, <2>9, <2>10 DEF result
<1> QED BY <1>5, <1>6, <1>7

\* The fold of Merge, entry by entry
LEMMA MergeSteps ==
  ASSUME NEW list \in Seq(Entry), NEW more \in Seq(Entry)
  PROVE  \E g : /\ g[0] = list
                /\ g[Len(more)] = Merge(list, more)
                /\ \A k \in 1..Len(more) : g[k] = MergeEntry(g[k - 1], Len(list), more[k])
<1> DEFINE n == Len(list)
           V == {l \in Seq(Entry) : Len(l) >= n}
           m == Len(more)
           Step(i, all) == MergeEntry(all, Len(list), more[i])
           step == [p \in (1..m) \X V |-> Step(p[1], p[2])]
           fold[s \in SUBSET DOMAIN more] ==
              IF s = {} THEN list ELSE MergeEntry(fold[s \ {Max(s)}], Len(list), more[Max(s)])
           g == [k \in 0..m |-> fold[1..k]]
<1>1. Merge(list, more) = fold[DOMAIN more]
  BY DEF Merge, FoldLeft, MapThenFoldSet
<1>2. m \in Nat /\ DOMAIN more = 1..m /\ n \in Nat
  OBVIOUS
<1>3. step \in [(1..m) \X V -> V]
  <2> SUFFICES ASSUME NEW p \in (1..m) \X V PROVE Step(p[1], p[2]) \in V
    OBVIOUS
  <2>1. more[p[1]] \in Entry /\ p[2] \in Seq(Entry) /\ Len(p[2]) >= n /\ n \in 0..Len(p[2])
    OBVIOUS
  <2>2. Step(p[1], p[2]) \in Seq(Entry) /\ Len(Step(p[1], p[2])) >= Len(p[2])
    BY <2>1, MergeEntryEvents
  <2> HIDE DEF Step
  <2> QED BY <2>1, <2>2
<1>4. PICK f \in [SUBSET (1..m) -> V] : FoldsTo(f, m, list, step)
  <2>1. list \in V
    OBVIOUS
  <2> HIDE DEF step, m, V, fold, g
  <2> QED BY <2>1, <1>2, <1>3, FoldExists
<1>5. f = [s \in SUBSET DOMAIN more |->
              IF s = {} THEN list ELSE MergeEntry(f[s \ {Max(s)}], Len(list), more[Max(s)])]
  <2> SUFFICES ASSUME NEW s \in SUBSET (1..m), s # {}
               PROVE  f[s] = Step(Max(s), f[s \ {Max(s)}])
    <3> HIDE DEF m
    <3> QED BY <1>2, <1>4 DEF FoldsTo
  <2>1. Max(s) \in s /\ Max(s) \in 1..m
    BY <1>2, MaxOf
  <2>2. f[s \ {Max(s)}] \in V
    BY <1>4
  <2>3. f[s] = step[<<Max(s), f[s \ {Max(s)}]>>]
    BY <1>4 DEF FoldsTo
  <2> HIDE DEF m, V
  <2>4. <<Max(s), f[s \ {Max(s)}]>> \in (1..m) \X V
    BY <2>1, <2>2
  <2>5. step[<<Max(s), f[s \ {Max(s)}]>>] = Step(Max(s), f[s \ {Max(s)}])
    BY <2>4
  <2> QED BY <2>3, <2>5
<1>6. fold = [s \in SUBSET DOMAIN more |->
              IF s = {} THEN list ELSE MergeEntry(fold[s \ {Max(s)}], Len(list), more[Max(s)])]
  BY <1>5
<1> HIDE DEF fold
<1>7. g[0] = list
  <2>1. 1..0 = {} /\ 0 \in 0..m
    OBVIOUS
  <2> QED BY <1>6, <2>1
<1>8. g[m] = Merge(list, more)
  BY <1>1, <1>2
<1>9. ASSUME NEW k \in 1..m
      PROVE  g[k] = Step(k, g[k - 1])
  <2>1. /\ Max(1..k) = k /\ (1..k) \ {k} = 1..k - 1
        /\ 1..k \in SUBSET (1..m) /\ 1..k # {}
    BY <1>2, MaxOfPrefix
  <2>2. fold[1..k] = Step(k, fold[1..k - 1])
    BY <1>2, <1>6, <2>1
  <2>3. k \in 0..m /\ k - 1 \in 0..m
    OBVIOUS
  <2> QED BY <2>2, <2>3
<1> HIDE DEF g, m
<1>10. /\ g[0] = list /\ g[m] = Merge(list, more)
       /\ \A k \in 1..m : g[k] = MergeEntry(g[k - 1], Len(list), more[k])
  BY <1>7, <1>8, <1>9
<1> QED BY <1>10 DEF m

\* A merge adds the events of services that are not standard
LEMMA MergeEvents ==
  ASSUME NEW list \in Seq(Entry), NEW more \in Seq(Entry)
  PROVE  /\ Merge(list, more) \in Seq(Entry)
         /\ Events(Merge(list, more)) = Events(list) \cup UNION {MergedOf(more[i]) : i \in 1..Len(more)}
<1>1. PICK g : /\ g[0] = list
               /\ g[Len(more)] = Merge(list, more)
               /\ \A k \in 1..Len(more) : g[k] = MergeEntry(g[k - 1], Len(list), more[k])
  BY MergeSteps
<1> DEFINE U(k) == UNION {MergedOf(more[i]) : i \in 1..k}
           Good(k) == /\ g[k] \in Seq(Entry) /\ Len(g[k]) >= Len(list)
                      /\ Events(g[k]) = Events(list) \cup U(k)
           S == {k \in Nat : k <= Len(more) => Good(k)}
<1>2. 0 \in S
  <2>1. 1..0 = {}
    OBVIOUS
  <2>2. Good(0)
    BY <1>1, <2>1
  <2> HIDE DEF Good
  <2> QED BY <2>2
<1>3. ASSUME NEW n \in Nat, n \in S
      PROVE  n + 1 \in S
  <2> SUFFICES ASSUME n + 1 <= Len(more) PROVE Good(n + 1)
    <3> HIDE DEF Good
    <3> QED OBVIOUS
  <2>1. Good(n)
    <3> HIDE DEF Good
    <3> QED BY <1>3
  <2>2. n + 1 \in 1..Len(more) /\ more[n + 1] \in Entry /\ n + 1 - 1 = n
    OBVIOUS
  <2>3. g[n + 1] = MergeEntry(g[n], Len(list), more[n + 1])
    BY <1>1, <2>2
  <2>4. g[n] \in Seq(Entry) /\ Len(list) \in 0..Len(g[n])
    BY <2>1
  <2>5. /\ g[n + 1] \in Seq(Entry) /\ Len(g[n + 1]) >= Len(g[n])
        /\ Events(g[n + 1]) = Events(g[n]) \cup MergedOf(more[n + 1])
    <3> HIDE DEF Good
    <3> DEFINE result == MergeEntry(g[n], Len(list), more[n + 1])
    <3>1. /\ result \in Seq(Entry) /\ Len(result) >= Len(g[n])
          /\ Events(result) = Events(g[n]) \cup MergedOf(more[n + 1])
      BY <2>2, <2>4, MergeEntryEvents
    <3> HIDE DEF result
    <3>2. g[n + 1] = result
      BY <2>3 DEF result
    <3> QED BY <3>1, <3>2
  <2>6. U(n + 1) = U(n) \cup MergedOf(more[n + 1])
    <3> DEFINE A(i) == MergedOf(more[i])
    <3>1. 1..n + 1 = (1..n) \cup {n + 1}
      OBVIOUS
    <3> HIDE DEF A
    <3>2. \A x : (\E i \in 1..n + 1 : x \in A(i)) <=> (\E i \in 1..n : x \in A(i)) \/ x \in A(n + 1)
      BY <3>1
    <3>3. \A x : /\ x \in UNION {A(i) : i \in 1..n + 1} <=> \E i \in 1..n + 1 : x \in A(i)
                /\ x \in UNION {A(i) : i \in 1..n} <=> \E i \in 1..n : x \in A(i)
      BY Zenon
    <3> DEFINE X == UNION {A(i) : i \in 1..n + 1}
               Y == UNION {A(i) : i \in 1..n}
    <3>4. \A x : x \in X <=> x \in Y \/ x \in A(n + 1)
      BY <3>2, <3>3
    <3> HIDE DEF X, Y
    <3>5. X = Y \cup A(n + 1)
      BY <3>4
    <3> QED BY <3>5 DEF A, X, Y
  <2>7. Len(g[n + 1]) >= Len(list)
    BY <2>1, <2>5
  <2> HIDE DEF U
  <2> QED BY <2>1, <2>5, <2>6, <2>7
<1>4. Nat \subseteq S
  <2> HIDE DEF S
  <2> QED BY <1>2, <1>3, PrefixInduction
<1>5. Good(Len(more))
  <2>1. Len(more) \in Nat
    OBVIOUS
  <2>2. Len(more) \in S
    <3> HIDE DEF S
    <3> QED BY <1>4, <2>1
  <2> HIDE DEF Good
  <2> QED BY <2>2
<1> QED BY <1>1, <1>5

-----------------------------------------------------------------------------
(***************************************************************************)
(* The merge of the lists of all clients.                                  *)

ListsInv ==
  /\ clients \in Seq(Subscriber) /\ Range(clients) = Subscriber
  /\ subscribed \in [Subscriber -> Seq(Entry)]

\* The fold of AllMerged, client by client
LEMMA AllMergedSteps ==
  ASSUME NEW lists \in [Subscriber -> Seq(Entry)], clients \in Seq(Subscriber)
  PROVE  \E g : /\ g[0] = StandardList
                /\ g[Len(clients)] = AllMerged(lists)
                /\ \A k \in 1..Len(clients) : g[k] = Merge(g[k - 1], lists[clients[k]])
<1> DEFINE V == Seq(Entry)
           m == Len(clients)
           Step(i, all) == Merge(all, lists[clients[i]])
           step == [p \in (1..m) \X V |-> Step(p[1], p[2])]
           fold[s \in SUBSET DOMAIN clients] ==
              IF s = {} THEN StandardList ELSE Merge(fold[s \ {Max(s)}], lists[clients[Max(s)]])
           g == [k \in 0..m |-> fold[1..k]]
<1>1. AllMerged(lists) = fold[DOMAIN clients]
  BY DEF AllMerged, FoldLeft, MapThenFoldSet
<1>2. m \in Nat /\ DOMAIN clients = 1..m
  OBVIOUS
<1>3. step \in [(1..m) \X V -> V]
  <2> SUFFICES ASSUME NEW p \in (1..m) \X V PROVE Step(p[1], p[2]) \in V
    OBVIOUS
  <2>1. lists[clients[p[1]]] \in Seq(Entry) /\ p[2] \in Seq(Entry)
    OBVIOUS
  <2> QED BY <2>1, MergeEvents
<1>4. PICK f \in [SUBSET (1..m) -> V] : FoldsTo(f, m, StandardList, step)
  <2>1. StandardList \in V
    BY SubscriptionsAssumption
  <2> HIDE DEF step, m, V, fold, g
  <2> QED BY <2>1, <1>2, <1>3, FoldExists
<1>5. f = [s \in SUBSET DOMAIN clients |->
              IF s = {} THEN StandardList ELSE Merge(f[s \ {Max(s)}], lists[clients[Max(s)]])]
  <2> SUFFICES ASSUME NEW s \in SUBSET (1..m), s # {}
               PROVE  f[s] = Step(Max(s), f[s \ {Max(s)}])
    <3> HIDE DEF m
    <3> QED BY <1>2, <1>4 DEF FoldsTo
  <2>1. Max(s) \in s /\ Max(s) \in 1..m
    BY <1>2, MaxOf
  <2>2. f[s \ {Max(s)}] \in V
    BY <1>4
  <2>3. f[s] = step[<<Max(s), f[s \ {Max(s)}]>>]
    BY <1>4 DEF FoldsTo
  <2> HIDE DEF m, V
  <2>4. <<Max(s), f[s \ {Max(s)}]>> \in (1..m) \X V
    BY <2>1, <2>2
  <2>5. step[<<Max(s), f[s \ {Max(s)}]>>] = Step(Max(s), f[s \ {Max(s)}])
    BY <2>4
  <2> QED BY <2>3, <2>5
<1>6. fold = [s \in SUBSET DOMAIN clients |->
              IF s = {} THEN StandardList ELSE Merge(fold[s \ {Max(s)}], lists[clients[Max(s)]])]
  BY <1>5
<1> HIDE DEF fold
<1>7. g[0] = StandardList
  <2>1. 1..0 = {} /\ 0 \in 0..m
    OBVIOUS
  <2> QED BY <1>6, <2>1
<1>8. g[m] = AllMerged(lists)
  BY <1>1, <1>2
<1>9. ASSUME NEW k \in 1..m
      PROVE  g[k] = Step(k, g[k - 1])
  <2>1. /\ Max(1..k) = k /\ (1..k) \ {k} = 1..k - 1
        /\ 1..k \in SUBSET (1..m) /\ 1..k # {}
    BY <1>2, MaxOfPrefix
  <2>2. fold[1..k] = Step(k, fold[1..k - 1])
    BY <1>2, <1>6, <2>1
  <2>3. k \in 0..m /\ k - 1 \in 0..m
    OBVIOUS
  <2> QED BY <2>2, <2>3
<1> HIDE DEF g, m
<1>10. /\ g[0] = StandardList /\ g[m] = AllMerged(lists)
       /\ \A k \in 1..m : g[k] = Merge(g[k - 1], lists[clients[k]])
  BY <1>7, <1>8, <1>9
<1> QED BY <1>10 DEF m

OthersOf(list) == {event \in Events(list) : event[1] \in Other}

LEMMA MergedOfList ==
  ASSUME NEW list \in Seq(Entry)
  PROVE  UNION {MergedOf(list[i]) : i \in 1..Len(list)} = OthersOf(list)
<1>1. ASSUME NEW event, NEW i \in 1..Len(list)
      PROVE  event \in MergedOf(list[i]) <=> event \in EventsOf(list[i]) /\ event[1] \in Other
  <2>1. list[i] \in Entry
    OBVIOUS
  <2>2. list[i].service \in Standard \cup Other
    BY <2>1 DEF Entry, Service
  <2>3. event \in EventsOf(list[i]) => event[1] = list[i].service
    BY DEF EventsOf
  <2> QED BY <2>2, <2>3, SubscriptionsAssumption DEF MergedOf
<1>2. ASSUME NEW event
      PROVE  event \in OthersOf(list) <=> \E i \in 1..Len(list) : event \in EventsOf(list[i]) /\ event[1] \in Other
  BY InEvents DEF OthersOf
<1> QED BY <1>1, <1>2

\* What the clients get merged into is the standard list and the events of all of them
LEMMA AllMergedEvents ==
  ASSUME NEW lists \in [Subscriber -> Seq(Entry)],
         clients \in Seq(Subscriber), Range(clients) = Subscriber
  PROVE  /\ AllMerged(lists) \in Seq(Entry)
         /\ Events(AllMerged(lists)) = Events(StandardList) \cup UNION {OthersOf(lists[c]) : c \in Subscriber}
<1>1. PICK g : /\ g[0] = StandardList
               /\ g[Len(clients)] = AllMerged(lists)
               /\ \A k \in 1..Len(clients) : g[k] = Merge(g[k - 1], lists[clients[k]])
  BY AllMergedSteps
<1> DEFINE U(k) == UNION {OthersOf(lists[clients[i]]) : i \in 1..k}
           Good(k) == g[k] \in Seq(Entry) /\ Events(g[k]) = Events(StandardList) \cup U(k)
           S == {k \in Nat : k <= Len(clients) => Good(k)}
<1>2. 0 \in S
  <2>1. 1..0 = {}
    OBVIOUS
  <2>2. Good(0)
    BY <1>1, <2>1, SubscriptionsAssumption
  <2> HIDE DEF Good
  <2> QED BY <2>2
<1>3. ASSUME NEW n \in Nat, n \in S
      PROVE  n + 1 \in S
  <2> SUFFICES ASSUME n + 1 <= Len(clients) PROVE Good(n + 1)
    <3> HIDE DEF Good
    <3> QED OBVIOUS
  <2>1. Good(n)
    <3> HIDE DEF Good
    <3> QED BY <1>3
  <2>2. n + 1 \in 1..Len(clients) /\ lists[clients[n + 1]] \in Seq(Entry) /\ n + 1 - 1 = n
    OBVIOUS
  <2>3. g[n + 1] = Merge(g[n], lists[clients[n + 1]])
    BY <1>1, <2>2
  <2>4. g[n] \in Seq(Entry)
    BY <2>1
  <2>5. /\ g[n + 1] \in Seq(Entry)
        /\ Events(g[n + 1]) = Events(g[n]) \cup OthersOf(lists[clients[n + 1]])
    <3> HIDE DEF Good
    <3> QED BY <2>2, <2>3, <2>4, MergeEvents, MergedOfList
  <2>6. U(n + 1) = U(n) \cup OthersOf(lists[clients[n + 1]])
    <3> DEFINE A(i) == OthersOf(lists[clients[i]])
    <3>1. 1..n + 1 = (1..n) \cup {n + 1}
      OBVIOUS
    <3> HIDE DEF A
    <3>2. \A x : (\E i \in 1..n + 1 : x \in A(i)) <=> (\E i \in 1..n : x \in A(i)) \/ x \in A(n + 1)
      BY <3>1
    <3>3. \A x : /\ x \in UNION {A(i) : i \in 1..n + 1} <=> \E i \in 1..n + 1 : x \in A(i)
                /\ x \in UNION {A(i) : i \in 1..n} <=> \E i \in 1..n : x \in A(i)
      BY Zenon
    <3> DEFINE X == UNION {A(i) : i \in 1..n + 1}
               Y == UNION {A(i) : i \in 1..n}
    <3>4. \A x : x \in X <=> x \in Y \/ x \in A(n + 1)
      BY <3>2, <3>3
    <3> HIDE DEF X, Y
    <3>5. X = Y \cup A(n + 1)
      BY <3>4
    <3> QED BY <3>5 DEF A, X, Y
  <2> HIDE DEF U
  <2> QED BY <2>1, <2>5, <2>6
<1>4. Nat \subseteq S
  <2> HIDE DEF S
  <2> QED BY <1>2, <1>3, PrefixInduction
<1>5. Good(Len(clients))
  <2>1. Len(clients) \in Nat
    OBVIOUS
  <2>2. Len(clients) \in S
    <3> HIDE DEF S
    <3> QED BY <1>4, <2>1
  <2> HIDE DEF Good
  <2> QED BY <2>2
<1>6. UNION {OthersOf(lists[clients[i]]) : i \in 1..Len(clients)} = UNION {OthersOf(lists[c]) : c \in Subscriber}
  <2>1. {clients[i] : i \in 1..Len(clients)} = Subscriber
    BY DEF Range
  <2> QED BY <2>1
<1> QED BY <1>1, <1>5, <1>6

\* The merge of lists that are what they may be is their union
LEMMA MergeIsUnionFromLists ==
  ASSUME ListsInv
  PROVE  MergeIsUnion
<1>1. Events(AllMerged(subscribed)) = Events(StandardList) \cup UNION {OthersOf(subscribed[c]) : c \in Subscriber}
  BY AllMergedEvents DEF ListsInv
<1>2. UNION {OthersOf(subscribed[c]) : c \in Subscriber}
        = {event \in UNION {Events(subscribed[c]) : c \in Subscriber} : event[1] \in Other}
  BY DEF OthersOf
<1> QED BY <1>1, <1>2 DEF MergeIsUnion

-----------------------------------------------------------------------------
(***************************************************************************)
(* The invariant of the lists.                                             *)

SubscriptionsIInv ==
  /\ ListsInv
  /\ \A c \in Subscriber : subscribed[c] \in Lists \cup {StandardList}
  /\ merged \in Seq(Entry) /\ enabled \in Seq(Entry) /\ confirmed \in BOOLEAN
  /\ \A list \in {merged, enabled} : Events(StandardList) \subseteq Events(list)
  /\ confirmed => /\ enabled = merged
                  /\ \A c \in Subscriber : OthersOf(subscribed[c]) \subseteq Events(enabled)

\* A list that compares equal has the events of the other at least
LEMMA CmpEvents ==
  ASSUME NEW a \in Seq(Entry), NEW b \in Seq(Entry), Cmp(a, b)
  PROVE  Events(a) \subseteq Events(b)
<1> SUFFICES ASSUME NEW event, event \in Events(a)
             PROVE  event \in Events(b)
  OBVIOUS
<1>1. PICK i \in 1..Len(a) : event \in EventsOf(a[i])
  BY InEvents
<1> DEFINE o == Find(b, a[i].service)
<1>2. o # 0 /\ SameContents(a[i], b[o])
  BY DEF Cmp
<1>3. o \in 1..Len(b) /\ b[o].service = a[i].service
  <2>1. o \in 0..Len(b) /\ (o # 0 => b[o].service = a[i].service)
    BY FindFinds
  <2> HIDE DEF o
  <2> QED BY <1>2, <2>1
<1> HIDE DEF o
<1>4. a[i] \in Entry /\ b[o] \in Entry
  BY <1>3
<1>5. a[i].cids \in Seq(Cid) /\ b[o].cids \in Seq(Cid)
  BY <1>4 DEF Entry
<1>6. /\ Len(a[i].cids) = Len(b[o].cids)
      /\ Range(a[i].cids) \subseteq Range(b[o].cids)
  BY <1>2 DEF SameContents
<1>7. Wildcard(a[i]) <=> Wildcard(b[o])
  <2>1. a[i].cids = << >> <=> Len(a[i].cids) = 0
    BY <1>5
  <2>2. b[o].cids = << >> <=> Len(b[o].cids) = 0
    BY <1>5
  <2> QED BY <1>6, <2>1, <2>2 DEF Wildcard
<1>8. event \in EventsOf(b[o])
  BY <1>1, <1>3, <1>6, <1>7 DEF EventsOf
<1> QED BY <1>3, <1>8, InEvents

LEMMA NoOthersInStandardList == StandardList \in Seq(Entry) /\ OthersOf(StandardList) = {}
<1>1. StandardList \in Seq(Entry) /\ \A i \in 1..Len(StandardList) : StandardList[i].service \in Standard
  BY SubscriptionsAssumption
<1>2. UNION {MergedOf(StandardList[i]) : i \in 1..Len(StandardList)} = {}
  BY <1>1 DEF MergedOf
<1> QED BY <1>1, <1>2, MergedOfList

\* The invariant of the lists holds at first ...
LEMMA SubscriptionsInitInv ==
  ASSUME TrafficInit
  PROVE  SubscriptionsIInv
<1> USE DEF TrafficInit, SubscriptionsInit
<1>1. clients \in Seq(Subscriber) /\ Range(clients) = Subscriber
  <2> DEFINE n == Cardinality(Subscriber)
  <2>1. IsFiniteSet(Subscriber)
    BY ForwardingAssumption, TrafficAssumption
  <2>2. n \in Nat
    BY <2>1, FS_CardinalityType
  <2>3. clients \in [1..n -> Subscriber] /\ \A i, j \in 1..n : i # j => clients[i] # clients[j]
    BY DEF SetToSeqs
  <2> HIDE DEF n
  <2>4. clients \in Injection(1..n, Subscriber)
    BY <2>3 DEF Injection, IsInjective
  <2>5. IsFiniteSet(1..n) /\ Cardinality(1..n) = n
    BY <2>2, FS_Interval
  <2>6. clients \in Surjection(1..n, Subscriber)
    BY <2>1, <2>4, <2>5, FS_Injection DEF n
  <2>7. \A c \in Subscriber : \E i \in 1..n : clients[i] = c
    BY <2>6 DEF Surjection
  <2> QED BY <2>2, <2>3, <2>7 DEF Range
<1>2. subscribed \in [Subscriber -> Seq(Entry)] /\ \A c \in Subscriber : subscribed[c] = StandardList
  BY NoOthersInStandardList
<1>3. merged \in Seq(Entry) /\ enabled \in Seq(Entry) /\ confirmed \in BOOLEAN
  BY NoOthersInStandardList
<1>4. \A c \in Subscriber : OthersOf(subscribed[c]) = {}
  BY <1>2, NoOthersInStandardList
<1> QED BY <1>1, <1>2, <1>3, <1>4 DEF SubscriptionsIInv, ListsInv

\* The part of the invariant that a list of a client and the merge of all keep
LEMMA MergeClientListsInv ==
  ASSUME SubscriptionsIInv, NEW taken \in BOOLEAN, MergeClientLists(taken), UNCHANGED clients,
         subscribed' \in [Subscriber -> Seq(Entry)],
         \A c \in Subscriber : subscribed'[c] \in Lists \cup {StandardList}
  PROVE  SubscriptionsIInv'
<1>1. ListsInv'
  BY DEF SubscriptionsIInv, ListsInv
<1>2. /\ Updated \in Seq(Entry)
      /\ Events(Updated) = Events(StandardList) \cup UNION {OthersOf(subscribed'[c]) : c \in Subscriber}
  <2>1. PICK lists : lists = subscribed'
    OBVIOUS
  <2>2. lists \in [Subscriber -> Seq(Entry)]
    BY <2>1
  <2>3. /\ AllMerged(lists) \in Seq(Entry)
        /\ Events(AllMerged(lists)) = Events(StandardList) \cup UNION {OthersOf(lists[c]) : c \in Subscriber}
    BY <2>2, AllMergedEvents DEF SubscriptionsIInv, ListsInv
  <2>4. Updated = AllMerged(lists)
    BY <2>1 DEF Updated
  <2> QED BY <2>1, <2>3, <2>4
<1>3. \A c \in Subscriber : OthersOf(subscribed'[c]) \subseteq Events(Updated)
  BY <1>2
<1>4. CASE NotUpdated
  <2>1. merged' = merged /\ enabled' = enabled /\ confirmed' = confirmed
    BY <1>4 DEF MergeClientLists
  <2>2. merged \in Seq(Entry)
    BY DEF SubscriptionsIInv
  <2>3. Events(Updated) \subseteq Events(merged)
    BY <1>2, <1>4, <2>2, CmpEvents DEF NotUpdated
  <2>4. confirmed => enabled = merged /\ \A c \in Subscriber : OthersOf(subscribed'[c]) \subseteq Events(enabled)
    BY <1>3, <2>3 DEF SubscriptionsIInv
  <2> QED BY <1>1, <2>1, <2>4 DEF SubscriptionsIInv
<1>5. CASE ~NotUpdated
  <2>1. merged' = Updated /\ enabled' = (IF taken THEN Updated ELSE enabled) /\ confirmed' = taken
    BY <1>5 DEF MergeClientLists
  <2>2. Events(StandardList) \subseteq Events(Updated)
    BY <1>2
  <2> QED BY <1>1, <1>2, <1>3, <2>1, <2>2 DEF SubscriptionsIInv
<1> QED BY <1>4, <1>5

\* All clients stay in the order when one of them is replaced
LEMMA ReplacedClients ==
  ASSUME clients \in Seq(Subscriber), Range(clients) = Subscriber, NEW i \in 1..Len(clients)
  PROVE  LET new == Append(RemoveAt(clients, i), clients[i])
         IN new \in Seq(Subscriber) /\ Range(new) = Subscriber
<1> DEFINE rest == RemoveAt(clients, i)
<1>1. rest = SubSeq(clients, 1, i - 1) \o SubSeq(clients, i + 1, Len(clients))
  BY DEF RemoveAt
<1>2. /\ rest \in Seq(Subscriber) /\ Len(rest) = Len(clients) - 1
      /\ \A j \in 1..i - 1 : rest[j] = clients[j]
      /\ \A j \in i..Len(clients) - 1 : rest[j] = clients[j + 1]
  <2> DEFINE first == SubSeq(clients, 1, i - 1)
             last == SubSeq(clients, i + 1, Len(clients))
  <2>1. Len(clients) \in Nat /\ i \in 1..Len(clients)
    OBVIOUS
  <2>2. first \in Seq(Subscriber) /\ Len(first) = i - 1 /\ \A j \in 1..i - 1 : first[j] = clients[j]
    OBVIOUS
  <2>3. /\ last \in Seq(Subscriber) /\ Len(last) = Len(clients) - i
        /\ \A j \in 1..Len(clients) - i : last[j] = clients[j + i]
    <3>1. CASE i < Len(clients)
      BY <2>1, <3>1
    <3>2. CASE i = Len(clients)
      <4>1. last = << >>
        BY <3>2, <2>1, SubSeqEmpty
      <4> QED BY <4>1, <3>2, <2>1
    <3> QED BY <2>1, <3>1, <3>2
  <2> HIDE DEF first, last
  <2>4. rest \in Seq(Subscriber) /\ Len(rest) = Len(clients) - 1
    <3>1. rest = first \o last
      BY <1>1 DEF first, last
    <3>2. first \o last \in Seq(Subscriber) /\ Len(first \o last) = Len(first) + Len(last)
      <4>1. first \in Seq(Subscriber) /\ last \in Seq(Subscriber)
        BY <2>2, <2>3
      <4> QED BY <4>1, ConcatProperties
    <3> QED BY <2>1, <2>2, <2>3, <3>1, <3>2
  <2>5. \A j \in 1..i - 1 : rest[j] = clients[j]
    BY <1>1, <2>1, <2>2, <2>3 DEF first, last
  <2>6. ASSUME NEW j \in i..Len(clients) - 1
        PROVE  rest[j] = clients[j + 1]
    <3>1. rest = first \o last
      BY <1>1 DEF first, last
    <3>2. rest[j] = last[j - (i - 1)]
      BY <2>1, <2>2, <2>3, <3>1
    <3>3. j - (i - 1) \in 1..Len(clients) - i /\ j - (i - 1) + i = j + 1
      BY <2>1
    <3> QED BY <2>3, <3>2, <3>3
  <2> QED BY <2>4, <2>5, <2>6
<1> HIDE DEF rest
<1>3. \A j \in 1..Len(clients) : j # i => clients[j] \in Range(rest)
  <2> SUFFICES ASSUME NEW j \in 1..Len(clients), j # i
               PROVE  \E k \in 1..Len(rest) : rest[k] = clients[j]
    <3>1. DOMAIN rest = 1..Len(rest)
      BY <1>2
    <3> QED BY <3>1 DEF Range
  <2>1. CASE j < i
    BY <1>2, <2>1
  <2>2. CASE j > i
    <3>1. j - 1 \in i..Len(clients) - 1 /\ j - 1 \in 1..Len(rest) /\ j - 1 + 1 = j
      BY <1>2, <2>2
    <3> QED BY <1>2, <3>1
  <2> QED BY <2>1, <2>2
<1>4. Range(rest) \subseteq Subscriber /\ clients[i] \in Subscriber
  BY <1>2 DEF Range
<1>5. Subscriber \subseteq Range(rest) \cup {clients[i]}
  BY <1>3 DEF Range
<1>6. /\ Append(rest, clients[i]) \in Seq(Subscriber)
      /\ Range(Append(rest, clients[i])) = Range(rest) \cup {clients[i]}
  BY <1>2, <1>4, RangeOfAppend
<1> QED BY <1>4, <1>5, <1>6 DEF rest

\* ... and after each step
LEMMA SubscriptionsStep ==
  ASSUME SubscriptionsIInv, TrafficNext
  PROVE  SubscriptionsIInv'
<1>1. CASE Forward
  BY <1>1 DEF Forward, subscriptionVars, SubscriptionsIInv, ListsInv
<1>2. ASSUME NEW c \in Client, NEW list \in Lists, NEW taken \in BOOLEAN, SubscribeList(c, list, taken)
      PROVE  SubscriptionsIInv'
  <2>1. subscribed' = [subscribed EXCEPT ![c] = list] /\ MergeClientLists(taken) /\ UNCHANGED clients
    BY <1>2 DEF SubscribeList
  <2>2. list \in Seq(Entry) /\ c \in Subscriber
    BY SubscriptionsAssumption, TrafficAssumption
  <2>3. /\ subscribed' \in [Subscriber -> Seq(Entry)]
        /\ \A d \in Subscriber : subscribed'[d] \in Lists \cup {StandardList}
    BY <2>1, <2>2 DEF SubscriptionsIInv, ListsInv
  <2> QED BY <2>1, <2>3, MergeClientListsInv
<1>3. ASSUME NEW taken \in BOOLEAN, SubscribeInvalid(taken)
      PROVE  SubscriptionsIInv'
  <2>1. MergeClientLists(taken) /\ UNCHANGED clients /\ subscribed' = subscribed
    BY <1>3 DEF SubscribeInvalid
  <2>2. /\ subscribed' \in [Subscriber -> Seq(Entry)]
        /\ \A d \in Subscriber : subscribed'[d] \in Lists \cup {StandardList}
    BY <2>1 DEF SubscriptionsIInv, ListsInv
  <2> QED BY <2>1, <2>2, MergeClientListsInv
<1>4. ASSUME NEW i \in DOMAIN clients, ClientReplaced(i)
      PROVE  SubscriptionsIInv'
  <2>1. clients' = Append(RemoveAt(clients, i), clients[i])
    BY <1>4 DEF ClientReplaced
  <2>2. clients \in Seq(Subscriber) /\ Range(clients) = Subscriber /\ i \in 1..Len(clients)
    BY DEF SubscriptionsIInv, ListsInv
  <2>3. clients' \in Seq(Subscriber) /\ Range(clients') = Subscriber
    BY <2>1, <2>2, ReplacedClients
  <2>4. subscribed' = [subscribed EXCEPT ![clients[i]] = StandardList] /\ clients[i] \in Subscriber
        /\ UNCHANGED <<merged, enabled, confirmed>>
    BY <1>4, <2>2 DEF ClientReplaced
  <2>5. /\ subscribed' \in [Subscriber -> Seq(Entry)]
        /\ \A d \in Subscriber : /\ subscribed'[d] \in Lists \cup {StandardList}
                                 /\ OthersOf(subscribed'[d]) \subseteq OthersOf(subscribed[d])
    BY <2>4, NoOthersInStandardList DEF SubscriptionsIInv, ListsInv
  <2> QED BY <2>3, <2>4, <2>5 DEF SubscriptionsIInv, ListsInv
<1>5. CASE NotOpened
  <2>1. /\ subscribed' = [c \in Subscriber |-> StandardList]
        /\ merged' = StandardList /\ enabled' = StandardList /\ confirmed' = TRUE /\ clients' = clients
    BY <1>5 DEF NotOpened, ResetLists
  <2>2. /\ subscribed' \in [Subscriber -> Seq(Entry)]
        /\ \A c \in Subscriber : subscribed'[c] = StandardList /\ OthersOf(subscribed'[c]) = {}
    BY <2>1, NoOthersInStandardList
  <2>3. StandardList \in Seq(Entry)
    BY NoOthersInStandardList
  <2> QED BY <2>1, <2>2, <2>3 DEF SubscriptionsIInv, ListsInv
<1> QED BY <1>1, <1>2, <1>3, <1>4, <1>5 DEF TrafficNext, Subscribe, Replace

LEMMA SubscriptionsInvariant == TrafficSpec => []SubscriptionsIInv
<1>1. SubscriptionsIInv /\ UNCHANGED trafficVars => SubscriptionsIInv'
  BY DEF trafficVars, subscriptionVars, SubscriptionsIInv, ListsInv
<1> QED BY <1>1, SubscriptionsInitInv, SubscriptionsStep, PTL DEF TrafficSpec

\* An event that would be sent on is in a list of its client, so in the merged one
LEMMA WantedFromInv ==
  ASSUME SubscriptionsIInv
  PROVE  WantedIsEnabled
<1> SUFFICES ASSUME confirmed, NEW c \in Subscriber, NEW event \in Event,
                    Forwards(subscribed[c], event), event[1] \in Other
             PROVE  event \in Events(enabled)
  BY DEF WantedIsEnabled
<1> DEFINE list == subscribed[c]
           i == Find(list, event[1])
<1>1. list \in Seq(Entry) /\ OthersOf(list) \subseteq Events(enabled)
  BY DEF SubscriptionsIInv, ListsInv
<1>2. i # 0 /\ (Wildcard(list[i]) \/ event[2] \in Range(list[i].cids))
  BY DEF Forwards
<1> HIDE DEF list
<1>3. i \in 0..Len(list) /\ (i # 0 => list[i].service = event[1])
  BY <1>1, FindFinds
<1> HIDE DEF i
<1>4. i \in 1..Len(list) /\ list[i].service = event[1]
  BY <1>1, <1>2, <1>3
<1>5. event[2] \in Cid /\ event = <<event[1], event[2]>>
  BY DEF Event
<1>6. event \in EventsOf(list[i])
  BY <1>2, <1>4, <1>5 DEF EventsOf
<1>7. event \in Events(list)
  BY <1>1, <1>4, <1>6, InEvents
<1> QED BY <1>1, <1>7 DEF OthersOf

(* What the model modem is asked to enable is the union of what the clients   *)
(* subscribed to, whatever lists they gave and in whatever order they came.   *)
THEOREM MergeIsUnionHolds == TrafficSpec => []MergeIsUnion
<1>1. SubscriptionsIInv => MergeIsUnion
  BY MergeIsUnionFromLists DEF SubscriptionsIInv
<1> QED BY <1>1, SubscriptionsInvariant, PTL

(* While the last list sent was taken over, no event a client would be sent   *)
(* is missing from what the modem has enabled.                                *)
THEOREM WantedIsEnabledHolds == TrafficSpec => []WantedIsEnabled
BY WantedFromInv, SubscriptionsInvariant, PTL

-----------------------------------------------------------------------------
(***************************************************************************)
(* The inductive invariant of the commands.                                *)

IsLast(r) == requests[r].current = requests[r].total - 1

\* No message was finished since the request r
Unfinished(r) == \A q \in r..Len(requests) : ~IsLast(q)

\* No id was given again after the message that took it: the counter did not
\* come round to an id whose answer may still be under way
IdGivenOnce ==
  \A s, r \in 1..Len(requests) : s < r /\ IsLast(s) => ids[s] # ids[r]

Fragment == [client : Client \cup {Proxy}, id : Nat, current : Nat, total : Nat \ {0}]
Kinds == {"COMMAND_DONE", "FUNCTION_ERROR", "NOT_OPENED"}

\* A request is a fragment of a command of its client, or a message of the proxy
FragmentOK(f) ==
  /\ f \in Fragment /\ f.current < f.total
  /\ f.client = Proxy => f.total = 1
  /\ f.client # Proxy => /\ f.id \in 1..Len(commands[f.client])
                         /\ f.total = commands[f.client][f.id]

TypesInv ==
  /\ commands \in [Client -> Seq(Nat \ {0})]
  /\ unread \in [Client -> [id : Nat \ {0}, current : Nat]]
  /\ \A c \in Client : unread[c].current > 0 =>
        /\ unread[c].id \in 1..Len(commands[c])
        /\ unread[c].current < commands[c][unread[c].id]
  /\ transaction_id \in Id /\ open \in BOOLEAN /\ mixed \in BOOLEAN
  /\ requests \in Seq(Fragment) /\ ids \in Seq(Id) /\ Len(ids) = Len(requests)
  /\ \A r \in 1..Len(requests) : FragmentOK(requests[r])
  /\ transactions \in [Id -> 0..Len(requests)]
  /\ collecting \in [Id -> Seq(Fragment)]
  /\ answers \subseteq [id : Id, kind : Kinds, of : Seq(Fragment)]
  /\ delivered \in [Client -> Seq([id : Nat, kind : Kinds, of : Seq(Fragment)])]

\* What is in the table can be found and timed out, by a timer of its own
TableInv ==
  /\ timers \subseteq 1..Len(requests)
  /\ freed \subseteq timers /\ \A id \in Id : transactions[id] \notin freed
  /\ \A id \in Id : transactions[id] # NoRequest => /\ ids[transactions[id]] = id
                                                    /\ transactions[id] \in timers
  /\ open \/ answers = {}

Before(f, g) == f.id < g.id \/ (f.id = g.id /\ f.current < g.current)

\* The fragments of a client are forwarded in order, each once
ReadInv ==
  \A r \in 1..Len(requests) : requests[r].client \in Client =>
    /\ Before(requests[r], unread[requests[r].client])
    /\ \A s \in 1..r - 1 : requests[s].client = requests[r].client => Before(requests[s], requests[r])
    /\ Unfinished(r) => /\ unread[requests[r].client].id = requests[r].id
                        /\ unread[requests[r].client].current > 0

\* The counter stays until a message is finished
IdsInv ==
  \A r \in 1..Len(requests) :
    IF Unfinished(r) THEN ids[r] = transaction_id
    ELSE \E q \in r..Len(requests) : IsLast(q) /\ ids[q] = ids[r]

\* Until messages mix, a message has one id, and nothing is sent between its fragments
UnmixedInv ==
  ~mixed =>
    /\ \A s, r \in 1..Len(requests) :
         requests[r].client \in Client /\ requests[s].client = requests[r].client /\ requests[s].id = requests[r].id
           => ids[s] = ids[r]
    /\ \A r \in 1..Len(requests) :
         /\ requests[r].client \in Client
         /\ unread[requests[r].client].current > 0
         /\ unread[requests[r].client].id = requests[r].id
         => Unfinished(r)

\* Nothing was delivered for the command of the fragment f
NothingFor(f) ==
  f.client \in Client => \A i \in 1..Len(delivered[f.client]) : delivered[f.client][i].id # f.id

Plain(of) == Len(of) = 1 \/ ~mixed

\* An answer belongs to the request that finished the message, if it is still in the table
AnswerOf(a, r) ==
  /\ IsLast(r) /\ ids[r] = a.id /\ transactions[a.id] \in {NoRequest, r}
  /\ Plain(a.of) => /\ a.of = Message(requests[r].client, requests[r].id, requests[r].total)
                    /\ transactions[a.id] = r => NothingFor(requests[r])

AnswersInv ==
  \A a \in answers :
    /\ \E r \in 1..Len(requests) : ids[r] = a.id
    /\ a.kind = "COMMAND_DONE" => \E r \in 1..Len(requests) : AnswerOf(a, r)

\* What the modem collects is the beginning of a message, to which nothing was answered
CollectedOf(id, r) ==
  LET f == requests[r]
  IN /\ ids[r] = id /\ Len(collecting[id]) = f.current + 1 /\ ~IsLast(r)
     /\ \A i \in 1..f.current + 1 : collecting[id][i] = Message(f.client, f.id, f.total)[i]
     /\ NothingFor(f)
     /\ \A a \in answers : a.id # id

CollectingInv ==
  open /\ ~mixed =>
    \A id \in Id : collecting[id] # << >> => \E r \in 1..Len(requests) : CollectedOf(id, r)

\* A command that was answered is forwarded, and out of the table
DeliveredInv ==
  \A c \in Client : \A i \in 1..Len(delivered[c]) :
    LET d == delivered[c][i]
    IN /\ d.id < unread[c].id \/ (d.id = unread[c].id /\ unread[c].current > 0)
       /\ d.kind = "COMMAND_DONE" /\ Plain(d.of) =>
            /\ d.id < unread[c].id
            /\ \A id \in Id : transactions[id] # NoRequest /\ requests[transactions[id]].client = c
                                => requests[transactions[id]].id # d.id

OrderInv == TypesInv /\ TableInv /\ ReadInv /\ IdsInv /\ UnmixedInv
HistoryInv == AnswersInv /\ CollectingInv /\ DeliveredInv /\ OwnAnswer
ForwardingIInv == OrderInv /\ (IdGivenOnce => HistoryInv)

-----------------------------------------------------------------------------
(***************************************************************************)
(* Sending.                                                                *)

\* The fragment f is forwarded for its client, or for the proxy
SentFor(f) ==
  \/ /\ f.client \in Client
     /\ f.id = unread[f.client].id /\ f.current = unread[f.client].current
     /\ unread' = [unread EXCEPT ![f.client] = AfterRead(f.client)]
     /\ IF open THEN UNCHANGED delivered ELSE Deliver(f.client, f.id, "NOT_OPENED", << f >>)
  \/ f.client = Proxy /\ UNCHANGED <<unread, delivered>>

Sent(f, reaches) ==
  reaches \in BOOLEAN /\ FragmentOK(f) /\ SentFor(f) /\ CommandSent(f, reaches)

\* The fragments of a message
LEMMA MessageAt ==
  ASSUME NEW c, NEW id, NEW total \in Nat, NEW p \in 1..total
  PROVE  Message(c, id, total)[p] = [client |-> c, id |-> id, current |-> p - 1, total |-> total]
BY DEF Message

LEMMA UnreadIs ==
  ASSUME TypesInv, NEW c \in Client, HasUnread(c)
  PROVE  /\ Unread(c) = [client |-> c, id |-> unread[c].id, current |-> unread[c].current,
                         total |-> commands[c][unread[c].id]]
         /\ FragmentOK(Unread(c))
<1> DEFINE i == unread[c].id
           k == unread[c].current
           total == commands[c][i]
<1>1. /\ unread[c] \in [id : Nat \ {0}, current : Nat] /\ commands[c] \in Seq(Nat \ {0})
      /\ (k > 0 => k < total)
  BY DEF TypesInv
<1>2. i \in 1..Len(commands[c]) /\ k \in Nat /\ c \in Nat \ {0}
  BY <1>1, ForwardingAssumption DEF HasUnread
<1>3. total \in Nat \ {0}
  BY <1>1, <1>2
<1> HIDE DEF total, k, i
<1>4. k + 1 \in 1..total
  BY <1>1, <1>2, <1>3
<1>5. Unread(c) = [client |-> c, id |-> i, current |-> k + 1 - 1, total |-> total]
  <2>1. Unread(c) = Message(c, i, total)[k + 1]
    BY DEF Unread, Fragments, i, k, total
  <2>2. total \in Nat
    BY <1>3
  <2>3. Message(c, i, total)[k + 1] = [client |-> c, id |-> i, current |-> k + 1 - 1, total |-> total]
    <3>1. PICK p : p = k + 1
      OBVIOUS
    <3>2. p \in 1..total
      BY <1>4, <3>1
    <3>3. Message(c, i, total)[p] = [client |-> c, id |-> i, current |-> p - 1, total |-> total]
      BY <2>2, <3>2, MessageAt
    <3> QED BY <1>2, <1>3, <3>1, <3>2, <3>3
  <2> QED BY <2>1, <2>3
<1>6. Unread(c) = [client |-> c, id |-> i, current |-> k, total |-> total]
  BY <1>2, <1>5
<1>7. k < total /\ i \in Nat
  <2>1. k < total
    BY <1>2, <1>3, <1>4
  <2> QED BY <1>1, <2>1 DEF i
<1>8. Unread(c) \in Fragment
  BY <1>2, <1>3, <1>6, <1>7 DEF Fragment
<1>9. FragmentOK(Unread(c))
  BY <1>2, <1>6, <1>7, <1>8 DEF FragmentOK, Proxy, total, i
<1> QED BY <1>6, <1>9 DEF i, k, total

LEMMA MessageOfProxyIs ==
  ASSUME TypesInv
  PROVE  FragmentOK(Message(Proxy, transaction_id, 1)[1]) /\ Message(Proxy, transaction_id, 1)[1].client = Proxy
<1>1. Message(Proxy, transaction_id, 1)[1] = [client |-> Proxy, id |-> transaction_id, current |-> 0, total |-> 1]
  BY DEF Message
<1>2. transaction_id \in Nat
  BY ForwardingAssumption DEF TypesInv, Id
<1> QED BY <1>1, <1>2 DEF FragmentOK, Fragment, Proxy

\* What a step does to the commands
LEMMA ForwardingCases ==
  ASSUME TypesInv, [TrafficNext]_trafficVars
  PROVE  \/ \E f, reaches : Sent(f, reaches)
         \/ DeviceCommandReady \/ RequestTimedOut \/ DeviceCloses \/ DeviceReopens
         \/ UNCHANGED forwardingVars
<1>1. CASE ProcessCommand
  <2>1. PICK c \in Client : process_command(c)
    BY <1>1 DEF ProcessCommand
  <2>2. PICK reaches \in BOOLEAN : CommandSent(Unread(c), reaches)
    BY <2>1 DEF process_command
  <2>3. HasUnread(c) /\ unread' = [unread EXCEPT ![c] = AfterRead(c)]
        /\ IF open THEN UNCHANGED delivered ELSE Deliver(c, Unread(c).id, "NOT_OPENED", << Unread(c) >>)
    BY <2>1 DEF process_command
  <2>4. /\ Unread(c) = [client |-> c, id |-> unread[c].id, current |-> unread[c].current,
                        total |-> commands[c][unread[c].id]]
        /\ FragmentOK(Unread(c))
    BY <2>3, UnreadIs
  <2>5. Unread(c).client = c /\ Unread(c).id = unread[c].id /\ Unread(c).current = unread[c].current
    BY <2>4
  <2>6. SentFor(Unread(c))
    BY <2>3, <2>5 DEF SentFor
  <2> QED BY <2>2, <2>4, <2>6 DEF Sent
<1>2. ASSUME NEW taken \in BOOLEAN, ListSent(taken)
      PROVE  (\E f, reaches : Sent(f, reaches)) \/ UNCHANGED forwardingVars
  <2> SUFFICES ASSUME ~NotUpdated PROVE \E f, reaches : Sent(f, reaches)
    BY <1>2 DEF ListSent
  <2>1. PICK reaches \in BOOLEAN : CommandSent(Message(Proxy, transaction_id, 1)[1], reaches)
    BY <1>2 DEF ListSent
  <2>2. UNCHANGED <<unread, delivered>>
    BY <1>2 DEF ListSent
  <2>3. Sent(Message(Proxy, transaction_id, 1)[1], reaches)
    BY <2>1, <2>2, MessageOfProxyIs DEF Sent, SentFor
  <2> QED BY <2>3
<1>3. CASE Subscribe
  BY <1>2, <1>3 DEF Subscribe
<1>4. CASE Replace \/ UNCHANGED trafficVars
  BY <1>4 DEF Replace, trafficVars
<1>5. CASE NotOpened
  BY <1>5 DEF NotOpened
<1> QED BY <1>1, <1>3, <1>4, <1>5 DEF TrafficNext, Forward

LEMMA FragmentTypes ==
  ASSUME TypesInv, NEW f, FragmentOK(f)
  PROVE  /\ f \in Fragment /\ f.id \in Nat /\ f.current \in Nat /\ f.total \in Nat \ {0} /\ f.current < f.total
         /\ f.client \in Client \/ f.client = Proxy
         /\ Proxy \notin Client
         /\ f.client = Proxy => f.total = 1 /\ f.current = 0
         /\ f.client \in Client => /\ f.id \in 1..Len(commands[f.client])
                                   /\ f.total = commands[f.client][f.id]
         /\ f = [client |-> f.client, id |-> f.id, current |-> f.current, total |-> f.total]
<1>1. f \in Fragment /\ f.current < f.total /\ Proxy \notin Client
  BY ForwardingAssumption DEF FragmentOK, Proxy
<1> QED BY <1>1 DEF FragmentOK, Fragment

LEMMA NextIdType == \A id \in Id : NextId(id) \in Id
BY ForwardingAssumption DEF NextId, Id

\* The requests and ids after a fragment was sent
LEMMA SentAppends ==
  ASSUME TypesInv, NEW f, NEW reaches, Sent(f, reaches), NEW n, n = Len(requests)
  PROVE  /\ n \in Nat /\ Len(requests') = n + 1 /\ Len(ids') = n + 1
         /\ requests' \in Seq(Fragment) /\ ids' \in Seq(Id)
         /\ requests'[n + 1] = f /\ ids'[n + 1] = transaction_id
         /\ \A r \in 1..n : requests'[r] = requests[r] /\ ids'[r] = ids[r]
         /\ \A r \in 1..n + 1 : r \in 1..n \/ r = n + 1
         /\ commands' = commands /\ open' = open
         /\ transaction_id' = (IF f.current = f.total - 1 THEN NextId(transaction_id) ELSE transaction_id)
         /\ mixed' = (mixed \/ \E c \in Client \ {f.client} : unread[c].current > 0)
<1>1. /\ requests' = Append(requests, f) /\ ids' = Append(ids, transaction_id)
      /\ commands' = commands /\ open' = open
      /\ transaction_id' = (IF f.current = f.total - 1 THEN NextId(transaction_id) ELSE transaction_id)
      /\ mixed' = (mixed \/ \E c \in Client \ {f.client} : unread[c].current > 0)
  BY DEF Sent, CommandSent, Counter
<1>2. requests \in Seq(Fragment) /\ ids \in Seq(Id) /\ Len(ids) = n /\ transaction_id \in Id /\ n \in Nat
  BY DEF TypesInv
<1>3. f \in Fragment
  BY DEF Sent, FragmentOK
<1>4. /\ Len(requests') = n + 1 /\ requests' \in Seq(Fragment) /\ requests'[n + 1] = f
      /\ \A r \in 1..n : requests'[r] = requests[r]
  BY <1>1, <1>2, <1>3
<1>5. /\ Len(ids') = n + 1 /\ ids' \in Seq(Id) /\ ids'[n + 1] = transaction_id
      /\ \A r \in 1..n : ids'[r] = ids[r]
  BY <1>1, <1>2
<1> QED BY <1>1, <1>2, <1>4, <1>5

\* The table, the timers, and what the modem has after a fragment was sent
LEMMA SentTable ==
  ASSUME TypesInv, NEW f, NEW reaches, Sent(f, reaches), NEW n, n = Len(requests)
  PROVE  /\ ~open => transactions' = transactions /\ timers' = timers
         /\ open => /\ transactions' = [transactions EXCEPT ![transaction_id] = n + 1]
                    /\ timers' = timers \cup {n + 1}
         /\ ~(open /\ reaches) => collecting' = collecting /\ answers' = answers
         /\ open /\ reaches => ModemReceives(transaction_id, f)
BY DEF Sent, CommandSent

\* What the modem has collected with f, and what it has answered
LEMMA CollectedIs ==
  ASSUME TypesInv, NEW f, FragmentOK(f), NEW k \in Id, NEW parts, parts = Collected(k, f)
  PROVE  /\ parts \in Seq(Fragment)
         /\ parts # << >> => Len(parts) = f.current + 1
         /\ f.current = 0 => parts = << f >>
         /\ f.current # 0 /\ parts # << >> =>
              /\ collecting[k] # << >> /\ Len(collecting[k]) = f.current
              /\ parts[f.current + 1] = f
              /\ \A i \in 1..f.current : parts[i] = collecting[k][i]
<1>1. collecting[k] \in Seq(Fragment) /\ f \in Fragment /\ f.current \in Nat
  BY FragmentTypes DEF TypesInv
<1>2. CASE f.current = 0
  BY <1>1, <1>2 DEF Collected
<1>3. CASE f.current # 0 /\ Len(collecting[k]) = f.current
  <2>1. parts = Append(collecting[k], f)
    BY <1>3 DEF Collected
  <2> QED BY <1>1, <1>3, <2>1
<1>4. CASE f.current # 0 /\ Len(collecting[k]) # f.current
  BY <1>4 DEF Collected
<1> QED BY <1>2, <1>3, <1>4

\* What the modem does with a fragment, without the LET
LEMMA ModemReceivesIs ==
  ASSUME TypesInv, NEW f, FragmentOK(f), NEW k \in Id, ModemReceives(k, f), NEW parts, parts = Collected(k, f)
  PROVE  /\ collecting' = [collecting EXCEPT ![k] = IF parts # << >> /\ Len(parts) = f.total THEN << >> ELSE parts]
         /\ \A a \in answers' : \/ a \in answers
                                \/ /\ a = [id |-> k, kind |-> "COMMAND_DONE", of |-> parts]
                                   /\ parts # << >> /\ Len(parts) = f.total
                                \/ a = [id |-> k, kind |-> "FUNCTION_ERROR", of |-> << f >>]
         /\ parts # << >> /\ Len(parts) # f.total => answers' = answers
BY DEF ModemReceives

\* Sending a fragment keeps the types
LEMMA SentTypes ==
  ASSUME TypesInv, NEW f, NEW reaches, Sent(f, reaches)
  PROVE  TypesInv'
<1>1. PICK n : n = Len(requests)
  OBVIOUS
<1>2. /\ n \in Nat /\ Len(requests') = n + 1 /\ Len(ids') = n + 1
      /\ requests' \in Seq(Fragment) /\ ids' \in Seq(Id)
      /\ requests'[n + 1] = f /\ ids'[n + 1] = transaction_id
      /\ \A r \in 1..n : requests'[r] = requests[r] /\ ids'[r] = ids[r]
      /\ \A r \in 1..n + 1 : r \in 1..n \/ r = n + 1
      /\ commands' = commands /\ open' = open
      /\ transaction_id' = (IF f.current = f.total - 1 THEN NextId(transaction_id) ELSE transaction_id)
      /\ mixed' = (mixed \/ \E c \in Client \ {f.client} : unread[c].current > 0)
  BY <1>1, SentAppends
<1>3. FragmentOK(f) /\ transaction_id \in Id /\ f \in Fragment
  BY DEF Sent, TypesInv, FragmentOK
<1>4. \A r \in 1..Len(requests') : FragmentOK(requests[r])'
  <2> SUFFICES ASSUME NEW r \in 1..n + 1 PROVE FragmentOK(requests[r])'
    BY <1>2
  <2>1. CASE r = n + 1
    BY <1>2, <1>3, <2>1 DEF FragmentOK
  <2>2. CASE r \in 1..n
    <3>1. FragmentOK(requests[r])
      BY <1>1, <2>2 DEF TypesInv
    <3> QED BY <1>2, <2>2, <3>1 DEF FragmentOK
  <2> QED BY <1>2, <2>1, <2>2
<1>5. /\ unread' \in [Client -> [id : Nat \ {0}, current : Nat]]
      /\ \A c \in Client : unread'[c].current > 0 =>
            /\ unread'[c].id \in 1..Len(commands[c])
            /\ unread'[c].current < commands[c][unread'[c].id]
  <2>1. CASE f.client = Proxy
    <3>1. unread' = unread
      BY <1>3, <2>1, FragmentTypes DEF Sent, SentFor
    <3> QED BY <3>1 DEF TypesInv
  <2>2. CASE f.client \in Client
    <3>1. /\ unread' = [unread EXCEPT ![f.client] = AfterRead(f.client)]
          /\ f.id = unread[f.client].id /\ f.current = unread[f.client].current
      BY <1>3, <2>2, FragmentTypes DEF Sent, SentFor
    <3>2. /\ f.id \in 1..Len(commands[f.client]) /\ f.total = commands[f.client][f.id]
          /\ f.current \in Nat /\ f.id \in Nat /\ f.total \in Nat
      BY <1>3, <2>2, FragmentTypes
    <3>3. /\ unread \in [Client -> [id : Nat \ {0}, current : Nat]]
          /\ \A c \in Client : unread[c].current > 0 =>
                /\ unread[c].id \in 1..Len(commands[c])
                /\ unread[c].current < commands[c][unread[c].id]
      BY DEF TypesInv
    <3>4. AfterRead(f.client) = IF f.current + 1 < f.total THEN [id |-> f.id, current |-> f.current + 1]
                                ELSE [id |-> f.id + 1, current |-> 0]
      <4>1. unread[f.client] = [id |-> f.id, current |-> f.current]
        BY <2>2, <3>1, <3>3
      <4> QED BY <3>1, <3>2, <4>1 DEF AfterRead
    <3>5. AfterRead(f.client) \in [id : Nat \ {0}, current : Nat]
      BY <3>2, <3>4
    <3>6. AfterRead(f.client).current > 0 =>
            /\ AfterRead(f.client).id \in 1..Len(commands[f.client])
            /\ AfterRead(f.client).current < commands[f.client][AfterRead(f.client).id]
      BY <3>2, <3>4
    <3> QED BY <2>2, <3>1, <3>3, <3>5, <3>6
  <2> QED BY <1>3, <2>1, <2>2, FragmentTypes
<1>6. transactions' \in [Id -> 0..n + 1]
  <2>1. transactions \in [Id -> 0..n]
    BY <1>1 DEF TypesInv
  <2>2. 0..n \subseteq 0..n + 1 /\ n + 1 \in 0..n + 1
    BY <1>2
  <2>3. transactions' = transactions \/ transactions' = [transactions EXCEPT ![transaction_id] = n + 1]
    BY <1>1, SentTable
  <2> QED BY <2>1, <2>2, <2>3
<1>7. PICK parts : parts = Collected(transaction_id, f)
  OBVIOUS
<1>8. parts \in Seq(Fragment)
  BY <1>3, <1>7, CollectedIs
<1>9. collecting' \in [Id -> Seq(Fragment)]
  <2>1. CASE open /\ reaches
    <3>1. collecting' = [collecting EXCEPT ![transaction_id] = IF parts # << >> /\ Len(parts) = f.total THEN << >> ELSE parts]
      <4>1. ModemReceives(transaction_id, f)
        BY <1>1, <2>1, SentTable
      <4> QED BY <1>3, <1>7, <4>1, ModemReceivesIs
    <3>2. << >> \in Seq(Fragment) /\ collecting \in [Id -> Seq(Fragment)]
      BY DEF TypesInv
    <3>3. PICK left : left = IF parts # << >> /\ Len(parts) = f.total THEN << >> ELSE parts
      OBVIOUS
    <3>4. left \in Seq(Fragment)
      BY <1>8, <3>2, <3>3
    <3>5. collecting' = [collecting EXCEPT ![transaction_id] = left]
      BY <3>1, <3>3
    <3> QED BY <3>2, <3>4, <3>5
  <2>2. CASE ~(open /\ reaches)
    BY <1>1, <2>2, SentTable DEF TypesInv
  <2> QED BY <2>1, <2>2
<1>10. answers' \subseteq [id : Id, kind : Kinds, of : Seq(Fragment)]
  <2>1. CASE open /\ reaches
    <3> SUFFICES ASSUME NEW a \in answers'
                 PROVE  a \in [id : Id, kind : Kinds, of : Seq(Fragment)]
      OBVIOUS
    <3>1. \/ a \in answers
          \/ a = [id |-> transaction_id, kind |-> "COMMAND_DONE", of |-> parts]
          \/ a = [id |-> transaction_id, kind |-> "FUNCTION_ERROR", of |-> << f >>]
      <4>1. ModemReceives(transaction_id, f)
        BY <1>1, <2>1, SentTable
      <4> QED BY <1>3, <1>7, <4>1, ModemReceivesIs
    <3>2. << f >> \in Seq(Fragment)
      BY <1>3
    <3>3. a \in answers => a \in [id : Id, kind : Kinds, of : Seq(Fragment)]
      BY DEF TypesInv
    <3>4. a = [id |-> transaction_id, kind |-> "COMMAND_DONE", of |-> parts]
            => a \in [id : Id, kind : Kinds, of : Seq(Fragment)]
      BY <1>3, <1>8 DEF Kinds
    <3>5. a = [id |-> transaction_id, kind |-> "FUNCTION_ERROR", of |-> << f >>]
            => a \in [id : Id, kind : Kinds, of : Seq(Fragment)]
      BY <1>3, <3>2 DEF Kinds
    <3> QED BY <3>1, <3>3, <3>4, <3>5
  <2>2. CASE ~(open /\ reaches)
    BY <1>1, <2>2, SentTable DEF TypesInv
  <2> QED BY <2>1, <2>2
<1>11. delivered' \in [Client -> Seq([id : Nat, kind : Kinds, of : Seq(Fragment)])]
  <2>1. CASE UNCHANGED delivered
    BY <2>1 DEF TypesInv
  <2>2. CASE f.client \in Client /\ Deliver(f.client, f.id, "NOT_OPENED", << f >>)
    <3> DEFINE D == [id : Nat, kind : Kinds, of : Seq(Fragment)]
               d == [id |-> f.id, kind |-> "NOT_OPENED", of |-> << f >>]
    <3>1. d \in D
      <4>1. f.id \in Nat /\ << f >> \in Seq(Fragment)
        BY <1>3, FragmentTypes
      <4> QED BY <4>1 DEF Kinds
    <3>2. delivered' = [delivered EXCEPT ![f.client] = Append(delivered[f.client], d)]
      BY <2>2 DEF Deliver
    <3>3. delivered \in [Client -> Seq(D)]
      BY DEF TypesInv
    <3> HIDE DEF D, d
    <3>4. Append(delivered[f.client], d) \in Seq(D)
      BY <2>2, <3>1, <3>3
    <3>5. delivered' \in [Client -> Seq(D)]
      BY <3>2, <3>3, <3>4
    <3> QED BY <3>5 DEF D
  <2> QED BY <1>3, <2>1, <2>2, FragmentTypes DEF Sent, SentFor
<1>12. transaction_id' \in Id /\ open' \in BOOLEAN /\ mixed' \in BOOLEAN
  <2>1. transaction_id' \in Id
    BY <1>2, <1>3, NextIdType
  <2> QED BY <1>2, <2>1 DEF TypesInv
<1>13. /\ commands' \in [Client -> Seq(Nat \ {0})]
       /\ \A c \in Client : unread'[c].current > 0 =>
            /\ unread'[c].id \in 1..Len(commands'[c])
            /\ unread'[c].current < commands'[c][unread'[c].id]
  BY <1>2, <1>5 DEF TypesInv
<1> QED BY <1>2, <1>4, <1>5, <1>6, <1>9, <1>10, <1>11, <1>12, <1>13 DEF TypesInv

-----------------------------------------------------------------------------
(***************************************************************************)
(* The other steps.                                                        *)

\* Nothing is sent, and entries of the table only go
Calm ==
  /\ UNCHANGED <<commands, unread, transaction_id, requests, ids, mixed>>
  /\ transactions' \in [Id -> 0..Len(requests)]
  /\ \A id \in Id : transactions'[id] \in {NoRequest, transactions[id]}
  /\ answers' \subseteq answers

\* The answer a is read, and delivered if its request is in the table
Answered(a) ==
  /\ a \in answers /\ answers' = answers \ {a}
  /\ open /\ UNCHANGED <<open, freed, collecting>>
  /\ IF transactions[a.id] = NoRequest THEN UNCHANGED <<transactions, timers, delivered>>
     ELSE /\ transactions' = [transactions EXCEPT ![a.id] = NoRequest]
          /\ timers' = timers \ {transactions[a.id]}
          /\ IF requests[transactions[a.id]].client = Proxy THEN UNCHANGED delivered
             ELSE Deliver(requests[transactions[a.id]].client, requests[transactions[a.id]].id, a.kind, a.of)

LEMMA RequestOf ==
  ASSUME TypesInv, TableInv, NEW id \in Id, transactions[id] # NoRequest
  PROVE  /\ transactions[id] \in 1..Len(requests)
         /\ ids[transactions[id]] = id
         /\ FragmentOK(requests[transactions[id]])
<1>1. transactions[id] \in 1..Len(requests)
  BY DEF TypesInv, NoRequest
<1> QED BY <1>1 DEF TypesInv, TableInv

LEMMA AnswerTypes ==
  ASSUME TypesInv, NEW a \in answers
  PROVE  a.id \in Id /\ a.kind \in Kinds /\ a.of \in Seq(Fragment)
BY DEF TypesInv

LEMMA ReadyIs ==
  ASSUME TypesInv, TableInv, DeviceCommandReady
  PROVE  Calm /\ \E a : Answered(a)
<1>1. PICK a \in answers :
         LET r == transactions[a.id]
         IN /\ answers' = answers \ {a}
            /\ IF r = NoRequest THEN UNCHANGED <<transactions, timers, delivered>>
               ELSE /\ Release(r)
                    /\ IF requests[r].client = Proxy THEN UNCHANGED delivered
                       ELSE Deliver(requests[r].client, Restored(r), a.kind, a.of)
  BY DEF DeviceCommandReady
<1>2. UNCHANGED <<commands, unread, transaction_id, open, requests, ids, freed, collecting, mixed>> /\ open
  BY DEF DeviceCommandReady
<1>3. a.id \in Id
  BY AnswerTypes
<1>4. transactions \in [Id -> 0..Len(requests)] /\ Len(requests) \in Nat
  BY DEF TypesInv
<1>5. CASE transactions[a.id] = NoRequest
  BY <1>1, <1>2, <1>4, <1>5 DEF Calm, Answered
<1>6. CASE transactions[a.id] # NoRequest
  <2>1. ids[transactions[a.id]] = a.id
    BY <1>3, <1>6, RequestOf
  <2>2. /\ transactions' = [transactions EXCEPT ![a.id] = NoRequest]
        /\ timers' = timers \ {transactions[a.id]}
    BY <1>1, <1>6, <2>1 DEF Release
  <2>3. Calm
    <3>1. answers' \subseteq answers
      BY <1>1
    <3>2. transactions' \in [Id -> 0..Len(requests)]
      <4>1. NoRequest \in 0..Len(requests)
        BY <1>4 DEF NoRequest
      <4> QED BY <1>4, <2>2, <4>1
    <3>3. \A id \in Id : transactions'[id] \in {NoRequest, transactions[id]}
      BY <1>4, <2>2
    <3> QED BY <1>2, <3>1, <3>2, <3>3 DEF Calm
  <2>4. Answered(a)
    BY <1>1, <1>2, <1>6, <2>2 DEF Answered, Restored
  <2> QED BY <2>3, <2>4
<1> QED BY <1>5, <1>6

LEMMA TimedOutIs ==
  ASSUME TypesInv, TableInv, RequestTimedOut
  PROVE  /\ Calm /\ UNCHANGED <<open, collecting, answers, delivered>>
         /\ TableInv'
<1>0. PICK r \in timers : \E id \in LookedUp(r) :
         /\ timers' = timers \ {r}
         /\ transactions' = [transactions EXCEPT ![id] = NoRequest]
         /\ freed' = (freed \ {r}) \cup ({transactions[id]} \ {NoRequest, r})
  BY DEF RequestTimedOut
<1>1. PICK id \in LookedUp(r) :
         /\ timers' = timers \ {r}
         /\ transactions' = [transactions EXCEPT ![id] = NoRequest]
         /\ freed' = (freed \ {r}) \cup ({transactions[id]} \ {NoRequest, r})
  BY <1>0
<1>2. UNCHANGED <<commands, unread, transaction_id, open, requests, ids, collecting, answers, delivered, mixed>>
  BY DEF RequestTimedOut
<1>3. /\ r \in 1..Len(requests) /\ ids[r] \in Id /\ id \in Id /\ Len(requests) \in Nat
      /\ transactions \in [Id -> 0..Len(requests)]
  BY DEF TypesInv, TableInv, LookedUp
<1>4. /\ timers \subseteq 1..Len(requests)
      /\ freed \subseteq timers /\ \A i \in Id : transactions[i] \notin freed
      /\ \A i \in Id : transactions[i] # NoRequest => ids[transactions[i]] = i /\ transactions[i] \in timers
      /\ open \/ answers = {}
  BY DEF TableInv
<1>5. Calm
  BY <1>1, <1>2, <1>3 DEF Calm, NoRequest
<1>6. \A i \in Id : transactions'[i] = IF i = id THEN NoRequest ELSE transactions[i]
  BY <1>1, <1>3
<1>7. \A i \in Id : transactions[i] = r => i = id
  BY <1>3, <1>4 DEF LookedUp, NoRequest
<1>8. \A i \in Id : transactions'[i] # NoRequest => ids[transactions'[i]] = i /\ transactions'[i] \in timers'
  BY <1>1, <1>4, <1>6, <1>7
<1>9. freed' \subseteq timers'
  BY <1>1, <1>3, <1>4
<1>10. \A i \in Id : transactions'[i] \notin freed'
  <2> SUFFICES ASSUME NEW i \in Id, transactions'[i] \in freed' PROVE FALSE
    OBVIOUS
  <2>1. NoRequest \notin freed'
    BY <1>4, <1>9, <1>1 DEF NoRequest
  <2>2. i # id /\ transactions'[i] = transactions[i] /\ transactions[i] # NoRequest
    BY <1>6, <2>1
  <2>3. transactions[i] = transactions[id] /\ transactions[id] # NoRequest
    BY <1>1, <1>4, <2>2
  <2> QED BY <1>3, <1>4, <2>2, <2>3
<1>11. timers' \subseteq 1..Len(requests') /\ ids' = ids /\ (open \/ answers = {})'
  BY <1>1, <1>2, <1>4
<1> QED BY <1>2, <1>5, <1>8, <1>9, <1>10, <1>11 DEF TableInv

LEMMA ClosesIs ==
  ASSUME TypesInv, TableInv, DeviceCloses
  PROVE  /\ Calm /\ UNCHANGED <<collecting, delivered>> /\ open' = FALSE /\ answers' = {}
         /\ TableInv'
<1>1. /\ Calm /\ UNCHANGED <<collecting, delivered>> /\ open' = FALSE /\ answers' = {} /\ freed' = freed
      /\ timers' \subseteq timers /\ \A id \in Id : transactions'[id] = NoRequest
  BY DEF DeviceCloses, Calm, TypesInv, NoRequest
<1>2. \A r \in freed : r \in timers /\ ids[r] \in Id /\ transactions[ids[r]] # r
  BY DEF TypesInv, TableInv
<1>3. freed \subseteq timers'
  BY <1>2 DEF DeviceCloses
<1>4. NoRequest \notin freed
  BY DEF TypesInv, TableInv, NoRequest
<1> QED BY <1>1, <1>3, <1>4 DEF TableInv, Calm

LEMMA ReopensIs ==
  ASSUME TypesInv, DeviceReopens
  PROVE  /\ Calm /\ UNCHANGED <<transactions, timers, freed, answers, delivered>> /\ open' = TRUE /\ ~open
         /\ collecting' = [id \in Id |-> << >>]
BY DEF DeviceReopens, Calm, TypesInv

LEMMA CalmTypes ==
  ASSUME TypesInv, Calm, open' \in BOOLEAN, collecting' \in [Id -> Seq(Fragment)],
         delivered' \in [Client -> Seq([id : Nat, kind : Kinds, of : Seq(Fragment)])]
  PROVE  TypesInv'
<1>1. \A r \in 1..Len(requests) : FragmentOK(requests[r])'
  BY DEF TypesInv, Calm, FragmentOK
<1> QED BY <1>1 DEF TypesInv, Calm

\* What is delivered is added to what was
LEMMA DeliverIs ==
  ASSUME TypesInv, NEW c \in Client, NEW id \in Nat, NEW kind \in Kinds, NEW of \in Seq(Fragment),
         Deliver(c, id, kind, of), NEW n, n = Len(delivered[c])
  PROVE  /\ n \in Nat
         /\ delivered' \in [Client -> Seq([id : Nat, kind : Kinds, of : Seq(Fragment)])]
         /\ \A e \in Client \ {c} : delivered'[e] = delivered[e]
         /\ Len(delivered'[c]) = n + 1
         /\ \A i \in 1..n : delivered'[c][i] = delivered[c][i]
         /\ delivered'[c][n + 1] = [id |-> id, kind |-> kind, of |-> of]
         /\ \A i \in 1..n + 1 : i \in 1..n \/ i = n + 1
<1> DEFINE D == [id : Nat, kind : Kinds, of : Seq(Fragment)]
           d == [id |-> id, kind |-> kind, of |-> of]
<1>1. d \in D
  OBVIOUS
<1>2. delivered' = [delivered EXCEPT ![c] = Append(delivered[c], d)]
  BY DEF Deliver
<1>3. delivered \in [Client -> Seq(D)]
  BY DEF TypesInv
<1> HIDE DEF D, d
<1>4. delivered[c] \in Seq(D) /\ n \in Nat
  BY <1>3
<1>5. /\ Append(delivered[c], d) \in Seq(D) /\ Len(Append(delivered[c], d)) = n + 1
      /\ \A i \in 1..n : Append(delivered[c], d)[i] = delivered[c][i]
      /\ Append(delivered[c], d)[n + 1] = d
  BY <1>1, <1>4
<1>6. delivered'[c] = Append(delivered[c], d) /\ \A e \in Client \ {c} : delivered'[e] = delivered[e]
  BY <1>2, <1>3
<1>7. delivered' \in [Client -> Seq(D)]
  BY <1>2, <1>3, <1>5
<1>8. \A i \in 1..n + 1 : i \in 1..n \/ i = n + 1
  BY <1>4
<1>9. /\ Len(delivered'[c]) = n + 1 /\ delivered'[c][n + 1] = d
      /\ \A i \in 1..n : delivered'[c][i] = delivered[c][i]
  BY <1>5, <1>6
<1>10. delivered' \in [Client -> Seq([id : Nat, kind : Kinds, of : Seq(Fragment)])]
  BY <1>7 DEF D
<1>11. delivered'[c][n + 1] = [id |-> id, kind |-> kind, of |-> of]
  BY <1>9 DEF d
<1> QED BY <1>4, <1>6, <1>8, <1>9, <1>10, <1>11

LEMMA AnsweredTypes ==
  ASSUME TypesInv, TableInv, Calm, NEW a, Answered(a)
  PROVE  TypesInv'
<1>1. a \in answers /\ a.id \in Id /\ a.kind \in Kinds /\ a.of \in Seq(Fragment)
  BY AnswerTypes DEF Answered
<1>2. delivered' \in [Client -> Seq([id : Nat, kind : Kinds, of : Seq(Fragment)])]
  <2>1. CASE UNCHANGED delivered
    BY <2>1 DEF TypesInv
  <2>2. CASE transactions[a.id] # NoRequest /\ requests[transactions[a.id]].client # Proxy
    <3> DEFINE f == requests[transactions[a.id]]
    <3>1. FragmentOK(f)
      BY <1>1, <2>2, RequestOf
    <3>2. f.client \in Client /\ f.id \in Nat
      BY <2>2, <3>1, FragmentTypes
    <3>3. Deliver(f.client, f.id, a.kind, a.of)
      BY <2>2 DEF Answered
    <3> HIDE DEF f
    <3> QED BY <1>1, <3>2, <3>3, DeliverIs
  <2> QED BY <2>1, <2>2 DEF Answered
<1>3. open' \in BOOLEAN /\ collecting' \in [Id -> Seq(Fragment)]
  BY DEF Answered, TypesInv
<1> QED BY <1>2, <1>3, CalmTypes

\* Taking a task out of the table keeps the table
LEMMA AnsweredTable ==
  ASSUME TypesInv, TableInv, Calm, NEW a, Answered(a)
  PROVE  TableInv'
<1>1. a \in answers /\ a.id \in Id
  BY AnswerTypes DEF Answered
<1>2. ids' = ids /\ Len(requests') = Len(requests) /\ open' /\ timers' \subseteq timers
  BY DEF Calm, Answered
<1>3. timers' \subseteq 1..Len(requests')
  BY <1>2 DEF TableInv
<1>4. ASSUME NEW id \in Id, transactions'[id] # NoRequest
      PROVE  ids[transactions'[id]] = id /\ transactions'[id] \in timers'
  <2>1. transactions'[id] = transactions[id] /\ transactions[id] # NoRequest
    BY <1>4 DEF Calm
  <2>2. ids[transactions[id]] = id /\ transactions[id] \in timers
    BY <2>1 DEF TableInv
  <2>3. CASE transactions[a.id] = NoRequest
    BY <2>1, <2>2, <2>3 DEF Answered
  <2>4. CASE transactions[a.id] # NoRequest
    <3>1. transactions' = [transactions EXCEPT ![a.id] = NoRequest] /\ timers' = timers \ {transactions[a.id]}
      BY <2>4 DEF Answered
    <3>2. transactions \in [Id -> 0..Len(requests)]
      BY DEF TypesInv
    <3>3. id # a.id
      BY <1>1, <1>4, <3>1, <3>2
    <3>4. ids[transactions[a.id]] = a.id
      BY <1>1, <2>4 DEF TableInv
    <3> QED BY <2>1, <2>2, <3>1, <3>3, <3>4
  <2> QED BY <2>3, <2>4
<1>5. freed' \subseteq timers' /\ \A id \in Id : transactions'[id] \notin freed'
  <2>1. /\ freed \subseteq timers /\ timers \subseteq 1..Len(requests)
        /\ \A id \in Id : transactions[id] \notin freed
    BY DEF TableInv
  <2>2. freed' = freed /\ \A id \in Id : transactions'[id] \in {NoRequest, transactions[id]}
    BY DEF Answered, Calm
  <2>3. freed \subseteq timers'
    BY <1>1, <2>1 DEF Answered
  <2>4. NoRequest \notin freed
    <3>1. NoRequest \notin 1..Len(requests)
      BY DEF NoRequest, TypesInv
    <3> QED BY <2>1, <3>1
  <2>5. \A id \in Id : transactions'[id] \notin freed
    BY <2>1, <2>2, <2>4
  <2> QED BY <2>2, <2>3, <2>5
<1> QED BY <1>2, <1>3, <1>4, <1>5 DEF TableInv

\* ... and the table
LEMMA SentTableInv ==
  ASSUME TypesInv, TableInv, NEW f, NEW reaches, Sent(f, reaches)
  PROVE  TableInv'
<1>1. PICK n : n = Len(requests)
  OBVIOUS
<1>2. /\ n \in Nat /\ Len(requests') = n + 1 /\ ids'[n + 1] = transaction_id /\ open' = open
      /\ \A r \in 1..n : ids'[r] = ids[r]
  BY <1>1, SentAppends
<1>3. transactions \in [Id -> 0..n] /\ transaction_id \in Id
  BY <1>1 DEF TypesInv
<1>4. /\ timers \subseteq 1..n
      /\ \A id \in Id : transactions[id] # NoRequest => /\ ids[transactions[id]] = id
                                                        /\ transactions[id] \in timers
      /\ open \/ answers = {}
  BY <1>1 DEF TableInv
<1>5. \A id \in Id : transactions[id] # NoRequest => ids'[transactions[id]] = id
  BY <1>2, <1>4
<1>8. /\ freed' = freed /\ freed \subseteq timers
      /\ \A id \in Id : transactions[id] \notin freed
  BY DEF TableInv, Sent, CommandSent
<1>6. CASE open
  <2>1. transactions' = [transactions EXCEPT ![transaction_id] = n + 1] /\ timers' = timers \cup {n + 1}
    BY <1>1, <1>6, SentTable
  <2>2. timers' \subseteq 1..n + 1
    BY <1>2, <1>4, <2>1
  <2>3. \A id \in Id : transactions'[id] # NoRequest => ids'[transactions'[id]] = id /\ transactions'[id] \in timers'
    BY <1>2, <1>3, <1>4, <1>5, <2>1
  <2>4. freed' \subseteq timers' /\ \A id \in Id : transactions'[id] \notin freed'
    BY <1>2, <1>3, <1>4, <1>8, <2>1
  <2> QED BY <1>2, <1>6, <2>2, <2>3, <2>4 DEF TableInv
<1>7. CASE ~open
  <2>1. transactions' = transactions /\ timers' = timers /\ answers' = answers
    BY <1>1, <1>7, SentTable
  <2>2. timers' \subseteq 1..n + 1
    BY <1>2, <1>4, <2>1
  <2> QED BY <1>2, <1>4, <1>5, <1>7, <1>8, <2>1, <2>2 DEF TableInv
<1> QED BY <1>6, <1>7

\* Every step keeps the types and the table
LEMMA TypesStep ==
  ASSUME TypesInv, TableInv, [TrafficNext]_trafficVars
  PROVE  TypesInv' /\ TableInv'
<1>1. ASSUME NEW f, NEW reaches, Sent(f, reaches)
      PROVE  TypesInv' /\ TableInv'
  BY <1>1, SentTypes, SentTableInv
<1>2. CASE DeviceCommandReady
  BY <1>2, ReadyIs, AnsweredTypes, AnsweredTable
<1>3. CASE RequestTimedOut
  <2>1. Calm /\ UNCHANGED <<open, collecting, answers, delivered>> /\ TableInv'
    BY <1>3, TimedOutIs
  <2>2. TypesInv'
    BY <2>1, CalmTypes DEF TypesInv
  <2> QED BY <2>1, <2>2
<1>4. CASE DeviceCloses
  <2>1. /\ Calm /\ UNCHANGED <<collecting, delivered>> /\ open' = FALSE /\ answers' = {}
        /\ TableInv'
    BY <1>4, ClosesIs
  <2>2. TypesInv'
    BY <2>1, CalmTypes DEF TypesInv
  <2> QED BY <2>1, <2>2
<1>5. CASE DeviceReopens
  <2>1. /\ Calm /\ UNCHANGED <<transactions, timers, freed, answers, delivered>> /\ open' = TRUE
        /\ collecting' = [id \in Id |-> << >>]
    BY <1>5, ReopensIs
  <2>2. collecting' \in [Id -> Seq(Fragment)] /\ open' \in BOOLEAN
    BY <2>1
  <2>3. delivered' \in [Client -> Seq([id : Nat, kind : Kinds, of : Seq(Fragment)])]
    BY <2>1 DEF TypesInv
  <2>4. TypesInv'
    BY <2>1, <2>2, <2>3, CalmTypes
  <2> QED BY <2>1, <2>4 DEF TableInv, Calm
<1>6. CASE UNCHANGED forwardingVars
  BY <1>6 DEF forwardingVars, TypesInv, TableInv, FragmentOK
<1> QED BY <1>1, <1>2, <1>3, <1>4, <1>5, <1>6, ForwardingCases

LEMMA TypesInit ==
  ASSUME TrafficInit
  PROVE  TypesInv /\ TableInv
<1> USE DEF TrafficInit, ForwardingInit
<1>1. commands \in [Client -> Seq(Nat \ {0})] /\ transaction_id \in Id
  BY TrafficAssumption
<1>2. unread \in [Client -> [id : Nat \ {0}, current : Nat]] /\ \A c \in Client : unread[c].current = 0
  OBVIOUS
<1>3. requests \in Seq(Fragment) /\ ids \in Seq(Id) /\ Len(requests) = 0 /\ Len(ids) = 0
  OBVIOUS
<1>4. transactions \in [Id -> 0..Len(requests)] /\ \A id \in Id : transactions[id] = NoRequest
  BY <1>3 DEF NoRequest
<1>5. collecting \in [Id -> Seq(Fragment)]
  OBVIOUS
<1>6. delivered \in [Client -> Seq([id : Nat, kind : Kinds, of : Seq(Fragment)])]
  OBVIOUS
<1>7. 1..Len(requests) = {}
  BY <1>3
<1>8. open \in BOOLEAN /\ mixed \in BOOLEAN /\ answers = {} /\ timers = {} /\ freed = {}
  OBVIOUS
<1> HIDE DEF TrafficInit, ForwardingInit
<1>9. TypesInv
  <2>1. \A c \in Client : ~(unread[c].current > 0)
    BY <1>2
  <2>2. answers \subseteq [id : Id, kind : Kinds, of : Seq(Fragment)]
    BY <1>8
  <2>3. \A r \in 1..Len(requests) : FragmentOK(requests[r])
    BY <1>7
  <2> QED BY <1>1, <1>2, <1>3, <1>4, <1>5, <1>6, <1>8, <2>1, <2>2, <2>3 DEF TypesInv
<1>10. TableInv
  BY <1>4, <1>8 DEF TableInv
<1> QED BY <1>9, <1>10

LEMMA TypesInvariant == TrafficSpec => [](TypesInv /\ TableInv)
BY TypesInit, TypesStep, PTL DEF TrafficSpec

(* The table, the ids and the lists are what they may be: every task in the   *)
(* table can be found under its id and timed out.                             *)
THEOREM TrafficTypeOKHolds == TrafficSpec => []TrafficTypeOK
<1>1. TypesInv /\ TableInv => ForwardingTypes
  <2> SUFFICES ASSUME TypesInv, TableInv PROVE ForwardingTypes
    OBVIOUS
  <2>1. transaction_id \in Id /\ Len(ids) = Len(requests) /\ ids \in Seq(Id) /\ transactions \in [Id -> 0..Len(requests)]
    BY DEF TypesInv
  <2>2. Range(ids) \subseteq Id
    BY <2>1 DEF Range
  <2>3. /\ \A id \in Id : transactions[id] # NoRequest => ids[transactions[id]] = id /\ transactions[id] \in timers
        /\ \A id \in Id : transactions[id] \notin freed
        /\ freed \subseteq timers
        /\ open \/ answers = {}
    BY DEF TableInv
  <2> QED BY <2>1, <2>2, <2>3 DEF ForwardingTypes
<1>2. SubscriptionsIInv => SubscriptionsTypes
  BY DEF SubscriptionsIInv, SubscriptionsTypes
<1> QED BY <1>1, <1>2, TypesInvariant, SubscriptionsInvariant, PTL DEF TrafficTypeOK

-----------------------------------------------------------------------------
(***************************************************************************)
(* The order of the fragments, and their ids.                              *)

LEMMA UnfinishedAfter ==
  ASSUME TypesInv, NEW f, NEW reaches, Sent(f, reaches), NEW n, n = Len(requests)
  PROVE  /\ \A r \in 1..n : IsLast(r)' <=> IsLast(r)
         /\ IsLast(n + 1)' <=> f.current = f.total - 1
         /\ \A r \in 1..n : Unfinished(r)' <=> Unfinished(r) /\ f.current # f.total - 1
         /\ Unfinished(n + 1)' <=> f.current # f.total - 1
<1>1. /\ n \in Nat /\ Len(requests') = n + 1 /\ requests'[n + 1] = f
      /\ \A r \in 1..n : requests'[r] = requests[r]
  BY SentAppends
<1>2. \A r \in 1..n : IsLast(r)' <=> IsLast(r)
  BY <1>1 DEF IsLast
<1>3. IsLast(n + 1)' <=> f.current = f.total - 1
  BY <1>1 DEF IsLast
<1>4. ASSUME NEW r \in 1..n
      PROVE  Unfinished(r)' <=> Unfinished(r) /\ f.current # f.total - 1
  <2>1. r..n + 1 = (r..n) \cup {n + 1} /\ r..n \subseteq 1..n
    BY <1>1
  <2>2. Unfinished(r)' <=> \A q \in r..n + 1 : ~IsLast(q)'
    BY <1>1 DEF Unfinished
  <2>3. Unfinished(r) <=> \A q \in r..n : ~IsLast(q)
    BY DEF Unfinished
  <2> QED BY <1>2, <1>3, <2>1, <2>2, <2>3
<1>5. Unfinished(n + 1)' <=> f.current # f.total - 1
  <2>1. Unfinished(n + 1)' <=> \A q \in n + 1..n + 1 : ~IsLast(q)'
    BY <1>1 DEF Unfinished
  <2>2. n + 1..n + 1 = {n + 1}
    BY <1>1
  <2> QED BY <1>3, <2>1, <2>2
<1> QED BY <1>2, <1>3, <1>4, <1>5

\* What is left to read after the fragment f
LEMMA UnreadAfter ==
  ASSUME TypesInv, NEW f, NEW reaches, Sent(f, reaches)
  PROVE  /\ FragmentOK(f) /\ (f.client \in Client \/ f.client = Proxy) /\ Proxy \notin Client
         /\ f.current \in Nat /\ f.total \in Nat \ {0} /\ f.id \in Nat /\ f.current < f.total
         /\ f.client = Proxy => f.current = f.total - 1
         /\ \A c \in Client : unread[c].id \in Nat /\ unread[c].current \in Nat
         /\ \A c \in Client \ {f.client} : unread'[c] = unread[c]
         /\ f.client \in Client =>
              /\ f.id = unread[f.client].id /\ f.current = unread[f.client].current
              /\ f.current = f.total - 1 => /\ unread'[f.client].id = f.id + 1
                                            /\ unread'[f.client].current = 0
              /\ f.current # f.total - 1 => /\ unread'[f.client].id = f.id
                                            /\ unread'[f.client].current = f.current + 1
<1>1. FragmentOK(f) /\ SentFor(f)
  BY DEF Sent
<1>2. /\ f.client \in Client \/ f.client = Proxy
      /\ Proxy \notin Client /\ f.current \in Nat /\ f.total \in Nat \ {0} /\ f.id \in Nat /\ f.current < f.total
      /\ f.client = Proxy => f.total = 1 /\ f.current = 0
      /\ f.client \in Client => f.total = commands[f.client][f.id]
  BY <1>1, FragmentTypes
<1>3. unread \in [Client -> [id : Nat \ {0}, current : Nat]]
  BY DEF TypesInv
<1>4. CASE f.client = Proxy
  <2>1. unread' = unread
    BY <1>1, <1>2, <1>4 DEF SentFor
  <2> QED BY <1>1, <1>2, <1>3, <1>4, <2>1
<1>5. CASE f.client \in Client
  <2>1. /\ unread' = [unread EXCEPT ![f.client] = AfterRead(f.client)]
        /\ f.id = unread[f.client].id /\ f.current = unread[f.client].current
    BY <1>1, <1>2, <1>5 DEF SentFor
  <2>2. unread'[f.client] = AfterRead(f.client) /\ \A c \in Client \ {f.client} : unread'[c] = unread[c]
    BY <1>3, <1>5, <2>1
  <2>3. unread[f.client] = [id |-> f.id, current |-> f.current]
    BY <1>3, <1>5, <2>1
  <2>4. AfterRead(f.client) = IF f.current + 1 < f.total THEN [id |-> f.id, current |-> f.current + 1]
                              ELSE [id |-> f.id + 1, current |-> 0]
    BY <1>2, <1>5, <2>1, <2>3 DEF AfterRead
  <2>5. f.current + 1 < f.total <=> f.current # f.total - 1
    BY <1>2
  <2>6. \A c \in Client : unread[c].id \in Nat /\ unread[c].current \in Nat
    BY <1>3
  <2>7. /\ f.current = f.total - 1 => AfterRead(f.client) = [id |-> f.id + 1, current |-> 0]
        /\ f.current # f.total - 1 => AfterRead(f.client) = [id |-> f.id, current |-> f.current + 1]
    BY <2>4, <2>5
  <2> QED BY <1>1, <1>2, <1>5, <2>1, <2>2, <2>6, <2>7
<1> QED BY <1>2, <1>4, <1>5

LEMMA RequestTypes ==
  ASSUME TypesInv, NEW r \in 1..Len(requests)
  PROVE  /\ FragmentOK(requests[r]) /\ ids[r] \in Id
         /\ requests[r].id \in Nat /\ requests[r].current \in Nat /\ requests[r].total \in Nat \ {0}
         /\ requests[r].current < requests[r].total
         /\ requests[r].client \in Client \/ requests[r].client = Proxy
         /\ requests[r].client = Proxy => IsLast(r)
<1>1. FragmentOK(requests[r]) /\ ids[r] \in Id
  BY DEF TypesInv
<1> QED BY <1>1, FragmentTypes DEF IsLast

\* Sending the next fragment of a client keeps the order of its fragments
LEMMA SentRead ==
  ASSUME TypesInv, ReadInv, NEW f, NEW reaches, Sent(f, reaches)
  PROVE  ReadInv'
<1>1. PICK n : n = Len(requests)
  OBVIOUS
<1>2. /\ n \in Nat /\ Len(requests') = n + 1 /\ requests'[n + 1] = f
      /\ \A r \in 1..n : requests'[r] = requests[r]
      /\ \A r \in 1..n + 1 : r \in 1..n \/ r = n + 1
  BY <1>1, SentAppends
<1>3. /\ \A r \in 1..n : Unfinished(r)' <=> Unfinished(r) /\ f.current # f.total - 1
      /\ Unfinished(n + 1)' <=> f.current # f.total - 1
  BY <1>1, UnfinishedAfter
<1>4. /\ f.current \in Nat /\ f.id \in Nat
      /\ f.client = Proxy => f.current = f.total - 1
      /\ f.client \in Client \/ f.client = Proxy
      /\ \A c \in Client : unread[c].id \in Nat /\ unread[c].current \in Nat
      /\ \A c \in Client \ {f.client} : unread'[c] = unread[c]
      /\ f.client \in Client =>
              /\ f.id = unread[f.client].id /\ f.current = unread[f.client].current
              /\ f.current = f.total - 1 => /\ unread'[f.client].id = f.id + 1
                                            /\ unread'[f.client].current = 0
              /\ f.current # f.total - 1 => /\ unread'[f.client].id = f.id
                                            /\ unread'[f.client].current = f.current + 1
  BY UnreadAfter
<1>5. ASSUME NEW r \in 1..n, requests[r].client \in Client
      PROVE  /\ Before(requests[r], unread[requests[r].client])
             /\ \A s \in 1..r - 1 : requests[s].client = requests[r].client => Before(requests[s], requests[r])
             /\ Unfinished(r) => /\ unread[requests[r].client].id = requests[r].id
                                 /\ unread[requests[r].client].current > 0
             /\ requests[r].id \in Nat /\ requests[r].current \in Nat
  BY <1>1, <1>5, RequestTypes DEF ReadInv
<1>6. ASSUME NEW r \in 1..n, requests[r].client \in Client
      PROVE  /\ Before(requests[r], unread'[requests[r].client])
             /\ Unfinished(r)' => /\ unread'[requests[r].client].id = requests[r].id
                                  /\ unread'[requests[r].client].current > 0
  <2>1. CASE requests[r].client # f.client
    BY <1>3, <1>4, <1>5, <1>6, <2>1
  <2>2. CASE requests[r].client = f.client
    <3>1. /\ requests[r].id < f.id \/ (requests[r].id = f.id /\ requests[r].current < f.current)
          /\ Unfinished(r) => f.id = requests[r].id
      BY <1>4, <1>5, <1>6, <2>2 DEF Before
    <3>2. CASE f.current = f.total - 1
      <4>1. requests[r].id < f.id + 1
        BY <1>4, <1>5, <1>6, <3>1
      <4> QED BY <1>3, <1>4, <1>6, <2>2, <3>2, <4>1 DEF Before
    <3>3. CASE f.current # f.total - 1
      <4>1. requests[r].id < f.id \/ (requests[r].id = f.id /\ requests[r].current < f.current + 1)
        BY <1>4, <1>5, <1>6, <3>1
      <4>2. f.current + 1 > 0
        BY <1>4
      <4> QED BY <1>3, <1>4, <1>6, <2>2, <3>1, <3>3, <4>1, <4>2 DEF Before
    <3> QED BY <3>2, <3>3
  <2> QED BY <2>1, <2>2
<1>7. ASSUME f.client \in Client
      PROVE  /\ Before(f, unread'[f.client])
             /\ \A s \in 1..n : requests[s].client = f.client => Before(requests[s], f)
             /\ f.current # f.total - 1 => unread'[f.client].id = f.id /\ unread'[f.client].current > 0
  <2>1. \A s \in 1..n : requests[s].client = f.client => Before(requests[s], f)
    BY <1>4, <1>5, <1>7 DEF Before
  <2>2. f.id < f.id + 1 /\ f.current < f.current + 1 /\ f.current + 1 > 0
    BY <1>4
  <2> QED BY <1>4, <1>7, <2>1, <2>2 DEF Before
<1>8. ASSUME NEW r \in 1..n + 1, requests'[r].client \in Client
      PROVE  /\ Before(requests'[r], unread'[requests'[r].client])
             /\ \A s \in 1..r - 1 : requests'[s].client = requests'[r].client => Before(requests'[s], requests'[r])
             /\ Unfinished(r)' => /\ unread'[requests'[r].client].id = requests'[r].id
                                  /\ unread'[requests'[r].client].current > 0
  <2>1. CASE r = n + 1
    <3>1. 1..r - 1 = 1..n
      BY <1>2, <2>1
    <3> QED BY <1>2, <1>3, <1>7, <1>8, <2>1, <3>1
  <2>2. CASE r \in 1..n
    <3>1. \A s \in 1..r - 1 : s \in 1..n
      BY <1>2, <2>2
    <3>2. requests'[r] = requests[r]
      BY <1>2, <2>2
    <3> QED BY <1>2, <1>5, <1>6, <1>8, <2>2, <3>1, <3>2
  <2> QED BY <1>2, <2>1, <2>2
<1>9. (\A r \in 1..Len(requests) : requests[r].client \in Client =>
    /\ Before(requests[r], unread[requests[r].client])
    /\ \A s \in 1..r - 1 : requests[s].client = requests[r].client => Before(requests[s], requests[r])
    /\ Unfinished(r) => /\ unread[requests[r].client].id = requests[r].id
                        /\ unread[requests[r].client].current > 0)'
  BY <1>2, <1>8 DEF Before
<1> QED BY <1>9 DEF ReadInv

\* Sending a fragment gives it the current id, and moves the counter behind a message
LEMMA SentIds ==
  ASSUME TypesInv, IdsInv, NEW f, NEW reaches, Sent(f, reaches)
  PROVE  IdsInv'
<1>1. PICK n : n = Len(requests)
  OBVIOUS
<1>2. /\ n \in Nat /\ Len(requests') = n + 1 /\ ids'[n + 1] = transaction_id
      /\ \A r \in 1..n : ids'[r] = ids[r]
      /\ \A r \in 1..n + 1 : r \in 1..n \/ r = n + 1
      /\ transaction_id' = (IF f.current = f.total - 1 THEN NextId(transaction_id) ELSE transaction_id)
  BY <1>1, SentAppends
<1>3. /\ \A r \in 1..n : IsLast(r)' <=> IsLast(r)
      /\ IsLast(n + 1)' <=> f.current = f.total - 1
      /\ \A r \in 1..n : Unfinished(r)' <=> Unfinished(r) /\ f.current # f.total - 1
      /\ Unfinished(n + 1)' <=> f.current # f.total - 1
  BY <1>1, UnfinishedAfter
<1>4. ASSUME NEW r \in 1..n + 1
      PROVE  IF Unfinished(r)' THEN ids'[r] = transaction_id'
             ELSE \E q \in r..n + 1 : IsLast(q)' /\ ids'[q] = ids'[r]
  <2>1. n + 1 \in r..n + 1
    BY <1>2
  <2>2. CASE r = n + 1
    BY <1>2, <1>3, <2>1, <2>2
  <2>3. CASE r \in 1..n /\ Unfinished(r)
    <3>1. ids'[r] = transaction_id
      BY <1>1, <1>2, <2>3 DEF IdsInv
    <3> QED BY <1>2, <1>3, <2>1, <2>3, <3>1
  <2>4. CASE r \in 1..n /\ ~Unfinished(r)
    <3>1. PICK q \in r..n : IsLast(q) /\ ids[q] = ids[r]
      BY <1>1, <2>4 DEF IdsInv
    <3>2. q \in 1..n /\ q \in r..n + 1
      BY <1>2, <2>4
    <3> QED BY <1>2, <1>3, <2>4, <3>1, <3>2
  <2> QED BY <1>2, <2>2, <2>3, <2>4
<1>5. (\A r \in 1..Len(requests) :
         IF Unfinished(r) THEN ids[r] = transaction_id
         ELSE \E q \in r..Len(requests) : IsLast(q) /\ ids[q] = ids[r])'
  BY <1>2, <1>4
<1> QED BY <1>5 DEF IdsInv

\* Until messages mix, a fragment that is sent continues the last message or begins one
LEMMA SentUnmixed ==
  ASSUME TypesInv, ReadInv, IdsInv, UnmixedInv, NEW f, NEW reaches, Sent(f, reaches)
  PROVE  UnmixedInv'
<1> SUFFICES ASSUME ~mixed'
             PROVE  /\ (\A s, r \in 1..Len(requests) :
                          requests[r].client \in Client /\ requests[s].client = requests[r].client
                             /\ requests[s].id = requests[r].id => ids[s] = ids[r])'
                    /\ (\A r \in 1..Len(requests) :
                          /\ requests[r].client \in Client
                          /\ unread[requests[r].client].current > 0
                          /\ unread[requests[r].client].id = requests[r].id
                          => Unfinished(r))'
  BY DEF UnmixedInv
<1>1. PICK n : n = Len(requests)
  OBVIOUS
<1>2. /\ n \in Nat /\ Len(requests') = n + 1 /\ requests'[n + 1] = f /\ ids'[n + 1] = transaction_id
      /\ \A r \in 1..n : requests'[r] = requests[r] /\ ids'[r] = ids[r]
      /\ \A r \in 1..n + 1 : r \in 1..n \/ r = n + 1
      /\ mixed' = (mixed \/ \E c \in Client \ {f.client} : unread[c].current > 0)
  BY <1>1, SentAppends
<1>3. /\ \A r \in 1..n : Unfinished(r)' <=> Unfinished(r) /\ f.current # f.total - 1
      /\ Unfinished(n + 1)' <=> f.current # f.total - 1
  BY <1>1, UnfinishedAfter
<1>4. /\ f.current \in Nat /\ f.id \in Nat
      /\ \A c \in Client : unread[c].id \in Nat /\ unread[c].current \in Nat
      /\ \A c \in Client \ {f.client} : unread'[c] = unread[c]
      /\ f.client \in Client =>
              /\ f.id = unread[f.client].id /\ f.current = unread[f.client].current
              /\ f.current = f.total - 1 => unread'[f.client].current = 0
              /\ f.current # f.total - 1 => unread'[f.client].id = f.id
  BY UnreadAfter
<1>5. ~mixed /\ \A c \in Client \ {f.client} : unread[c].current = 0
  <2>1. ~(mixed \/ \E c \in Client \ {f.client} : unread[c].current > 0)
    BY <1>2, Zenon
  <2>2. ~mixed /\ \A c \in Client \ {f.client} : ~(unread[c].current > 0)
    BY <2>1
  <2> QED BY <1>4, <2>2
<1>6. /\ \A s, r \in 1..n :
           requests[r].client \in Client /\ requests[s].client = requests[r].client /\ requests[s].id = requests[r].id
             => ids[s] = ids[r]
      /\ \A r \in 1..n :
           /\ requests[r].client \in Client
           /\ unread[requests[r].client].current > 0
           /\ unread[requests[r].client].id = requests[r].id
           => Unfinished(r)
  BY <1>1, <1>5 DEF UnmixedInv
<1>7. ASSUME NEW s \in 1..n, f.client \in Client, requests[s].client = f.client, requests[s].id = f.id
      PROVE  Unfinished(s) /\ ids[s] = transaction_id
  <2>1. Before(requests[s], unread[f.client]) /\ requests[s].id \in Nat /\ requests[s].current \in Nat
    BY <1>1, <1>7, RequestTypes DEF ReadInv
  <2>2. unread[f.client].current > 0
    BY <1>4, <1>7, <2>1 DEF Before
  <2>3. Unfinished(s)
    BY <1>4, <1>6, <1>7, <2>2
  <2> QED BY <1>1, <2>3 DEF IdsInv
<1>8. \A s, r \in 1..n + 1 :
        requests'[r].client \in Client /\ requests'[s].client = requests'[r].client /\ requests'[s].id = requests'[r].id
          => ids'[s] = ids'[r]
  <2> SUFFICES ASSUME NEW s \in 1..n + 1, NEW r \in 1..n + 1, requests'[r].client \in Client,
                      requests'[s].client = requests'[r].client, requests'[s].id = requests'[r].id
               PROVE  ids'[s] = ids'[r]
    OBVIOUS
  <2>1. CASE r \in 1..n /\ s \in 1..n
    BY <1>2, <1>6, <2>1
  <2>2. CASE r \in 1..n /\ s = n + 1
    BY <1>2, <1>7, <2>2
  <2>3. CASE r = n + 1 /\ s \in 1..n
    BY <1>2, <1>7, <2>3
  <2>4. CASE r = n + 1 /\ s = n + 1
    BY <2>4
  <2> QED BY <1>2, <2>1, <2>2, <2>3, <2>4
<1>9. ASSUME NEW r \in 1..n + 1, requests'[r].client \in Client,
             unread'[requests'[r].client].current > 0,
             unread'[requests'[r].client].id = requests'[r].id
      PROVE  Unfinished(r)'
  <2>1. requests'[r].client = f.client
    BY <1>4, <1>5, <1>9
  <2>2. f.current # f.total - 1 /\ requests'[r].id = f.id
    BY <1>4, <1>9, <2>1
  <2>3. CASE r = n + 1
    BY <1>3, <2>2, <2>3
  <2>4. CASE r \in 1..n
    <3>1. Unfinished(r)
      BY <1>2, <1>7, <1>9, <2>1, <2>2, <2>4
    <3> QED BY <1>3, <2>2, <2>4, <3>1
  <2> QED BY <1>2, <2>3, <2>4
<1> QED BY <1>2, <1>8, <1>9

\* A step that sends nothing leaves the order alone
LEMMA CalmOrder ==
  ASSUME Calm, ReadInv, IdsInv, UnmixedInv
  PROVE  ReadInv' /\ IdsInv' /\ UnmixedInv'
BY DEF Calm, ReadInv, IdsInv, UnmixedInv, Before, Unfinished, IsLast

\* Whatever happens, a fragment is sent or the step is calm
LEMMA SentOrCalm ==
  ASSUME TypesInv, TableInv, [TrafficNext]_trafficVars
  PROVE  (\E f, reaches : Sent(f, reaches)) \/ Calm
<1>1. CASE UNCHANGED forwardingVars
  BY <1>1 DEF forwardingVars, Calm, TypesInv
<1> QED BY <1>1, ForwardingCases, ReadyIs, TimedOutIs, ClosesIs, ReopensIs

\* Every step keeps the order of the requests
LEMMA OrderStep ==
  ASSUME OrderInv, [TrafficNext]_trafficVars
  PROVE  OrderInv'
<1>1. TypesInv' /\ TableInv'
  BY TypesStep DEF OrderInv
<1>2. ReadInv' /\ IdsInv' /\ UnmixedInv'
  BY SentOrCalm, SentRead, SentIds, SentUnmixed, CalmOrder DEF OrderInv
<1> QED BY <1>1, <1>2 DEF OrderInv

LEMMA OrderInit ==
  ASSUME TrafficInit
  PROVE  OrderInv /\ HistoryInv
<1>1. TypesInv /\ TableInv
  BY TypesInit
<1>2. /\ requests = << >> /\ answers = {} /\ collecting = [id \in Id |-> << >>]
      /\ delivered = [c \in Client |-> << >>]
  BY DEF TrafficInit, ForwardingInit
<1>3. 1..Len(requests) = {}
  BY <1>2
<1>4. ReadInv /\ IdsInv /\ UnmixedInv
  BY <1>3 DEF ReadInv, IdsInv, UnmixedInv
<1>5. \A c \in Client : delivered[c] = << >> /\ 1..Len(delivered[c]) = {} /\ DOMAIN delivered[c] = {}
  BY <1>2
<1>6. DeliveredInv /\ OwnAnswer
  BY <1>5 DEF DeliveredInv, OwnAnswer
<1>7. AnswersInv /\ CollectingInv
  BY <1>2 DEF AnswersInv, CollectingInv
<1> QED BY <1>1, <1>4, <1>6, <1>7 DEF OrderInv, HistoryInv

-----------------------------------------------------------------------------
(***************************************************************************)
(* What is collected, answered and delivered.                              *)

LEMMA MessageIs ==
  ASSUME NEW c, NEW id, NEW total \in Nat
  PROVE  Len(Message(c, id, total)) = total /\ DOMAIN Message(c, id, total) = 1..total
<1> DEFINE F(i) == [client |-> c, id |-> id, current |-> i - 1, total |-> total]
<1>1. Message(c, id, total) = [i \in 1..total |-> F(i)]
  BY DEF Message
<1> HIDE DEF F
<1>2. Len([i \in 1..total |-> F(i)]) = total
  OBVIOUS
<1> QED BY <1>1, <1>2

\* A fragment is in its message
LEMMA FragmentInMessage ==
  ASSUME TypesInv, NEW f, FragmentOK(f)
  PROVE  f.current + 1 \in 1..f.total /\ Message(f.client, f.id, f.total)[f.current + 1] = f
<1>1. /\ f.current \in Nat /\ f.total \in Nat \ {0} /\ f.current < f.total
      /\ f = [client |-> f.client, id |-> f.id, current |-> f.current, total |-> f.total]
  BY FragmentTypes
<1>2. PICK p : p = f.current + 1
  OBVIOUS
<1>3. p \in 1..f.total /\ p - 1 = f.current
  BY <1>1, <1>2
<1>4. Message(f.client, f.id, f.total)[p] = [client |-> f.client, id |-> f.id, current |-> p - 1, total |-> f.total]
  BY <1>1, <1>3, MessageAt
<1> QED BY <1>1, <1>2, <1>3, <1>4

\* A sequence that agrees with the message in all places is the message
LEMMA WholeMessage ==
  ASSUME NEW c, NEW id, NEW total \in Nat, NEW S, NEW parts \in Seq(S), Len(parts) = total,
         \A i \in 1..total : parts[i] = Message(c, id, total)[i]
  PROVE  parts = Message(c, id, total)
<1> DEFINE F(i) == [client |-> c, id |-> id, current |-> i - 1, total |-> total]
<1>1. Message(c, id, total) = [i \in 1..total |-> F(i)]
  BY DEF Message
<1> HIDE DEF F
<1>2. \A i \in 1..total : parts[i] = F(i)
  BY <1>1
<1>3. parts = [i \in 1..total |-> parts[i]]
  OBVIOUS
<1>4. parts = [i \in 1..total |-> F(i)]
  BY <1>2, <1>3
<1> QED BY <1>1, <1>4

\* An id that is given once after a step was given once before it
LEMMA GivenOnceBefore ==
  ASSUME TypesInv, TableInv, [TrafficNext]_trafficVars, IdGivenOnce'
  PROVE  IdGivenOnce
<1>1. ASSUME NEW f, NEW reaches, Sent(f, reaches)
      PROVE  IdGivenOnce
  <2>1. PICK n : n = Len(requests)
    OBVIOUS
  <2>2. /\ n \in Nat /\ Len(requests') = n + 1
        /\ \A r \in 1..n : requests'[r] = requests[r] /\ ids'[r] = ids[r]
    BY <1>1, <2>1, SentAppends
  <2>3. \A r \in 1..n : IsLast(r)' <=> IsLast(r)
    BY <1>1, <2>1, UnfinishedAfter
  <2>4. \A s, r \in 1..n + 1 : s < r /\ IsLast(s)' => ids'[s] # ids'[r]
    BY <2>2 DEF IdGivenOnce
  <2>5. 1..n \subseteq 1..n + 1
    BY <2>2
  <2> QED BY <2>1, <2>2, <2>3, <2>4, <2>5 DEF IdGivenOnce
<1>2. CASE Calm
  BY <1>2 DEF Calm, IdGivenOnce, IsLast
<1> QED BY <1>1, <1>2, SentOrCalm

\* Two requests of one message have one id, if it is one request or nothing was mixed
LEMMA SameMessage ==
  ASSUME OrderInv, NEW r \in 1..Len(requests), NEW s \in 1..Len(requests),
         requests[r].client \in Client, requests[s].client = requests[r].client,
         requests[s].id = requests[r].id,
         requests[r].total = 1 \/ ~mixed
  PROVE  ids[s] = ids[r]
<1> USE DEF OrderInv
<1>1. CASE ~mixed
  BY <1>1 DEF UnmixedInv
<1>2. CASE requests[r].total = 1
  <2>1. /\ FragmentOK(requests[r]) /\ FragmentOK(requests[s])
        /\ requests[r].id \in Nat /\ requests[r].current \in Nat /\ requests[r].current < requests[r].total
        /\ requests[s].id \in Nat /\ requests[s].current \in Nat /\ requests[s].current < requests[s].total
    BY RequestTypes
  <2>2. requests[s].total = requests[r].total
    BY <2>1, FragmentTypes
  <2>3. requests[r].current = 0 /\ requests[s].current = 0
    BY <1>2, <2>1, <2>2
  <2>4. ~Before(requests[r], requests[s]) /\ ~Before(requests[s], requests[r])
    BY <2>1, <2>3 DEF Before
  <2>5. CASE r < s
    <3>1. r \in 1..s - 1
      BY <2>5
    <3> QED BY <2>4, <3>1 DEF ReadInv
  <2>6. CASE s < r
    <3>1. s \in 1..r - 1
      BY <2>6
    <3> QED BY <2>4, <3>1 DEF ReadInv
  <2>7. CASE r = s
    BY <2>7
  <2>8. r \in Nat /\ s \in Nat
    BY DEF TypesInv
  <2> QED BY <2>5, <2>6, <2>7, <2>8
<1> QED BY <1>1, <1>2

\* An id that is about to be given again is that of the message whose fragment comes next
LEMMA UnderCurrentId ==
  ASSUME OrderInv, NEW f, NEW reaches, Sent(f, reaches), IdGivenOnce', ~mixed',
         NEW r \in 1..Len(requests), ids[r] = transaction_id
  PROVE  /\ f.client \in Client /\ requests[r].client = f.client /\ requests[r].id = f.id
         /\ requests[r].total = f.total /\ f.current > 0
<1> USE DEF OrderInv
<1>1. PICK n : n = Len(requests)
  OBVIOUS
<1>2. /\ n \in Nat /\ Len(requests') = n + 1 /\ requests'[n + 1] = f /\ ids'[n + 1] = transaction_id
      /\ \A q \in 1..n : requests'[q] = requests[q] /\ ids'[q] = ids[q]
      /\ mixed' = (mixed \/ \E c \in Client \ {f.client} : unread[c].current > 0)
  BY <1>1, SentAppends
<1>3. \A q \in 1..n : IsLast(q)' <=> IsLast(q)
  BY <1>1, UnfinishedAfter
<1>4. \A c \in Client \ {f.client} : ~(unread[c].current > 0)
  <2>1. ~(mixed \/ \E c \in Client \ {f.client} : unread[c].current > 0)
    BY <1>2, Zenon
  <2> QED BY <2>1
<1>5. \A q \in 1..n : IsLast(q) => ids[q] # transaction_id
  <2> SUFFICES ASSUME NEW q \in 1..n, IsLast(q) PROVE ids[q] # transaction_id
    OBVIOUS
  <2>1. q \in 1..n + 1 /\ n + 1 \in 1..n + 1 /\ q < n + 1
    BY <1>2
  <2>2. IsLast(q)'
    BY <1>3
  <2>3. \A s, t \in 1..n + 1 : s < t /\ IsLast(s)' => ids'[s] # ids'[t]
    BY <1>2 DEF IdGivenOnce
  <2>4. ids'[q] # ids'[n + 1]
    BY <2>1, <2>2, <2>3
  <2> QED BY <1>2, <2>4
<1>6. Unfinished(r)
  <2> SUFFICES ASSUME ~Unfinished(r) PROVE FALSE
    OBVIOUS
  <2>1. PICK q \in r..n : IsLast(q) /\ ids[q] = ids[r]
    BY <1>1 DEF IdsInv
  <2>2. q \in 1..n
    BY <1>1, <1>2
  <2> QED BY <1>5, <2>1, <2>2
<1>7. ~IsLast(r)
  <2>1. r \in r..n
    BY <1>1, <1>2
  <2> QED BY <1>1, <1>6, <2>1 DEF Unfinished
<1>8. FragmentOK(requests[r]) /\ requests[r].client \in Client
  BY <1>7, RequestTypes
<1>9. unread[requests[r].client].id = requests[r].id /\ unread[requests[r].client].current > 0
  BY <1>6, <1>8 DEF ReadInv
<1>10. requests[r].client = f.client
  BY <1>4, <1>8, <1>9
<1>11. FragmentOK(f) /\ f.id = unread[f.client].id /\ f.current = unread[f.client].current
  BY <1>8, <1>10, UnreadAfter
<1>12. requests[r].total = f.total
  BY <1>8, <1>9, <1>10, <1>11, FragmentTypes
<1> QED BY <1>8, <1>9, <1>10, <1>11, <1>12

\* What the modem has collected with the fragment f is the beginning of a message
LEMMA CollectedMessage ==
  ASSUME OrderInv, CollectingInv, NEW f, NEW reaches, Sent(f, reaches), IdGivenOnce', ~mixed', open,
         NEW parts, parts = Collected(transaction_id, f), parts # << >>
  PROVE  \A i \in 1..f.current + 1 : parts[i] = Message(f.client, f.id, f.total)[i]
<1> USE DEF OrderInv
<1>1. FragmentOK(f) /\ f.current \in Nat /\ transaction_id \in Id
  BY UnreadAfter DEF TypesInv
<1>2. Message(f.client, f.id, f.total)[f.current + 1] = f
  BY <1>1, FragmentInMessage
<1>3. CASE f.current = 0
  <2>1. parts = << f >>
    BY <1>1, <1>3, CollectedIs
  <2>2. parts[1] = f /\ 1..f.current + 1 = {1} /\ f.current + 1 = 1
    BY <1>3, <2>1
  <2> QED BY <1>2, <2>2
<1>4. CASE f.current # 0
  <2>1. /\ collecting[transaction_id] # << >> /\ Len(collecting[transaction_id]) = f.current
        /\ parts[f.current + 1] = f
        /\ \A i \in 1..f.current : parts[i] = collecting[transaction_id][i]
    BY <1>1, <1>4, CollectedIs
  <2>2. ~mixed
    <3>1. PICK n : n = Len(requests)
      OBVIOUS
    <3>2. mixed' = (mixed \/ \E c \in Client \ {f.client} : unread[c].current > 0)
      BY <3>1, SentAppends
    <3> QED BY <3>2, Zenon
  <2>3. PICK r \in 1..Len(requests) : CollectedOf(transaction_id, r)
    BY <1>1, <2>1, <2>2 DEF CollectingInv
  <2>4. /\ ids[r] = transaction_id
        /\ Len(collecting[transaction_id]) = requests[r].current + 1
        /\ \A i \in 1..requests[r].current + 1 : collecting[transaction_id][i]
              = Message(requests[r].client, requests[r].id, requests[r].total)[i]
    BY <2>3 DEF CollectedOf
  <2>5. requests[r].client = f.client /\ requests[r].id = f.id /\ requests[r].total = f.total
    BY <2>4, UnderCurrentId
  <2>6. \A i \in 1..f.current : parts[i] = Message(f.client, f.id, f.total)[i]
    BY <2>1, <2>4, <2>5
  <2>7. 1..f.current + 1 = (1..f.current) \cup {f.current + 1}
    BY <1>1
  <2> QED BY <1>2, <2>1, <2>6, <2>7
<1> QED BY <1>3, <1>4

LEMMA DeliveredTypes ==
  ASSUME TypesInv, NEW c \in Client, NEW i \in 1..Len(delivered[c])
  PROVE  delivered[c][i].id \in Nat /\ delivered[c][i].kind \in Kinds /\ delivered[c][i].of \in Seq(Fragment)
<1> DEFINE D == [id : Nat, kind : Kinds, of : Seq(Fragment)]
<1>1. delivered \in [Client -> Seq(D)]
  BY DEF TypesInv
<1>2. delivered[c][i] \in D
  <2> HIDE DEF D
  <2> QED BY <1>1
<1> QED BY <1>2

\* Nothing was answered yet to the message that is being collected
LEMMA FreshMessage ==
  ASSUME OrderInv, HistoryInv, NEW f, NEW reaches, Sent(f, reaches), IdGivenOnce', open,
         NEW parts, parts = Collected(transaction_id, f), parts # << >>
  PROVE  /\ f.current = 0 \/ ~mixed' => NothingFor(f)
         /\ ~mixed' => \A a \in answers : a.id # transaction_id
<1> USE DEF OrderInv, HistoryInv
<1>1. /\ FragmentOK(f) /\ f.current \in Nat /\ f.id \in Nat /\ transaction_id \in Id
      /\ f.client \in Client => f.id = unread[f.client].id /\ f.current = unread[f.client].current
  BY UnreadAfter DEF TypesInv
<1>2. ASSUME f.current = 0
      PROVE  NothingFor(f)
  <2> SUFFICES ASSUME f.client \in Client, NEW i \in 1..Len(delivered[f.client])
               PROVE  delivered[f.client][i].id # f.id
    BY DEF NothingFor
  <2>1. delivered[f.client][i].id < f.id
    BY <1>1, <1>2 DEF DeliveredInv
  <2>2. delivered[f.client][i].id \in Nat
    BY DeliveredTypes
  <2> QED BY <1>1, <2>1, <2>2
<1>3. ASSUME ~mixed', f.current # 0
      PROVE  NothingFor(f) /\ \A a \in answers : a.id # transaction_id
  <2>1. collecting[transaction_id] # << >>
    BY <1>1, <1>3, CollectedIs
  <2>2. ~mixed
    <3>1. PICK n : n = Len(requests)
      OBVIOUS
    <3>2. mixed' = (mixed \/ \E c \in Client \ {f.client} : unread[c].current > 0)
      BY <3>1, SentAppends
    <3> QED BY <1>3, <3>2, Zenon
  <2>3. PICK r \in 1..Len(requests) : CollectedOf(transaction_id, r)
    BY <1>1, <2>1, <2>2 DEF CollectingInv
  <2>4. ids[r] = transaction_id /\ NothingFor(requests[r]) /\ \A a \in answers : a.id # transaction_id
    BY <2>3 DEF CollectedOf
  <2>5. requests[r].client = f.client /\ requests[r].id = f.id
    BY <1>3, <2>4, UnderCurrentId
  <2> QED BY <2>4, <2>5 DEF NothingFor
<1>4. ASSUME ~mixed', f.current = 0, NEW a \in answers
      PROVE  a.id # transaction_id
  <2> SUFFICES ASSUME a.id = transaction_id PROVE FALSE
    OBVIOUS
  <2>1. PICK r \in 1..Len(requests) : ids[r] = transaction_id
    BY DEF AnswersInv
  <2>2. f.current > 0
    BY <1>4, <2>1, UnderCurrentId
  <2> QED BY <1>4, <2>2
<1> QED BY <1>2, <1>3, <1>4

LEMMA DeliveredSameWhenOpen ==
  ASSUME TypesInv, NEW f, NEW reaches, Sent(f, reaches), open
  PROVE  delivered' = delivered
<1>1. f.client \in Client \/ f.client = Proxy
  BY UnreadAfter
<1> QED BY <1>1 DEF Sent, SentFor

LEMMA MixedStays ==
  ASSUME TypesInv, NEW f, NEW reaches, Sent(f, reaches), ~mixed'
  PROVE  ~mixed
<1>1. PICK n : n = Len(requests)
  OBVIOUS
<1>2. mixed' = (mixed \/ \E c \in Client \ {f.client} : unread[c].current > 0)
  BY <1>1, SentAppends
<1> QED BY <1>2, Zenon

\* Sending a fragment: an answer the modem adds is that of the message it ends
LEMMA SentAnswers ==
  ASSUME OrderInv, HistoryInv, NEW f, NEW reaches, Sent(f, reaches), IdGivenOnce'
  PROVE  AnswersInv'
<1> USE DEF OrderInv, HistoryInv
<1>1. PICK n : n = Len(requests)
  OBVIOUS
<1>2. /\ n \in Nat /\ Len(requests') = n + 1 /\ requests'[n + 1] = f /\ ids'[n + 1] = transaction_id
      /\ \A r \in 1..n : requests'[r] = requests[r] /\ ids'[r] = ids[r]
      /\ open' = open
  BY <1>1, SentAppends
<1>3. /\ \A r \in 1..n : IsLast(r)' <=> IsLast(r)
      /\ IsLast(n + 1)' <=> f.current = f.total - 1
  BY <1>1, UnfinishedAfter
<1>4. 1..n \subseteq 1..n + 1 /\ n + 1 \in 1..n + 1 /\ \A r \in 1..n : r < n + 1
  BY <1>2
<1>5. CASE ~open
  <2>1. answers' = answers /\ answers = {}
    BY <1>1, <1>5, SentTable DEF TableInv
  <2> QED BY <2>1 DEF AnswersInv
<1>6. CASE open
  <2>1. delivered' = delivered
    BY <1>6, DeliveredSameWhenOpen
  <2>2. transactions' = [transactions EXCEPT ![transaction_id] = n + 1] /\ transactions \in [Id -> 0..n]
        /\ transaction_id \in Id
    BY <1>1, <1>6, SentTable DEF TypesInv
  <2>3. ASSUME NEW a \in answers
        PROVE  /\ \E r \in 1..n + 1 : ids'[r] = a.id
               /\ a.kind = "COMMAND_DONE" => \E r \in 1..n + 1 : AnswerOf(a, r)'
    <3>1. \E r \in 1..n : ids[r] = a.id
      BY <1>1 DEF AnswersInv
    <3>2. \E r \in 1..n + 1 : ids'[r] = a.id
      BY <1>2, <1>4, <3>1
    <3>3. ASSUME a.kind = "COMMAND_DONE"
          PROVE  \E r \in 1..n + 1 : AnswerOf(a, r)'
      <4>1. PICK r \in 1..n : AnswerOf(a, r)
        BY <1>1, <3>3 DEF AnswersInv
      <4>2. IsLast(r) /\ ids[r] = a.id /\ transactions[a.id] \in {NoRequest, r}
        BY <4>1 DEF AnswerOf
      <4>3. IsLast(r)' /\ ids'[r] = a.id /\ requests'[r] = requests[r] /\ r \in 1..n + 1
        BY <1>2, <1>3, <1>4, <4>2
      <4>4. a.id # transaction_id
        <5>1. \A s, t \in 1..n + 1 : s < t /\ IsLast(s)' => ids'[s] # ids'[t]
          BY <1>2 DEF IdGivenOnce
        <5>2. ids'[r] # ids'[n + 1]
          BY <1>4, <4>3, <5>1
        <5> QED BY <1>2, <4>3, <5>2
      <4>5. a.id \in Id /\ transactions'[a.id] = transactions[a.id]
        BY <2>2, <4>4, AnswerTypes
      <4>6. Plain(a.of)' => Plain(a.of)
        BY MixedStays DEF Plain
      <4>7. NothingFor(requests[r]) => NothingFor(requests[r])'
        BY <2>1, <4>3 DEF NothingFor
      <4>8. AnswerOf(a, r)'
        BY <4>1, <4>3, <4>5, <4>6, <4>7 DEF AnswerOf
      <4> QED BY <4>3, <4>8
    <3> QED BY <3>2, <3>3
  <2>4. CASE ~reaches
    <3>1. answers' = answers
      BY <1>1, <2>4, SentTable
    <3> QED BY <1>2, <2>3, <3>1 DEF AnswersInv
  <2>5. CASE reaches
    <3>1. PICK parts : parts = Collected(transaction_id, f)
      OBVIOUS
    <3>2. FragmentOK(f) /\ f.current \in Nat /\ f.total \in Nat /\ f.id \in Nat
      BY UnreadAfter
    <3>3. ModemReceives(transaction_id, f)
      BY <1>1, <1>6, <2>5, SentTable
    <3>4. \A a \in answers' : \/ a \in answers
                              \/ /\ a = [id |-> transaction_id, kind |-> "COMMAND_DONE", of |-> parts]
                                 /\ parts # << >> /\ Len(parts) = f.total
                              \/ a = [id |-> transaction_id, kind |-> "FUNCTION_ERROR", of |-> << f >>]
      BY <2>2, <3>1, <3>2, <3>3, ModemReceivesIs
    <3>5. ASSUME NEW a, a = [id |-> transaction_id, kind |-> "COMMAND_DONE", of |-> parts],
                 parts # << >>, Len(parts) = f.total
          PROVE  AnswerOf(a, n + 1)'
      <4>1. a.id = transaction_id /\ a.of = parts
        BY <3>5
      <4>2. parts \in Seq(Fragment) /\ Len(parts) = f.current + 1
        BY <2>2, <3>1, <3>2, <3>5, CollectedIs
      <4>3. f.current = f.total - 1 /\ f.current + 1 = f.total
        BY <3>2, <3>5, <4>2
      <4>4. f.total \in Nat /\ parts \in Seq(Fragment) /\ Len(parts) = f.total
        BY <3>2, <3>5, <4>2
      <4>5. (\A i \in 1..f.total : parts[i] = Message(f.client, f.id, f.total)[i])
              => parts = Message(f.client, f.id, f.total)
        BY <4>4, WholeMessage
      <4>6. IsLast(n + 1)' /\ ids'[n + 1] = a.id /\ transactions'[a.id] = n + 1
        BY <1>2, <1>3, <2>2, <4>1, <4>3
      <4>7. ASSUME Plain(parts)'
            PROVE  parts = Message(f.client, f.id, f.total) /\ NothingFor(f)
        <5>1. CASE f.current = 0
          <6>1. parts = << f >>
            BY <2>2, <3>1, <3>2, <5>1, CollectedIs
          <6>2. NothingFor(f)
            BY <1>6, <3>1, <3>5, <5>1, FreshMessage
          <6>3. \A i \in 1..f.total : parts[i] = Message(f.client, f.id, f.total)[i]
            <7>1. Message(f.client, f.id, f.total)[f.current + 1] = f
              BY <3>2, FragmentInMessage
            <7>2. f.total = 1 /\ f.current + 1 = 1
              BY <3>2, <4>3, <5>1
            <7> QED BY <6>1, <7>1, <7>2
          <6> QED BY <4>5, <6>2, <6>3
        <5>2. CASE f.current # 0
          <6>1. ~mixed'
            BY <3>2, <4>2, <4>7, <5>2 DEF Plain
          <6>2. \A i \in 1..f.total : parts[i] = Message(f.client, f.id, f.total)[i]
            BY <1>6, <3>1, <3>5, <4>3, <6>1, CollectedMessage
          <6>3. NothingFor(f)
            BY <1>6, <3>1, <3>5, <6>1, FreshMessage
          <6> QED BY <4>5, <6>2, <6>3
        <5> QED BY <5>1, <5>2
      <4>8. NothingFor(f) => NothingFor(requests[n + 1])'
        BY <1>2, <2>1 DEF NothingFor
      <4> QED BY <1>2, <4>1, <4>6, <4>7, <4>8 DEF AnswerOf
    <3>6. ASSUME NEW a \in answers'
          PROVE  /\ \E r \in 1..n + 1 : ids'[r] = a.id
                 /\ a.kind = "COMMAND_DONE" => \E r \in 1..n + 1 : AnswerOf(a, r)'
      <4>1. CASE a \in answers
        BY <2>3, <4>1
      <4>2. CASE a = [id |-> transaction_id, kind |-> "COMMAND_DONE", of |-> parts]
                 /\ parts # << >> /\ Len(parts) = f.total
        <5>1. AnswerOf(a, n + 1)'
          BY <3>5, <4>2
        <5> QED BY <1>2, <1>4, <4>2, <5>1
      <4>3. CASE a = [id |-> transaction_id, kind |-> "FUNCTION_ERROR", of |-> << f >>]
        BY <1>2, <1>4, <4>3
      <4> QED BY <3>4, <4>1, <4>2, <4>3
    <3> QED BY <1>2, <3>6 DEF AnswersInv
  <2> QED BY <2>4, <2>5 DEF Sent
<1> QED BY <1>5, <1>6

\* ... what the modem has collected is the beginning of that message
LEMMA SentCollecting ==
  ASSUME OrderInv, HistoryInv, NEW f, NEW reaches, Sent(f, reaches), IdGivenOnce'
  PROVE  CollectingInv'
<1> USE DEF OrderInv, HistoryInv
<1> SUFFICES ASSUME open', ~mixed', NEW id \in Id, collecting'[id] # << >>
             PROVE  \E r \in 1..Len(requests') : CollectedOf(id, r)'
  BY DEF CollectingInv
<1>1. PICK n : n = Len(requests)
  OBVIOUS
<1>2. /\ n \in Nat /\ Len(requests') = n + 1 /\ requests'[n + 1] = f /\ ids'[n + 1] = transaction_id
      /\ \A r \in 1..n : requests'[r] = requests[r] /\ ids'[r] = ids[r]
      /\ open
  BY <1>1, SentAppends
<1>3. /\ \A r \in 1..n : IsLast(r)' <=> IsLast(r)
      /\ IsLast(n + 1)' <=> f.current = f.total - 1
  BY <1>1, UnfinishedAfter
<1>4. 1..n \subseteq 1..n + 1 /\ n + 1 \in 1..n + 1
  BY <1>2
<1>5. ~mixed /\ delivered' = delivered
  BY <1>2, MixedStays, DeliveredSameWhenOpen
<1>6. ASSUME collecting'[id] = collecting[id], \A a \in answers' : a \in answers \/ a.id # id
      PROVE  \E r \in 1..n + 1 : CollectedOf(id, r)'
  <2>1. PICK r \in 1..n : CollectedOf(id, r)
    BY <1>1, <1>2, <1>5, <1>6 DEF CollectingInv
  <2>2. NothingFor(requests[r]) => NothingFor(requests[r])'
    BY <1>2, <1>5 DEF NothingFor
  <2>3. CollectedOf(id, r)'
    BY <1>2, <1>3, <1>6, <2>1, <2>2 DEF CollectedOf
  <2> QED BY <1>4, <2>3
<1>7. CASE ~reaches
  <2>1. collecting' = collecting /\ answers' = answers
    BY <1>1, <1>7, SentTable
  <2> QED BY <1>2, <1>6, <2>1
<1>8. CASE reaches
  <2>1. PICK parts : parts = Collected(transaction_id, f)
    OBVIOUS
  <2>2. FragmentOK(f) /\ f.current \in Nat /\ f.total \in Nat /\ transaction_id \in Id
    BY UnreadAfter DEF TypesInv
  <2>3. ModemReceives(transaction_id, f)
    BY <1>1, <1>2, <1>8, SentTable
  <2>4. /\ collecting' = [collecting EXCEPT ![transaction_id] =
                             IF parts # << >> /\ Len(parts) = f.total THEN << >> ELSE parts]
        /\ \A a \in answers' : \/ a \in answers
                               \/ /\ a = [id |-> transaction_id, kind |-> "COMMAND_DONE", of |-> parts]
                                  /\ parts # << >> /\ Len(parts) = f.total
                               \/ a = [id |-> transaction_id, kind |-> "FUNCTION_ERROR", of |-> << f >>]
        /\ parts # << >> /\ Len(parts) # f.total => answers' = answers
    BY <2>1, <2>2, <2>3, ModemReceivesIs
  <2>5. collecting \in [Id -> Seq(Fragment)]
    BY DEF TypesInv
  <2>6. CASE id # transaction_id
    <3>1. collecting'[id] = collecting[id]
      BY <2>4, <2>5, <2>6
    <3>2. \A a \in answers' : a \in answers \/ a.id # id
      BY <2>4, <2>6
    <3> QED BY <1>2, <1>6, <3>1, <3>2
  <2>7. CASE id = transaction_id
    <3>1. parts # << >> /\ Len(parts) # f.total /\ collecting'[id] = parts
      BY <2>4, <2>5, <2>7
    <3>2. answers' = answers
      BY <2>4, <3>1
    <3>3. Len(parts) = f.current + 1
      BY <2>1, <2>2, <3>1, CollectedIs
    <3>4. ~IsLast(n + 1)'
      BY <1>3, <2>2, <3>1, <3>3
    <3>5. \A i \in 1..f.current + 1 : parts[i] = Message(f.client, f.id, f.total)[i]
      BY <1>2, <2>1, <3>1, CollectedMessage
    <3>6. NothingFor(f) /\ \A a \in answers : a.id # transaction_id
      BY <1>2, <2>1, <3>1, FreshMessage
    <3>7. NothingFor(requests[n + 1])'
      BY <1>2, <1>5, <3>6 DEF NothingFor
    <3>8. CollectedOf(id, n + 1)'
      BY <1>2, <2>7, <3>1, <3>2, <3>3, <3>4, <3>5, <3>6, <3>7 DEF CollectedOf
    <3> QED BY <1>2, <1>4, <3>8
  <2> QED BY <2>6, <2>7
<1> QED BY <1>7, <1>8 DEF Sent

\* What was delivered before a fragment was sent, and after
LEMMA SentDeliveries ==
  ASSUME OrderInv, HistoryInv, NEW f, NEW reaches, Sent(f, reaches), NEW c \in Client,
         NEW i \in 1..Len(delivered'[c])
  PROVE  \/ i \in 1..Len(delivered[c]) /\ delivered'[c][i] = delivered[c][i]
         \/ /\ ~open /\ c = f.client
            /\ delivered'[c][i].id = f.id /\ delivered'[c][i].kind = "NOT_OPENED"
<1>1. CASE open
  BY <1>1, DeliveredSameWhenOpen DEF OrderInv
<1>2. FragmentOK(f) /\ (f.client \in Client \/ f.client = Proxy) /\ f.id \in Nat /\ f \in Fragment
  BY UnreadAfter DEF OrderInv, FragmentOK
<1>3. CASE f.client = Proxy
  BY <1>3, UnreadAfter DEF OrderInv, Sent, SentFor
<1>4. CASE ~open /\ f.client \in Client
  <2>1. Deliver(f.client, f.id, "NOT_OPENED", << f >>)
    BY <1>4, UnreadAfter DEF OrderInv, Sent, SentFor
  <2>2. PICK n : n = Len(delivered[f.client])
    OBVIOUS
  <2>3. << f >> \in Seq(Fragment) /\ "NOT_OPENED" \in Kinds
    BY <1>2 DEF Kinds
  <2>4. TypesInv /\ f.client \in Client /\ f.id \in Nat
    BY <1>2, <1>4 DEF OrderInv
  <2>5. /\ \A e \in Client \ {f.client} : delivered'[e] = delivered[e]
        /\ Len(delivered'[f.client]) = n + 1
        /\ \A j \in 1..n : delivered'[f.client][j] = delivered[f.client][j]
        /\ delivered'[f.client][n + 1] = [id |-> f.id, kind |-> "NOT_OPENED", of |-> << f >>]
        /\ \A j \in 1..n + 1 : j \in 1..n \/ j = n + 1
    <3>1. PICK of, kind, id : of = << f >> /\ kind = "NOT_OPENED" /\ id = f.id
      OBVIOUS
    <3>2. of \in Seq(Fragment) /\ kind \in Kinds /\ id \in Nat /\ Deliver(f.client, id, kind, of)
      BY <2>1, <2>3, <2>4, <3>1
    <3>3. /\ n \in Nat
          /\ \A e \in Client \ {f.client} : delivered'[e] = delivered[e]
          /\ Len(delivered'[f.client]) = n + 1
          /\ \A j \in 1..n : delivered'[f.client][j] = delivered[f.client][j]
          /\ delivered'[f.client][n + 1] = [id |-> id, kind |-> kind, of |-> of]
          /\ \A j \in 1..n + 1 : j \in 1..n \/ j = n + 1
      BY <2>2, <2>4, <3>2, DeliverIs
    <3> QED BY <3>1, <3>3
  <2>6. CASE c # f.client
    BY <2>5, <2>6
  <2>7. CASE c = f.client /\ i \in 1..n
    BY <2>2, <2>5, <2>7
  <2>8. CASE c = f.client /\ i = n + 1
    BY <1>4, <2>5, <2>8
  <2> QED BY <2>5, <2>6, <2>7, <2>8
<1> QED BY <1>1, <1>2, <1>3, <1>4

\* A command that was answered is behind the one that is read next
LEMMA DoneIsBehind ==
  ASSUME TypesInv, DeliveredInv, NEW c \in Client, NEW i \in 1..Len(delivered[c]),
         delivered[c][i].kind = "COMMAND_DONE", Plain(delivered[c][i].of)
  PROVE  /\ delivered[c][i].id < unread[c].id
         /\ \A id \in Id : transactions[id] # NoRequest /\ requests[transactions[id]].client = c
                              => requests[transactions[id]].id # delivered[c][i].id
BY DEF DeliveredInv

\* ... and nothing that was answered is sent again
LEMMA SentDelivered ==
  ASSUME OrderInv, HistoryInv, NEW f, NEW reaches, Sent(f, reaches)
  PROVE  DeliveredInv'
<1> USE DEF OrderInv, HistoryInv
<1>1. PICK n : n = Len(requests)
  OBVIOUS
<1>2. /\ n \in Nat /\ requests'[n + 1] = f
      /\ \A r \in 1..n : requests'[r] = requests[r]
  BY <1>1, SentAppends
<1>3. /\ f.current \in Nat /\ f.id \in Nat
      /\ \A c \in Client : unread[c].id \in Nat /\ unread[c].current \in Nat
      /\ \A c \in Client \ {f.client} : unread'[c] = unread[c]
      /\ f.client \in Client =>
              /\ f.id = unread[f.client].id /\ f.current = unread[f.client].current
              /\ f.current = f.total - 1 => /\ unread'[f.client].id = f.id + 1
                                            /\ unread'[f.client].current = 0
              /\ f.current # f.total - 1 => /\ unread'[f.client].id = f.id
                                            /\ unread'[f.client].current = f.current + 1
  BY UnreadAfter
<1>4. ASSUME NEW id \in Id, transactions'[id] # NoRequest
      PROVE  \/ transactions[id] # NoRequest /\ requests'[transactions'[id]] = requests[transactions[id]]
             \/ requests'[transactions'[id]] = f
  <2>1. transactions \in [Id -> 0..n] /\ transaction_id \in Id
    BY <1>1 DEF TypesInv
  <2>2. CASE transactions'[id] = transactions[id]
    <3>1. transactions[id] \in 1..n
      BY <1>2, <1>4, <2>1, <2>2 DEF NoRequest
    <3> QED BY <1>2, <1>4, <2>2, <3>1
  <2>3. CASE transactions'[id] = n + 1
    BY <1>2, <2>3
  <2>4. transactions' = transactions \/ transactions' = [transactions EXCEPT ![transaction_id] = n + 1]
    BY <1>1, SentTable
  <2> QED BY <2>1, <2>2, <2>3, <2>4
<1>5. ASSUME NEW c \in Client
      PROVE  /\ unread[c].id <= unread'[c].id
             /\ \A d \in Nat : d < unread[c].id \/ (d = unread[c].id /\ unread[c].current > 0)
                                  => d < unread'[c].id \/ (d = unread'[c].id /\ unread'[c].current > 0)
             /\ c = f.client => f.id < unread'[c].id \/ (f.id = unread'[c].id /\ unread'[c].current > 0)
  <2>1. CASE c # f.client
    BY <1>3, <2>1
  <2>2. CASE c = f.client /\ f.current = f.total - 1
    BY <1>3, <2>2
  <2>3. CASE c = f.client /\ f.current # f.total - 1
    BY <1>3, <2>3
  <2> QED BY <2>1, <2>2, <2>3
<1>6. ASSUME NEW c \in Client, NEW i \in 1..Len(delivered'[c])
      PROVE  /\ \/ delivered'[c][i].id < unread'[c].id
                \/ delivered'[c][i].id = unread'[c].id /\ unread'[c].current > 0
             /\ delivered'[c][i].kind = "COMMAND_DONE" /\ Plain(delivered[c][i].of)' =>
                  /\ delivered'[c][i].id < unread'[c].id
                  /\ \A id \in Id : transactions'[id] # NoRequest /\ requests'[transactions'[id]].client = c
                                      => requests'[transactions'[id]].id # delivered'[c][i].id
  <2>1. CASE i \in 1..Len(delivered[c]) /\ delivered'[c][i] = delivered[c][i]
    <3>1. PICK d : d = delivered[c][i]
      OBVIOUS
    <3>2. d.id \in Nat
      BY <2>1, <3>1, DeliveredTypes
    <3>3. d.id < unread[c].id \/ (d.id = unread[c].id /\ unread[c].current > 0)
      BY <2>1, <3>1 DEF DeliveredInv
    <3>4. ASSUME d.kind = "COMMAND_DONE", Plain(d.of)
          PROVE  /\ d.id < unread[c].id
                 /\ \A id \in Id : transactions[id] # NoRequest /\ requests[transactions[id]].client = c
                                      => requests[transactions[id]].id # d.id
      BY <2>1, <3>4, <3>1, DoneIsBehind
    <3>5. ASSUME d.kind = "COMMAND_DONE", Plain(d.of)
          PROVE  /\ d.id < unread'[c].id
                 /\ \A id \in Id : transactions'[id] # NoRequest /\ requests'[transactions'[id]].client = c
                                      => requests'[transactions'[id]].id # d.id
      <4>1. d.id < unread'[c].id
        <5>1. unread'[c].id \in Nat
          BY SentTypes DEF TypesInv
        <5> QED BY <1>3, <1>5, <3>2, <3>4, <3>5, <5>1
      <4>2. ASSUME NEW id \in Id, transactions'[id] # NoRequest, requests'[transactions'[id]].client = c
            PROVE  requests'[transactions'[id]].id # d.id
        <5>1. CASE transactions[id] # NoRequest /\ requests'[transactions'[id]] = requests[transactions[id]]
          BY <3>4, <3>5, <4>2, <5>1
        <5>2. CASE requests'[transactions'[id]] = f
          BY <1>3, <3>2, <3>4, <3>5, <4>2, <5>2
        <5> QED BY <1>4, <4>2, <5>1, <5>2
      <4> QED BY <4>1, <4>2
    <3>6. delivered'[c][i] = d
      BY <2>1, <3>1
    <3>7. Plain(delivered[c][i].of)' => Plain(d.of)
      BY <3>6, MixedStays DEF Plain
    <3>8. d.id < unread'[c].id \/ (d.id = unread'[c].id /\ unread'[c].current > 0)
      BY <1>5, <3>2, <3>3
    <3> QED BY <3>5, <3>6, <3>7, <3>8
  <2>2. CASE c = f.client /\ delivered'[c][i].id = f.id /\ delivered'[c][i].kind = "NOT_OPENED"
    BY <1>5, <2>2
  <2> QED BY <2>1, <2>2, SentDeliveries
<1> QED BY <1>6 DEF DeliveredInv

\* ... nor is a client told of an answer
LEMMA SentOwnAnswer ==
  ASSUME OrderInv, HistoryInv, NEW f, NEW reaches, Sent(f, reaches)
  PROVE  OwnAnswer'
<1> USE DEF OrderInv, HistoryInv
<1>1. commands' = commands
  BY SentAppends
<1>2. \A c \in Client : DOMAIN delivered'[c] = 1..Len(delivered'[c]) /\ DOMAIN delivered[c] = 1..Len(delivered[c])
  BY SentTypes DEF TypesInv
<1>3. ASSUME NEW c \in Client, NEW i \in 1..Len(delivered'[c]),
             delivered'[c][i].kind = "COMMAND_DONE",
             Len(delivered'[c][i].of) = 1 \/ ~mixed'
      PROVE  /\ delivered'[c][i].id \in DOMAIN commands[c]
             /\ delivered'[c][i].of = Fragments(c, delivered'[c][i].id)
             /\ \A j \in 1..Len(delivered'[c]) : delivered'[c][j].id = delivered'[c][i].id => i = j
  <2>1. i \in 1..Len(delivered[c]) /\ delivered'[c][i] = delivered[c][i]
    BY <1>3, SentDeliveries
  <2>2. Plain(delivered[c][i].of)
    BY <1>3, <2>1, MixedStays DEF Plain
  <2>3. /\ delivered[c][i].id \in DOMAIN commands[c]
        /\ delivered[c][i].of = Fragments(c, delivered[c][i].id)
        /\ \A j \in 1..Len(delivered[c]) : delivered[c][j].id = delivered[c][i].id => i = j
    BY <1>2, <1>3, <2>1, <2>2 DEF OwnAnswer, Plain
  <2>4. delivered[c][i].id < unread[c].id
    BY <1>3, <2>1, <2>2, DoneIsBehind
  <2>5. ASSUME NEW j \in 1..Len(delivered'[c]), delivered'[c][j].id = delivered'[c][i].id
        PROVE  i = j
    <3>1. CASE j \in 1..Len(delivered[c]) /\ delivered'[c][j] = delivered[c][j]
      BY <2>1, <2>3, <2>5, <3>1
    <3>2. CASE c = f.client /\ delivered'[c][j].id = f.id
      <4>1. f.id = unread[c].id /\ f.id \in Nat
        BY <3>2, UnreadAfter
      <4>2. delivered[c][i].id = f.id
        BY <2>1, <2>5, <3>2
      <4> QED BY <2>4, <4>1, <4>2
    <3> QED BY <3>1, <3>2, SentDeliveries
  <2> QED BY <2>1, <2>3, <2>5
<1>4. \A c \in Client : \A id : Fragments(c, id)' = Fragments(c, id)
  BY <1>1 DEF Fragments
<1> QED BY <1>1, <1>2, <1>3, <1>4 DEF OwnAnswer

LEMMA CalmPlain == ASSUME Calm PROVE \A of : Plain(of)' <=> Plain(of)
BY DEF Calm, Plain

\* An answer that is still there is still one to its message, if nothing new was delivered for it
LEMMA CalmAnswer ==
  ASSUME TypesInv, Calm, NEW a \in answers, NEW r \in 1..Len(requests), AnswerOf(a, r),
         Plain(a.of) /\ transactions'[a.id] = r /\ NothingFor(requests[r]) => NothingFor(requests[r])'
  PROVE  AnswerOf(a, r)'
<1>1. a.id \in Id /\ transactions'[a.id] \in {NoRequest, transactions[a.id]}
  BY AnswerTypes DEF Calm
<1>2. requests' = requests /\ ids' = ids /\ (Plain(a.of)' <=> Plain(a.of))
  BY CalmPlain DEF Calm
<1>3. r # NoRequest
  BY DEF NoRequest
<1>4. /\ IsLast(r) /\ ids[r] = a.id /\ transactions[a.id] \in {NoRequest, r}
      /\ Plain(a.of) => /\ a.of = Message(requests[r].client, requests[r].id, requests[r].total)
                        /\ transactions[a.id] = r => NothingFor(requests[r])
  BY DEF AnswerOf
<1>5. transactions'[a.id] \in {NoRequest, r} /\ (transactions'[a.id] = r => transactions[a.id] = r)
  BY <1>1, <1>3, <1>4
<1>6. Plain(a.of) => /\ a.of = Message(requests[r].client, requests[r].id, requests[r].total)
                     /\ transactions'[a.id] = r => NothingFor(requests[r])'
  BY <1>4, <1>5
<1>7. IsLast(r)'
  BY <1>2, <1>4 DEF IsLast
<1> QED BY <1>2, <1>4, <1>5, <1>6, <1>7 DEF AnswerOf

\* A step that delivers and collects nothing keeps what is known of the answers
LEMMA QuietHistory ==
  ASSUME TypesInv, HistoryInv, Calm, delivered' = delivered,
         \/ open' = FALSE
         \/ open' = open /\ collecting' = collecting
         \/ collecting' = [id \in Id |-> << >>]
  PROVE  HistoryInv'
<1> USE DEF HistoryInv
<1>1. \A f : NothingFor(f)' <=> NothingFor(f)
  BY DEF NothingFor
<1>2. requests' = requests /\ ids' = ids /\ unread' = unread /\ commands' = commands /\ mixed' = mixed
  BY DEF Calm
<1>3. AnswersInv'
  <2>1. ASSUME NEW a \in answers'
        PROVE  /\ \E r \in 1..Len(requests) : ids[r] = a.id
               /\ a.kind = "COMMAND_DONE" => \E r \in 1..Len(requests) : AnswerOf(a, r)'
    <3>1. a \in answers
      BY DEF Calm
    <3>2. \A r \in 1..Len(requests) : NothingFor(requests[r]) => NothingFor(requests[r])'
      BY <1>1, <1>2 DEF NothingFor
    <3> QED BY <3>1, <3>2, CalmAnswer DEF AnswersInv
  <2> QED BY <1>2, <2>1 DEF AnswersInv
<1>4. CollectingInv'
  <2> SUFFICES ASSUME open', ~mixed', NEW id \in Id, collecting'[id] # << >>
               PROVE  \E r \in 1..Len(requests') : CollectedOf(id, r)'
    BY DEF CollectingInv
  <2>1. open /\ collecting' = collecting
    OBVIOUS
  <2>2. PICK r \in 1..Len(requests) : CollectedOf(id, r)
    BY <1>2, <2>1 DEF CollectingInv
  <2>3. NothingFor(requests[r]) => NothingFor(requests[r])'
    BY <1>2 DEF NothingFor
  <2>4. CollectedOf(id, r)'
    BY <1>2, <2>1, <2>2, <2>3 DEF CollectedOf, IsLast, Calm
  <2> QED BY <1>2, <2>4
<1>5. DeliveredInv'
  <2>1. \A id \in Id : transactions'[id] # NoRequest => transactions'[id] = transactions[id]
    BY DEF Calm
  <2>2. \A of : Plain(of)' <=> Plain(of)
    BY CalmPlain
  <2> QED BY <1>2, <2>1, <2>2 DEF DeliveredInv, Plain
<1>6. OwnAnswer'
  BY <1>2 DEF OwnAnswer, Fragments
<1> QED BY <1>3, <1>4, <1>5, <1>6

\* What was delivered before an answer was read, and after
LEMMA AnsweredDeliveries ==
  ASSUME TypesInv, TableInv, NEW a, Answered(a), NEW c \in Client, NEW i \in 1..Len(delivered'[c])
  PROVE  \/ i \in 1..Len(delivered[c]) /\ delivered'[c][i] = delivered[c][i]
         \/ /\ transactions[a.id] # NoRequest /\ c = requests[transactions[a.id]].client
            /\ i = Len(delivered[c]) + 1
            /\ delivered'[c][i] = [id |-> requests[transactions[a.id]].id, kind |-> a.kind, of |-> a.of]
<1>1. a \in answers /\ a.id \in Id /\ a.kind \in Kinds /\ a.of \in Seq(Fragment)
  BY AnswerTypes DEF Answered
<1>2. CASE delivered' = delivered
  BY <1>2
<1>3. CASE transactions[a.id] # NoRequest /\ requests[transactions[a.id]].client # Proxy
  <2>1. PICK f : f = requests[transactions[a.id]]
    OBVIOUS
  <2>2. FragmentOK(f)
    BY <1>1, <1>3, <2>1, RequestOf
  <2>3. f.client \in Client /\ f.id \in Nat
    BY <1>3, <2>1, <2>2, FragmentTypes
  <2>4. PICK d, id, kind, of : d = f.client /\ id = f.id /\ kind = a.kind /\ of = a.of
    OBVIOUS
  <2>5. d \in Client /\ id \in Nat /\ kind \in Kinds /\ of \in Seq(Fragment) /\ Deliver(d, id, kind, of)
    BY <1>1, <1>3, <2>1, <2>3, <2>4 DEF Answered
  <2>6. PICK n : n = Len(delivered[d])
    OBVIOUS
  <2>7. /\ \A e \in Client \ {d} : delivered'[e] = delivered[e]
        /\ Len(delivered'[d]) = n + 1
        /\ \A j \in 1..n : delivered'[d][j] = delivered[d][j]
        /\ delivered'[d][n + 1] = [id |-> id, kind |-> kind, of |-> of]
        /\ \A j \in 1..n + 1 : j \in 1..n \/ j = n + 1
    <3>1. Len(delivered'[d]) = n + 1 /\ \A j \in 1..n + 1 : j \in 1..n \/ j = n + 1
      BY <2>5, <2>6, DeliverIs
    <3>2. /\ \A e \in Client \ {d} : delivered'[e] = delivered[e]
          /\ \A j \in 1..n : delivered'[d][j] = delivered[d][j]
      BY <2>5, <2>6, DeliverIs
    <3>3. delivered'[d][n + 1] = [id |-> id, kind |-> kind, of |-> of]
      BY <2>5, <2>6, DeliverIs
    <3> QED BY <3>1, <3>2, <3>3
  <2>8. CASE c # d
    BY <2>7, <2>8
  <2>9. CASE c = d /\ i \in 1..n
    BY <2>6, <2>7, <2>9
  <2>10. CASE c = d /\ i = n + 1
    BY <1>3, <2>1, <2>4, <2>6, <2>7, <2>10
  <2> QED BY <2>7, <2>8, <2>9, <2>10
<1> QED BY <1>2, <1>3 DEF Answered

\* The request that an answer belongs to
LEMMA AnsweredRequest ==
  ASSUME OrderInv, AnswersInv, NEW a \in answers, transactions[a.id] # NoRequest,
         NEW r, r = transactions[a.id]
  PROVE  /\ a.id \in Id /\ r \in 1..Len(requests) /\ ids[r] = a.id /\ FragmentOK(requests[r])
         /\ a.kind = "COMMAND_DONE" /\ Plain(a.of) =>
              /\ IsLast(r) /\ a.of = Message(requests[r].client, requests[r].id, requests[r].total)
              /\ NothingFor(requests[r])
              /\ requests[r].total = 1 \/ ~mixed
<1> USE DEF OrderInv
<1>1. a.id \in Id
  BY AnswerTypes
<1>2. r \in 1..Len(requests) /\ ids[r] = a.id /\ FragmentOK(requests[r])
  BY <1>1, RequestOf
<1>3. ASSUME a.kind = "COMMAND_DONE", Plain(a.of)
      PROVE  /\ IsLast(r) /\ a.of = Message(requests[r].client, requests[r].id, requests[r].total)
             /\ NothingFor(requests[r])
             /\ requests[r].total = 1 \/ ~mixed
  <2>1. PICK q \in 1..Len(requests) : AnswerOf(a, q)
    BY <1>3 DEF AnswersInv
  <2>2. q = r
    BY <2>1 DEF AnswerOf
  <2>3. /\ IsLast(r) /\ a.of = Message(requests[r].client, requests[r].id, requests[r].total)
        /\ NothingFor(requests[r])
    BY <1>3, <2>1, <2>2 DEF AnswerOf
  <2>4. requests[r].total \in Nat
    BY <1>2, RequestTypes
  <2>5. Len(a.of) = requests[r].total
    BY <2>3, <2>4, MessageIs
  <2> QED BY <1>3, <2>3, <2>5 DEF Plain
<1> QED BY <1>1, <1>2, <1>3

\* Delivering an answer: the others still belong to their requests
LEMMA AnsweredAnswers ==
  ASSUME OrderInv, HistoryInv, Calm, NEW b, Answered(b)
  PROVE  AnswersInv'
<1> USE DEF OrderInv, HistoryInv
<1>1. requests' = requests /\ ids' = ids /\ b \in answers /\ answers' \subseteq answers
  BY DEF Calm, Answered
<1>2. ASSUME NEW a \in answers'
      PROVE  /\ \E r \in 1..Len(requests) : ids[r] = a.id
             /\ a.kind = "COMMAND_DONE" => \E r \in 1..Len(requests) : AnswerOf(a, r)'
  <2>1. a \in answers /\ a.id \in Id
    BY <1>1, AnswerTypes
  <2>2. \E r \in 1..Len(requests) : ids[r] = a.id
    BY <2>1 DEF AnswersInv
  <2>3. ASSUME a.kind = "COMMAND_DONE"
        PROVE  \E r \in 1..Len(requests) : AnswerOf(a, r)'
    <3>1. PICK r \in 1..Len(requests) : AnswerOf(a, r)
      BY <2>1, <2>3 DEF AnswersInv
    <3>2. /\ ids[r] = a.id
          /\ Plain(a.of) => a.of = Message(requests[r].client, requests[r].id, requests[r].total)
      BY <3>1 DEF AnswerOf
    <3>3. ASSUME Plain(a.of), transactions'[a.id] = r, NothingFor(requests[r])
          PROVE  NothingFor(requests[r])'
      <4> SUFFICES ASSUME requests[r].client \in Client, NEW i \in 1..Len(delivered'[requests[r].client])
                   PROVE  delivered'[requests[r].client][i].id # requests[r].id
        BY <1>1 DEF NothingFor
      <4>1. PICK c : c = requests[r].client
        OBVIOUS
      <4>2. CASE i \in 1..Len(delivered[c]) /\ delivered'[c][i] = delivered[c][i]
        BY <3>3, <4>1, <4>2 DEF NothingFor
      <4>3. CASE /\ transactions[b.id] # NoRequest /\ c = requests[transactions[b.id]].client
                 /\ delivered'[c][i] = [id |-> requests[transactions[b.id]].id, kind |-> b.kind, of |-> b.of]
        <5>1. PICK q : q = transactions[b.id]
          OBVIOUS
        <5>2. b.id \in Id /\ q \in 1..Len(requests) /\ ids[q] = b.id
          BY <1>1, <4>3, <5>1, AnsweredRequest
        <5>3. a.id # b.id
          <6>1. transactions' = [transactions EXCEPT ![b.id] = NoRequest]
            BY <4>3 DEF Answered
          <6>2. transactions \in [Id -> 0..Len(requests)]
            BY DEF TypesInv
          <6>3. transactions'[b.id] = NoRequest
            BY <5>2, <6>1, <6>2
          <6>4. r # NoRequest
            BY DEF NoRequest
          <6> QED BY <3>3, <6>3, <6>4
        <5>4. requests[r].total = 1 \/ ~mixed
          <6>1. requests[r].total \in Nat
            BY RequestTypes
          <6>2. Len(a.of) = requests[r].total
            BY <3>2, <3>3, <6>1, MessageIs
          <6> QED BY <3>3, <6>2 DEF Plain
        <5>5. requests[q].id # requests[r].id
          <6> SUFFICES ASSUME requests[q].id = requests[r].id PROVE FALSE
            OBVIOUS
          <6>1. ids[q] = ids[r]
            BY <4>1, <4>3, <5>1, <5>2, <5>4, SameMessage
          <6> QED BY <3>2, <5>2, <5>3, <6>1
        <5> QED BY <4>1, <4>3, <5>1, <5>5
      <4> QED BY <4>1, <4>2, <4>3, AnsweredDeliveries
    <3>4. AnswerOf(a, r)'
      BY <2>1, <3>1, <3>3, CalmAnswer
    <3> QED BY <3>4
  <2> QED BY <2>2, <2>3
<1> QED BY <1>1, <1>2 DEF AnswersInv

\* ... what is being collected has no answer yet
LEMMA AnsweredCollecting ==
  ASSUME OrderInv, HistoryInv, Calm, NEW b, Answered(b)
  PROVE  CollectingInv'
<1> USE DEF OrderInv, HistoryInv
<1> SUFFICES ASSUME open', ~mixed', NEW id \in Id, collecting'[id] # << >>
             PROVE  \E r \in 1..Len(requests') : CollectedOf(id, r)'
  BY DEF CollectingInv
<1>1. /\ requests' = requests /\ ids' = ids /\ b \in answers /\ answers' \subseteq answers
      /\ open /\ collecting' = collecting /\ ~mixed
  BY DEF Calm, Answered
<1>2. PICK r \in 1..Len(requests) : CollectedOf(id, r)
  BY <1>1 DEF CollectingInv
<1>3. ids[r] = id /\ NothingFor(requests[r]) /\ \A a \in answers : a.id # id
  BY <1>2 DEF CollectedOf
<1>4. NothingFor(requests[r])'
  <2> SUFFICES ASSUME requests[r].client \in Client, NEW i \in 1..Len(delivered'[requests[r].client])
               PROVE  delivered'[requests[r].client][i].id # requests[r].id
    BY <1>1 DEF NothingFor
  <2>1. PICK c : c = requests[r].client
    OBVIOUS
  <2>2. CASE i \in 1..Len(delivered[c]) /\ delivered'[c][i] = delivered[c][i]
    BY <1>3, <2>1, <2>2 DEF NothingFor
  <2>3. CASE /\ transactions[b.id] # NoRequest /\ c = requests[transactions[b.id]].client
             /\ delivered'[c][i] = [id |-> requests[transactions[b.id]].id, kind |-> b.kind, of |-> b.of]
    <3>1. PICK q : q = transactions[b.id]
      OBVIOUS
    <3>2. q \in 1..Len(requests) /\ ids[q] = b.id
      BY <1>1, <2>3, <3>1, AnsweredRequest
    <3>3. requests[q].id # requests[r].id
      <4> SUFFICES ASSUME requests[q].id = requests[r].id PROVE FALSE
        OBVIOUS
      <4>1. ids[q] = ids[r]
        BY <1>1, <2>1, <2>3, <3>1, <3>2, SameMessage
      <4> QED BY <1>1, <1>3, <3>2, <4>1
    <3> QED BY <2>1, <2>3, <3>1, <3>3
  <2> QED BY <2>1, <2>2, <2>3, AnsweredDeliveries
<1>5. CollectedOf(id, r)'
  BY <1>1, <1>2, <1>4 DEF CollectedOf, IsLast
<1> QED BY <1>1, <1>5

\* ... and the command is gone from the table
LEMMA AnsweredDelivered ==
  ASSUME OrderInv, HistoryInv, Calm, NEW b, Answered(b)
  PROVE  DeliveredInv' /\ OwnAnswer'
<1> USE DEF OrderInv, HistoryInv
<1>1. /\ requests' = requests /\ ids' = ids /\ unread' = unread /\ commands' = commands /\ mixed' = mixed
      /\ b \in answers
      /\ \A id \in Id : transactions'[id] \in {NoRequest, transactions[id]}
  BY DEF Calm, Answered
<1>2. PICK q : q = transactions[b.id]
  OBVIOUS
<1>3. ASSUME q # NoRequest
      PROVE  /\ b.id \in Id /\ q \in 1..Len(requests) /\ ids[q] = b.id /\ FragmentOK(requests[q])
             /\ b.kind = "COMMAND_DONE" /\ Plain(b.of) =>
                  /\ IsLast(q) /\ b.of = Message(requests[q].client, requests[q].id, requests[q].total)
                  /\ NothingFor(requests[q])
                  /\ requests[q].total = 1 \/ ~mixed
  BY <1>1, <1>2, <1>3, AnsweredRequest
<1>4. ASSUME q # NoRequest, requests[q].client \in Client
      PROVE  /\ \/ requests[q].id < unread[requests[q].client].id
                \/ requests[q].id = unread[requests[q].client].id /\ unread[requests[q].client].current > 0
             /\ b.kind = "COMMAND_DONE" /\ Plain(b.of) =>
                  /\ requests[q].id < unread[requests[q].client].id
                  /\ \A id \in Id : transactions'[id] # NoRequest
                                    /\ requests[transactions'[id]].client = requests[q].client
                                      => requests[transactions'[id]].id # requests[q].id
  <2>1. PICK c : c = requests[q].client
    OBVIOUS
  <2>2. Before(requests[q], unread[c])
    BY <1>3, <1>4, <2>1 DEF ReadInv
  <2>3. /\ requests[q].id \in Nat /\ requests[q].current \in Nat
        /\ requests[q].total = commands[c][requests[q].id] /\ requests[q].total \in Nat
    BY <1>3, <1>4, <2>1, FragmentTypes
  <2>4. unread[c].id \in Nat /\ unread[c].current \in Nat
        /\ (unread[c].current > 0 => unread[c].current < commands[c][unread[c].id])
    BY <1>4, <2>1 DEF TypesInv
  <2>5. requests[q].id < unread[c].id \/ (requests[q].id = unread[c].id /\ unread[c].current > 0)
    BY <2>2, <2>3, <2>4 DEF Before
  <2>6. ASSUME IsLast(q)
        PROVE  requests[q].id < unread[c].id
    <3> SUFFICES ASSUME requests[q].id = unread[c].id, requests[q].current < unread[c].current PROVE FALSE
      BY <2>2 DEF Before
    <3>1. requests[q].current = requests[q].total - 1
      BY <2>6 DEF IsLast
    <3>2. unread[c].current < requests[q].total
      BY <2>3, <2>4
    <3> QED BY <2>3, <2>4, <3>1, <3>2
  <2>7. ASSUME b.kind = "COMMAND_DONE", Plain(b.of), NEW id \in Id, transactions'[id] # NoRequest,
               requests[transactions'[id]].client = c
        PROVE  requests[transactions'[id]].id # requests[q].id
    <3>1. transactions'[id] = transactions[id] /\ transactions[id] # NoRequest
      BY <1>1, <2>7
    <3>2. PICK t : t = transactions[id]
      OBVIOUS
    <3>3. t \in 1..Len(requests) /\ ids[t] = id
      BY <3>1, <3>2, RequestOf
    <3>4. id # b.id
      <4>1. transactions' = [transactions EXCEPT ![b.id] = NoRequest]
        BY <1>2, <1>4 DEF Answered
      <4>2. transactions \in [Id -> 0..Len(requests)]
        BY DEF TypesInv
      <4> QED BY <2>7, <4>1, <4>2
    <3> SUFFICES ASSUME requests[t].id = requests[q].id PROVE FALSE
      BY <3>1, <3>2
    <3>5. ids[t] = ids[q]
      BY <1>3, <1>4, <2>1, <2>7, <3>1, <3>2, <3>3, SameMessage
    <3> QED BY <1>3, <1>4, <3>3, <3>4, <3>5
  <2> QED BY <1>3, <1>4, <2>1, <2>5, <2>6, <2>7
<1>5. \A of : Plain(of)' <=> Plain(of)
  BY CalmPlain
<1>6. ASSUME NEW c \in Client, NEW i \in 1..Len(delivered'[c])
      PROVE  /\ \/ delivered'[c][i].id < unread[c].id
                \/ delivered'[c][i].id = unread[c].id /\ unread[c].current > 0
             /\ delivered'[c][i].kind = "COMMAND_DONE" /\ Plain(delivered'[c][i].of) =>
                  /\ delivered'[c][i].id < unread[c].id
                  /\ \A id \in Id : transactions'[id] # NoRequest /\ requests[transactions'[id]].client = c
                                      => requests[transactions'[id]].id # delivered'[c][i].id
  <2>1. CASE i \in 1..Len(delivered[c]) /\ delivered'[c][i] = delivered[c][i]
    <3>1. PICK d : d = delivered[c][i]
      OBVIOUS
    <3>2. d.id < unread[c].id \/ (d.id = unread[c].id /\ unread[c].current > 0)
      BY <2>1, <3>1 DEF DeliveredInv
    <3>3. ASSUME d.kind = "COMMAND_DONE", Plain(d.of)
          PROVE  /\ d.id < unread[c].id
                 /\ \A id \in Id : transactions[id] # NoRequest /\ requests[transactions[id]].client = c
                                      => requests[transactions[id]].id # d.id
      BY <2>1, <3>1, <3>3, DoneIsBehind
    <3>4. \A id \in Id : transactions'[id] # NoRequest => transactions'[id] = transactions[id]
      BY <1>1
    <3>5. delivered'[c][i] = d
      BY <2>1, <3>1
    <3> QED BY <3>2, <3>3, <3>4, <3>5
  <2>2. CASE /\ transactions[b.id] # NoRequest /\ c = requests[transactions[b.id]].client
             /\ delivered'[c][i] = [id |-> requests[transactions[b.id]].id, kind |-> b.kind, of |-> b.of]
    <3>1. /\ delivered'[c][i].id = requests[q].id /\ delivered'[c][i].kind = b.kind
          /\ delivered'[c][i].of = b.of /\ q # NoRequest /\ requests[q].client = c
      BY <1>2, <2>2
    <3> QED BY <1>4, <3>1
  <2> QED BY <2>1, <2>2, AnsweredDeliveries
<1>7. DeliveredInv'
  BY <1>1, <1>5, <1>6 DEF DeliveredInv
<1>8. ASSUME NEW c \in Client, NEW i \in 1..Len(delivered'[c]),
             delivered'[c][i].kind = "COMMAND_DONE", Plain(delivered'[c][i].of)
      PROVE  /\ delivered'[c][i].id \in DOMAIN commands[c]
             /\ delivered'[c][i].of = Fragments(c, delivered'[c][i].id)
             /\ \A j \in 1..Len(delivered'[c]) : delivered'[c][j].id = delivered'[c][i].id => i = j
  <2>0. Len(delivered[c]) \in Nat /\ DOMAIN delivered[c] = 1..Len(delivered[c])
    BY DEF TypesInv
  <2>1. CASE i \in 1..Len(delivered[c]) /\ delivered'[c][i] = delivered[c][i]
    <3>1. PICK d : d = delivered[c][i]
      OBVIOUS
    <3>2. /\ d.id \in DOMAIN commands[c] /\ d.of = Fragments(c, d.id)
          /\ \A j \in 1..Len(delivered[c]) : delivered[c][j].id = d.id => i = j
      BY <1>8, <2>0, <2>1, <3>1 DEF OwnAnswer, Plain
    <3>3. ASSUME NEW j \in 1..Len(delivered'[c]), delivered'[c][j].id = d.id
          PROVE  i = j
      <4>1. CASE j \in 1..Len(delivered[c]) /\ delivered'[c][j] = delivered[c][j]
        BY <3>2, <3>3, <4>1
      <4>2. CASE /\ transactions[b.id] # NoRequest /\ c = requests[transactions[b.id]].client
                 /\ delivered'[c][j] = [id |-> requests[transactions[b.id]].id, kind |-> b.kind, of |-> b.of]
        <5>1. b.id \in Id /\ requests[q].client = c /\ requests[q].id = d.id /\ q # NoRequest
          BY <1>2, <1>3, <3>3, <4>2
        <5>2. requests[transactions[b.id]].id # d.id
          BY <1>2, <1>8, <2>1, <3>1, <5>1, DoneIsBehind
        <5> QED BY <1>2, <5>1, <5>2
      <4> QED BY <4>1, <4>2, AnsweredDeliveries
    <3> QED BY <2>1, <3>1, <3>2, <3>3
  <2>2. CASE /\ transactions[b.id] # NoRequest /\ c = requests[transactions[b.id]].client
             /\ i = Len(delivered[c]) + 1
             /\ delivered'[c][i] = [id |-> requests[transactions[b.id]].id, kind |-> b.kind, of |-> b.of]
    <3>1. /\ delivered'[c][i].id = requests[q].id /\ delivered'[c][i].kind = b.kind
          /\ delivered'[c][i].of = b.of /\ q # NoRequest /\ requests[q].client = c
      BY <1>2, <2>2
    <3>2. FragmentOK(requests[q]) /\ b.of = Message(c, requests[q].id, requests[q].total) /\ NothingFor(requests[q])
      BY <1>3, <1>8, <3>1
    <3>3. requests[q].id \in 1..Len(commands[c]) /\ requests[q].total = commands[c][requests[q].id]
      BY <3>1, <3>2, FragmentTypes
    <3>4. requests[q].id \in DOMAIN commands[c] /\ b.of = Fragments(c, requests[q].id)
      <4>1. commands[c] \in Seq(Nat \ {0})
        BY DEF TypesInv
      <4> QED BY <3>2, <3>3, <4>1 DEF Fragments
    <3>5. \A j \in 1..Len(delivered[c]) : delivered[c][j].id # requests[q].id
      BY <3>1, <3>2 DEF NothingFor
    <3>6. ASSUME NEW j \in 1..Len(delivered'[c]), delivered'[c][j].id = requests[q].id
          PROVE  i = j
      <4>1. CASE j \in 1..Len(delivered[c]) /\ delivered'[c][j] = delivered[c][j]
        BY <3>5, <3>6, <4>1
      <4>2. CASE j = Len(delivered[c]) + 1
        BY <2>2, <4>2
      <4> QED BY <4>1, <4>2, AnsweredDeliveries
    <3> QED BY <3>1, <3>4, <3>6
  <2> QED BY <2>1, <2>2, AnsweredDeliveries
<1>9. \A c \in Client : DOMAIN delivered'[c] = 1..Len(delivered'[c])
  BY AnsweredTypes DEF TypesInv
<1>10. \A c, id : Fragments(c, id)' = Fragments(c, id)
  BY <1>1 DEF Fragments
<1>11. OwnAnswer'
  BY <1>1, <1>8, <1>9, <1>10 DEF OwnAnswer, Plain
<1> QED BY <1>7, <1>11

\* Every step keeps what is known of the answers
LEMMA HistoryStep ==
  ASSUME OrderInv, HistoryInv, [TrafficNext]_trafficVars, IdGivenOnce'
  PROVE  HistoryInv'
<1>1. ASSUME NEW f, NEW reaches, Sent(f, reaches)
      PROVE  HistoryInv'
  BY <1>1, SentAnswers, SentCollecting, SentDelivered, SentOwnAnswer DEF HistoryInv
<1>2. CASE DeviceCommandReady
  <2>1. Calm
    BY <1>2, ReadyIs DEF OrderInv
  <2>2. PICK b : Answered(b)
    BY <1>2, ReadyIs DEF OrderInv
  <2>3. AnswersInv'
    BY <2>1, <2>2, AnsweredAnswers
  <2>4. CollectingInv'
    BY <2>1, <2>2, AnsweredCollecting
  <2>5. DeliveredInv' /\ OwnAnswer'
    BY <2>1, <2>2, AnsweredDelivered
  <2> QED BY <2>3, <2>4, <2>5 DEF HistoryInv
<1>3. CASE RequestTimedOut
  BY <1>3, TimedOutIs, QuietHistory DEF OrderInv
<1>4. CASE DeviceCloses
  BY <1>4, ClosesIs, QuietHistory DEF OrderInv
<1>5. CASE DeviceReopens
  BY <1>5, ReopensIs, QuietHistory DEF OrderInv
<1>6. CASE UNCHANGED forwardingVars
  <2>1. Calm
    BY <1>6 DEF OrderInv, forwardingVars, Calm, TypesInv
  <2>2. delivered' = delivered /\ open' = open /\ collecting' = collecting
    BY <1>6 DEF forwardingVars
  <2> QED BY <2>1, <2>2, QuietHistory DEF OrderInv
<1> QED BY <1>1, <1>2, <1>3, <1>4, <1>5, <1>6, ForwardingCases DEF OrderInv

LEMMA ForwardingInvariant == TrafficSpec => []ForwardingIInv
<1>1. TrafficInit => ForwardingIInv
  BY OrderInit DEF ForwardingIInv
<1>2. ForwardingIInv /\ [TrafficNext]_trafficVars => ForwardingIInv'
  <2> SUFFICES ASSUME ForwardingIInv, [TrafficNext]_trafficVars
               PROVE  OrderInv' /\ (IdGivenOnce' => HistoryInv')
    BY DEF ForwardingIInv
  <2>1. OrderInv'
    BY OrderStep DEF ForwardingIInv
  <2>2. IdGivenOnce' => HistoryInv'
    BY GivenOnceBefore, HistoryStep DEF ForwardingIInv, OrderInv
  <2> QED BY <2>1, <2>2
<1> QED BY <1>1, <1>2, PTL DEF TrafficSpec

(* An answer of the modem reaches the client that sent the command, under the *)
(* id it gave it, and once, as long as the proxy gave no transaction id again *)
(* after the message that took it.                                            *)
THEOREM OwnAnswerHolds == TrafficSpec => [](IdGivenOnce => OwnAnswer)
<1>1. ForwardingIInv => (IdGivenOnce => OwnAnswer)
  BY DEF ForwardingIInv, HistoryInv
<1> QED BY <1>1, ForwardingInvariant, PTL

-----------------------------------------------------------------------------
(***************************************************************************)
(* No id is given again before the counter has come round.                 *)

\* The id that follows id after d messages
Later(id, d) == IF id + d <= MaxId THEN id + d ELSE id + d - MaxId

\* As long as the counter cannot have come round, it shows how many messages
\* at least, and at most, were sent
CountInv ==
  \A s \in 1..Len(requests) : IsLast(s) =>
    /\ \A r \in s + 1..Len(requests) : r - s < MaxId => \E d \in 1..r - s : ids[r] = Later(ids[s], d)
    /\ Len(requests) + 1 - s < MaxId => \E d \in 1..Len(requests) + 1 - s : transaction_id = Later(ids[s], d)

LEMMA LaterIsNext ==
  ASSUME NEW id \in Id, NEW d \in Nat, d + 1 < MaxId
  PROVE  NextId(Later(id, d)) = Later(id, d + 1) /\ Later(id, 0) = id
BY ForwardingAssumption DEF Id, NextId, Later

\* From a message that ended on, each request moves the id by at most one
LEMMA CountStep ==
  ASSUME TypesInv, TableInv, CountInv, [TrafficNext]_trafficVars
  PROVE  CountInv'
<1>1. CASE Calm
  BY <1>1 DEF Calm, CountInv, IsLast
<1>2. ASSUME NEW f, NEW reaches, Sent(f, reaches)
      PROVE  CountInv'
  <2>1. PICK n : n = Len(requests)
    OBVIOUS
  <2>2. /\ n \in Nat /\ Len(requests') = n + 1 /\ ids'[n + 1] = transaction_id
        /\ \A r \in 1..n : ids'[r] = ids[r]
        /\ \A r \in 1..n + 1 : r \in 1..n \/ r = n + 1
        /\ transaction_id' = (IF f.current = f.total - 1 THEN NextId(transaction_id) ELSE transaction_id)
    BY <1>2, <2>1, SentAppends
  <2>3. /\ \A r \in 1..n : IsLast(r)' <=> IsLast(r)
        /\ IsLast(n + 1)' <=> f.current = f.total - 1
    BY <1>2, <2>1, UnfinishedAfter
  <2>4. transaction_id \in Id /\ MaxId \in Nat /\ \A r \in 1..n : ids[r] \in Id
    BY <2>1, ForwardingAssumption DEF TypesInv
  <2>5. ASSUME NEW s \in 1..n, IsLast(s)
        PROVE  /\ \A r \in s + 1..n : r - s < MaxId => \E d \in 1..r - s : ids[r] = Later(ids[s], d)
               /\ n + 1 - s < MaxId => \E d \in 1..n + 1 - s : transaction_id = Later(ids[s], d)
    BY <2>1, <2>5 DEF CountInv
  <2>6. ASSUME NEW s \in 1..n + 1, IsLast(s)', NEW r \in s + 1..n + 1, r - s < MaxId
        PROVE  \E d \in 1..r - s : ids'[r] = Later(ids'[s], d)
    <3>1. s \in 1..n /\ IsLast(s) /\ ids'[s] = ids[s]
      BY <2>2, <2>3, <2>6
    <3>2. CASE r \in s + 1..n
      <4>1. ids'[r] = ids[r]
        BY <2>2, <3>1, <3>2
      <4> QED BY <2>5, <2>6, <3>1, <3>2, <4>1
    <3>3. CASE r = n + 1
      BY <2>2, <2>5, <2>6, <3>1, <3>3
    <3>4. r \in s + 1..n \/ r = n + 1
      BY <2>2, <3>1
    <3> QED BY <3>2, <3>3, <3>4
  <2>7. ASSUME NEW s \in 1..n + 1, IsLast(s)', n + 2 - s < MaxId
        PROVE  \E d \in 1..n + 2 - s : transaction_id' = Later(ids'[s], d)
    <3>1. CASE s = n + 1
      <4>1. transaction_id' = NextId(transaction_id) /\ ids'[s] = transaction_id
        BY <2>2, <2>3, <2>7, <3>1
      <4>2. n + 2 - s = 1
        BY <2>2, <3>1
      <4>3. NextId(Later(transaction_id, 0)) = Later(transaction_id, 1) /\ Later(transaction_id, 0) = transaction_id
        BY <2>4, <2>7, <4>2, LaterIsNext
      <4> QED BY <4>1, <4>2, <4>3
    <3>2. CASE s \in 1..n
      <4>1. IsLast(s) /\ ids'[s] = ids[s] /\ ids[s] \in Id /\ n + 1 - s < MaxId
        BY <2>2, <2>3, <2>4, <2>7, <3>2
      <4>2. PICK d \in 1..n + 1 - s : transaction_id = Later(ids[s], d)
        BY <2>5, <3>2, <4>1
      <4>3. d \in 1..n + 2 - s /\ d + 1 \in 1..n + 2 - s /\ d \in Nat /\ d + 1 < MaxId
        BY <2>2, <2>4, <2>7, <3>2
      <4>4. NextId(Later(ids[s], d)) = Later(ids[s], d + 1)
        BY <4>1, <4>3, LaterIsNext
      <4>5. transaction_id' = Later(ids[s], d + 1) \/ transaction_id' = Later(ids[s], d)
        BY <2>2, <4>2, <4>4
      <4> QED BY <4>1, <4>3, <4>5
    <3> QED BY <2>2, <3>1, <3>2
  <2>8. n + 1 + 1 = n + 2
    BY <2>2
  <2>9. PICK m : m = n + 1
    OBVIOUS
  <2>10. ASSUME NEW s \in 1..m, IsLast(s)'
         PROVE  /\ \A r \in s + 1..m : r - s < MaxId => \E d \in 1..r - s : ids'[r] = Later(ids'[s], d)
                /\ m + 1 - s < MaxId => \E d \in 1..m + 1 - s : transaction_id' = Later(ids'[s], d)
    <3>1. s \in 1..n + 1 /\ m + 1 - s = n + 2 - s
      BY <2>2, <2>9
    <3>2. \A r \in s + 1..m : r - s < MaxId => \E d \in 1..r - s : ids'[r] = Later(ids'[s], d)
      BY <2>6, <2>9, <2>10, <3>1
    <3>3. m + 1 - s < MaxId => \E d \in 1..m + 1 - s : transaction_id' = Later(ids'[s], d)
      BY <2>7, <2>10, <3>1
    <3> QED BY <3>2, <3>3
  <2>11. Len(requests') = m
    BY <2>2, <2>9
  <2> QED BY <2>10, <2>11 DEF CountInv
<1> QED BY <1>1, <1>2, SentOrCalm

\* Fewer messages than ids do not bring the counter round
LEMMA CountGivesOnce ==
  ASSUME TypesInv, CountInv, Len(requests) <= MaxId
  PROVE  IdGivenOnce
<1> SUFFICES ASSUME NEW s \in 1..Len(requests), NEW r \in 1..Len(requests), s < r, IsLast(s)
             PROVE  ids[s] # ids[r]
  BY DEF IdGivenOnce
<1>1. Len(requests) \in Nat /\ MaxId \in Nat /\ ids[s] \in Id
  BY ForwardingAssumption DEF TypesInv
<1>2. r \in s + 1..Len(requests) /\ r - s < MaxId
  BY <1>1
<1>3. PICK d \in 1..r - s : ids[r] = Later(ids[s], d)
  BY <1>2 DEF CountInv
<1>4. d \in 1..MaxId - 1
  BY <1>1, <1>2
<1> QED BY <1>1, <1>3, <1>4 DEF Later, Id

(* The id of a command in flight is not given to another one, and an answer   *)
(* is delivered to its client alone, until the proxy has sent the device as   *)
(* many messages as there are ids.                                            *)
THEOREM OwnAnswerBeforeWrap == TrafficSpec => [](Len(requests) <= MaxId => OwnAnswer)
<1>1. TrafficInit => CountInv
  BY DEF TrafficInit, ForwardingInit, CountInv
<1>2. TrafficSpec => []CountInv
  BY <1>1, CountStep, TypesInvariant, PTL DEF TrafficSpec
<1>3. (TypesInv /\ TableInv) /\ CountInv /\ (IdGivenOnce => OwnAnswer) => (Len(requests) <= MaxId => OwnAnswer)
  BY CountGivesOnce
<1> QED BY <1>2, <1>3, TypesInvariant, OwnAnswerHolds, PTL
=============================================================================
