--------------------------- MODULE MbimLinksProofs ---------------------------
(* Proofs about MbimLinks, for every number of calls, of session ids and of   *)
(* links that other processes add and delete.                                 *)
(*                                                                            *)
(* The functions of the code are operators from a state to the next, so the   *)
(* invariant is one, StateInv, on such states: each function is shown to keep *)
(* it, and an action only has to say which of them it goes through.           *)
EXTENDS MbimLinks, FiniteSetTheorems, WellFoundedInduction, SequenceTheorems, TLAPS

(* Types                                                                      *)
Op == {"add", "del", "del_all"}
CallRecord == [op : Op, cancelled : BOOLEAN, result : Results \cup {"pending"},
               todo : Seq(Link), verdicts : Seq(BOOLEAN),
               listed : SUBSET Link, removed : SUBSET Link]
Table == UNION {[D -> Call \cup {NoTask}] : D \in SUBSET Nat}
LinksState == [links : {l \in SUBSET Link : IsFiniteSet(l)}, sequence_id : Nat,
               transactions : Table, acks : Seq([id : Nat, ok : BOOLEAN]),
               calls : [Call -> CallRecord \cup {Unused}],
               idle : Seq([call : Call, result : Results])]

(* Ids are given in order: an acknowledgement that comes late finds its own   *)
(* transaction or none.                                                       *)
Numbered(s) == /\ \A id \in DOMAIN s.transactions : id <= s.sequence_id
               /\ \A i \in DOMAIN s.acks : s.acks[i].id <= s.sequence_id

(* The tasks that wait are different ones, and are those of the calls that    *)
(* have not returned, but of the one, if any, that is at work.                *)
InTable(s, c) == \E id \in DOMAIN s.transactions : s.transactions[id] = c
InIdle(s, c) == \E i \in DOMAIN s.idle : s.idle[i].call = c
IsPending(s, c) == s.calls[c].op # "none" /\ s.calls[c].result = "pending"
Apart(s) ==
  /\ \A p, q \in DOMAIN s.transactions :
       s.transactions[p] = s.transactions[q] /\ s.transactions[p] # NoTask => p = q
  /\ \A i, j \in DOMAIN s.idle : s.idle[i].call = s.idle[j].call => i = j
  /\ \A c \in Call : ~(InTable(s, c) /\ InIdle(s, c))
Waiting(s, working) ==
  \A c \in Call : InTable(s, c) \/ InIdle(s, c) <=> IsPending(s, c) /\ c \notin working

(* What has to be so when a task is returned with a result: the kernel said   *)
(* it to this call, and a link that was to be deleted is.                     *)
Due(call, result) ==
  /\ result = "ok" /\ call.op # "del_all" => call.verdicts = << TRUE >>
  /\ result = "refused" => Last(call.verdicts) = FALSE
  /\ result = "ok" /\ call.op = "del_all" => call.todo = << >> \/ call.todo[1] \in call.removed
IdleDue(s) == \A i \in DOMAIN s.idle : Due(s.calls[s.idle[i].call], s.idle[i].result)
AcksDue(s) ==
  \A i \in DOMAIN s.acks :
    LET id == s.acks[i].id
    IN id \in DOMAIN s.transactions /\ s.transactions[id] # NoTask
       => Due(s.calls[s.transactions[id]], IF s.acks[i].ok THEN "ok" ELSE "refused")

(* What has to be so of a call that has returned, and what of the list that   *)
(* mbim_device_delete_all_links() works off.                                  *)
Kept(call) ==
  /\ call.result = "ok" /\ call.op # "del_all" => call.verdicts = << TRUE >>
  /\ call.result = "refused" => Last(call.verdicts) = FALSE
  /\ call.result = "ok" /\ call.op = "del_all" => call.removed = call.listed
  /\ call.result = "pending" /\ call.op = "del_all"
       => call.listed = call.removed \cup Range(call.todo)
CallsKept(s) == \A c \in Call : s.calls[c].op # "none" => Kept(s.calls[c])

StateInv(s, working) == /\ s \in LinksState
                        /\ Numbered(s) /\ Apart(s) /\ Waiting(s, working)
                        /\ IdleDue(s) /\ AcksDue(s) /\ CallsKept(s)
LinksIInv == driver \in {"wdm", "wwan"} /\ StateInv(State, {})

(* Only the record of the call c is touched, and what it is a call of stays.  *)
OnlyCall(s, t, c) == /\ \A d \in Call \ {c} : t.calls[d] = s.calls[d]
                     /\ t.calls[c].op = s.calls[c].op

-----------------------------------------------------------------------------
(* Sequences, and the least session id that is free                           *)

LEMMA Appended ==
  ASSUME NEW S, NEW list \in Seq(S), NEW e \in S
  PROVE  /\ Append(list, e) \in Seq(S)
         /\ DOMAIN Append(list, e) = DOMAIN list \cup {Len(list) + 1}
         /\ \A i \in DOMAIN list : Append(list, e)[i] = list[i] /\ i # Len(list) + 1
         /\ Append(list, e)[Len(list) + 1] = e
         /\ Len(list) + 1 \in Nat /\ Len(Append(list, e)) = Len(list) + 1
OBVIOUS

LEMMA Dropped ==
  ASSUME NEW S, NEW list \in Seq(S), list # << >>
  PROVE  /\ Head(list) \in S /\ Head(list) = list[1] /\ 1 \in DOMAIN list
         /\ Tail(list) \in Seq(S)
         /\ \A i \in DOMAIN Tail(list) :
              i + 1 \in DOMAIN list /\ i + 1 # 1 /\ Tail(list)[i] = list[i + 1] /\ i \in Nat
         /\ \A i \in DOMAIN list \ {1} : i - 1 \in DOMAIN Tail(list) /\ Tail(list)[i - 1] = list[i]
OBVIOUS

LEMMA Element ==
  ASSUME NEW S, NEW list \in Seq(S), NEW i \in DOMAIN list PROVE list[i] \in S
OBVIOUS

(* g_ptr_array_remove_index_fast() takes away the first and nothing else.     *)
LEMMA RemovedFirst ==
  ASSUME NEW S, NEW list \in Seq(S), list # << >>
  PROVE  /\ RemoveFirstFast(list) \in Seq(S)
         /\ Range(list) = {list[1]} \cup Range(RemoveFirstFast(list))
<1> DEFINE rest == RemoveFirstFast(list)
<1>1. CASE Len(list) <= 1
  BY <1>1 DEF RemoveFirstFast, Range
<1>2. CASE Len(list) > 1
  <2> DEFINE first == << list[Len(list)] >>
             middle == SubSeq(list, 2, Len(list) - 1)
  <2>1. first \in Seq(S) /\ Len(first) = 1 /\ first[1] = list[Len(list)]
    BY <1>2
  <2>2. /\ middle \in Seq(S) /\ Len(middle) = Len(list) - 2
        /\ \A i \in 1..(Len(list) - 2) : middle[i] = list[i + 1]
    <3>1. 2 \in Int /\ Len(list) - 1 \in Int /\ \A i \in 2..(Len(list) - 1) : list[i] \in S
      BY <1>2
    <3>2. /\ middle \in Seq(S)
          /\ Len(middle) = IF 2 <= Len(list) - 1 THEN (Len(list) - 1) - 2 + 1 ELSE 0
          /\ \A i \in 1..((Len(list) - 1) - 2 + 1) : middle[i] = list[2 + i - 1]
      BY <3>1, SubSeqProperties
    <3> HIDE DEF middle
    <3>3. Len(list) \in Nat
      OBVIOUS
    <3>4. Len(middle) = Len(list) - 2
      <4>1. Len(middle) = IF 2 <= Len(list) - 1 THEN (Len(list) - 1) - 2 + 1 ELSE 0
        BY <3>2
      <4>2. \A n \in Nat : n > 1 => (IF 2 <= n - 1 THEN (n - 1) - 2 + 1 ELSE 0) = n - 2
        OBVIOUS
      <4> QED BY <1>2, <3>3, <4>1, <4>2
    <3>5. ASSUME NEW i \in 1..(Len(list) - 2) PROVE middle[i] = list[i + 1]
      <4>1. i \in 1..((Len(list) - 1) - 2 + 1) /\ 2 + i - 1 = i + 1
        BY <3>3
      <4> QED BY <3>2, <4>1
    <3> QED BY <3>2, <3>4, <3>5
  <2>3. rest = first \o middle
    BY <1>2 DEF RemoveFirstFast, Last
  <2> HIDE DEF first, middle, rest
  <2>4. /\ rest \in Seq(S) /\ Len(rest) = Len(list) - 1
        /\ rest[1] = list[Len(list)]
        /\ \A i \in 2..(Len(list) - 1) : rest[i] = middle[i - 1]
    <3>1. /\ rest \in Seq(S) /\ Len(rest) = Len(first) + Len(middle)
          /\ \A i \in 1..(Len(first) + Len(middle)) :
               rest[i] = IF i <= Len(first) THEN first[i] ELSE middle[i - Len(first)]
      BY <2>1, <2>2, <2>3, ConcatProperties
    <3>2. Len(list) \in Nat
      OBVIOUS
    <3> QED BY <1>2, <2>1, <2>2, <3>1, <3>2
  <2>5. ASSUME NEW i \in 2..(Len(list) - 1) PROVE rest[i] = list[i]
    <3>1. i - 1 \in 1..(Len(list) - 2) /\ (i - 1) + 1 = i
      BY <1>2
    <3>2. middle[i - 1] = list[(i - 1) + 1]
      BY <2>2, <3>1
    <3> QED BY <2>4, <3>1, <3>2
  <2>6. DOMAIN list = 1..Len(list) /\ DOMAIN rest = 1..(Len(list) - 1)
    BY <2>4
  <2>7. ASSUME NEW i \in DOMAIN list PROVE list[i] \in {list[1]} \cup Range(rest)
    <3>1. CASE i = 1
      BY <3>1
    <3>2. CASE i = Len(list)
      BY <1>2, <2>4, <2>6, <3>2 DEF Range
    <3>3. CASE i \in 2..(Len(list) - 1)
      BY <2>5, <2>6, <3>3 DEF Range
    <3> QED BY <2>6, <3>1, <3>2, <3>3
  <2>8. ASSUME NEW i \in DOMAIN rest PROVE rest[i] \in Range(list)
    <3>1. CASE i = 1
      BY <1>2, <2>4, <2>6, <3>1 DEF Range
    <3>2. CASE i \in 2..(Len(list) - 1)
      BY <2>5, <2>6, <3>2 DEF Range
    <3> QED BY <2>6, <3>1, <3>2
  <2>9. list[1] \in Range(list)
    BY <1>2, <2>6 DEF Range
  <2>10. Range(list) = {list[1]} \cup Range(rest)
    BY <2>7, <2>8, <2>9 DEF Range
  <2> QED BY <2>4, <2>10 DEF rest
<1> QED BY <1>1, <1>2

LEMMA FirstFreeIsFree ==
  ASSUME NEW prefix, FreeSessions(prefix) # {}
  PROVE  FirstFree(prefix) \in FreeSessions(prefix)
<1> DEFINE Free == FreeSessions(prefix)
           Below == {1..i : i \in Free}
           Less == StrictSubsetOrdering(Nat)
<1>1. Free \subseteq Nat \ {0}
  BY LinksAssumption DEF FreeSessions
<1>2. Below \subseteq FiniteSubsetsOf(Nat) /\ Below # {}
  <2>1. ASSUME NEW i \in Free PROVE 1..i \in FiniteSubsetsOf(Nat)
    BY <1>1, FS_Interval, 1..i \in SUBSET Nat, i \in Int, 1 \in Int DEF FiniteSubsetsOf
  <2> QED BY <2>1
<1>3. PICK low \in Below : \A set \in Below : <<set, low>> \notin Less
  <2> HIDE DEF Below, Less
  <2> QED BY <1>2, FS_StrictSubsetOrderingWellFounded, WFMin DEF Less
<1>4. PICK i \in Free : low = 1..i
  OBVIOUS
<1>5. ASSUME NEW j \in Free PROVE i <= j
  <2> SUFFICES ASSUME j < i PROVE FALSE
    BY <1>1
  <2>1. 1..j \subseteq 1..i /\ 1..j # 1..i
    <3>1. i \in 1..i /\ i \notin 1..j
      BY <1>1
    <3> QED BY <1>1, <3>1
  <2>2. <<1..j, 1..i>> \in Less
    BY <1>1, <2>1 DEF StrictSubsetOrdering
  <2> QED BY <1>3, <1>4, <2>2
<1> QED BY <1>5 DEF FirstFree

-----------------------------------------------------------------------------
(* What the parts of a state are                                              *)

LEMMA TaskType ==
  ASSUME NEW s \in LinksState, NEW i \in DOMAIN s.idle
  PROVE  s.idle[i].call \in Call /\ s.idle[i].result \in Results
<1>1. s.idle \in Seq([call : Call, result : Results])
  BY DEF LinksState
<1>2. s.idle[i] \in [call : Call, result : Results]
  BY <1>1, Element
<1> QED BY <1>2

LEMMA AckType ==
  ASSUME NEW s \in LinksState, NEW i \in DOMAIN s.acks
  PROVE  s.acks[i].id \in Nat /\ s.acks[i].ok \in BOOLEAN
<1>1. s.acks \in Seq([id : Nat, ok : BOOLEAN])
  BY DEF LinksState
<1>2. s.acks[i] \in [id : Nat, ok : BOOLEAN]
  BY <1>1, Element
<1> QED BY <1>2

LEMMA TransactionType ==
  ASSUME NEW s \in LinksState
  PROVE  /\ s.sequence_id \in Nat /\ s.sequence_id + 1 \in Nat
         /\ DOMAIN s.transactions \in SUBSET Nat
         /\ \A q \in DOMAIN s.transactions : s.transactions[q] \in Call \cup {NoTask}
<1>1. s.transactions \in Table /\ s.sequence_id \in Nat
  BY DEF LinksState
<1>2. PICK D \in SUBSET Nat : s.transactions \in [D -> Call \cup {NoTask}]
  BY <1>1 DEF Table
<1>3. s.sequence_id + 1 \in Nat
  BY <1>1
<1>4. DOMAIN s.transactions = D /\ \A q \in D : s.transactions[q] \in Call \cup {NoTask}
  BY <1>2
<1> QED BY <1>1, <1>3, <1>4

LEMMA CallType ==
  ASSUME NEW s \in LinksState, NEW c \in Call, s.calls[c].op # "none"
  PROVE  s.calls[c] \in CallRecord
BY DEF LinksState, Unused

-----------------------------------------------------------------------------
(* The functions of the code keep the invariant                               *)

LEMMA ReturnLaterKeeps ==
  ASSUME NEW s, NEW c \in Call, StateInv(s, {c}), IsPending(s, c),
         NEW result \in Results, Due(s.calls[c], result)
  PROVE  /\ StateInv(ReturnLater(s, c, result), {})
         /\ ReturnLater(s, c, result).calls = s.calls
<1> DEFINE t == ReturnLater(s, c, result)
           task == [call |-> c, result |-> result]
<1>1. s \in LinksState
  BY DEF StateInv
<1>2. /\ t.links = s.links /\ t.sequence_id = s.sequence_id /\ t.transactions = s.transactions
      /\ t.acks = s.acks /\ t.calls = s.calls /\ t.idle = Append(s.idle, task)
  BY <1>1 DEF ReturnLater, LinksState
<1>3. s.idle \in Seq([call : Call, result : Results]) /\ task \in [call : Call, result : Results]
  BY <1>1 DEF LinksState
<1>4. /\ t.idle \in Seq([call : Call, result : Results])
      /\ DOMAIN t.idle = DOMAIN s.idle \cup {Len(s.idle) + 1}
      /\ \A i \in DOMAIN s.idle : t.idle[i] = s.idle[i] /\ i # Len(s.idle) + 1
      /\ t.idle[Len(s.idle) + 1] = task
  BY <1>2, <1>3, Appended
<1>5. t \in LinksState
  BY <1>1, <1>4 DEF ReturnLater, LinksState
<1>6. ~InTable(s, c) /\ ~InIdle(s, c)
  BY DEF StateInv, Waiting
<1>7. \A d \in Call : /\ InTable(t, d) <=> InTable(s, d)
                      /\ InIdle(t, d) <=> InIdle(s, d) \/ d = c
                      /\ IsPending(t, d) <=> IsPending(s, d)
  BY <1>2, <1>4 DEF InTable, InIdle, IsPending
<1> HIDE DEF t
<1>8. Numbered(t)
  BY <1>2 DEF StateInv, Numbered
<1>9. Apart(t)
  <2>1. ASSUME NEW i \in DOMAIN t.idle, NEW j \in DOMAIN t.idle, t.idle[i].call = t.idle[j].call
        PROVE  i = j
    BY <1>4, <1>6, <2>1 DEF StateInv, Apart, InIdle
  <2> QED BY <1>2, <1>6, <1>7, <2>1 DEF StateInv, Apart
<1>10. Waiting(t, {})
  BY <1>6, <1>7 DEF StateInv, Waiting
<1>11. IdleDue(t)
  BY <1>2, <1>4 DEF StateInv, IdleDue
<1>12. AcksDue(t) /\ CallsKept(t)
  BY <1>2 DEF StateInv, AcksDue, CallsKept
<1> QED BY <1>2, <1>5, <1>8, <1>9, <1>10, <1>11, <1>12 DEF StateInv, t

LEMMA TransactionNewType ==
  ASSUME NEW s \in LinksState, NEW c \in Call
  PROVE  LET t == TransactionNew(s, c)
             id == s.sequence_id + 1
         IN /\ t \in LinksState
            /\ t.links = s.links /\ t.sequence_id = id
            /\ t.transactions = [q \in DOMAIN s.transactions \cup {id} |->
                                   IF q = id THEN c ELSE s.transactions[q]]
            /\ t.acks = s.acks /\ t.calls = s.calls /\ t.idle = s.idle
<1> DEFINE t == TransactionNew(s, c)
           id == s.sequence_id + 1
<1>1. /\ t.links = s.links /\ t.sequence_id = id
      /\ t.transactions = [q \in DOMAIN s.transactions \cup {id} |->
                             IF q = id THEN c ELSE s.transactions[q]]
      /\ t.acks = s.acks /\ t.calls = s.calls /\ t.idle = s.idle
  BY DEF TransactionNew, LinksState
<1>2. t.transactions \in Table
  <2> DEFINE D == DOMAIN s.transactions \cup {id}
  <2>1. D \in SUBSET Nat
    BY TransactionType
  <2>2. t.transactions \in [D -> Call \cup {NoTask}]
    BY <1>1, TransactionType
  <2> QED BY <2>1, <2>2 DEF Table
<1>3. t \in LinksState
  BY <1>1, <1>2, TransactionType DEF TransactionNew, LinksState
<1> QED BY <1>1, <1>3

(* From s to t a request of the call c was sent, and the kernel answered.     *)
IsSent(s, t, c, ok) ==
  LET id == s.sequence_id + 1
  IN /\ t \in LinksState
     /\ t.sequence_id = id
     /\ t.transactions = [q \in DOMAIN s.transactions \cup {id} |->
                            IF q = id THEN c ELSE s.transactions[q]]
     /\ t.acks = Append(s.acks, [id |-> id, ok |-> ok])
     /\ t.idle = s.idle
     /\ OnlyCall(s, t, c)

LEMMA SentKeeps ==
  ASSUME NEW s, NEW t, NEW c \in Call, NEW ok \in BOOLEAN,
         StateInv(s, {c}), IsPending(s, c), IsSent(s, t, c, ok),
         t.calls[c].result = "pending", Kept(t.calls[c]),
         Due(t.calls[c], IF ok THEN "ok" ELSE "refused")
  PROVE  StateInv(t, {})
<1> DEFINE id == s.sequence_id + 1
           ack == [id |-> id, ok |-> ok]
<1>1. s \in LinksState /\ t \in LinksState /\ id \in Nat
  BY TransactionType DEF StateInv, IsSent
<1>2. /\ t.sequence_id = id /\ t.idle = s.idle
      /\ t.transactions = [q \in DOMAIN s.transactions \cup {id} |->
                             IF q = id THEN c ELSE s.transactions[q]]
      /\ t.acks = Append(s.acks, ack)
  BY DEF IsSent
<1>3. s.acks \in Seq([id : Nat, ok : BOOLEAN]) /\ ack \in [id : Nat, ok : BOOLEAN]
  BY <1>1 DEF LinksState
<1>4. /\ DOMAIN t.acks = DOMAIN s.acks \cup {Len(s.acks) + 1}
      /\ \A i \in DOMAIN s.acks : t.acks[i] = s.acks[i] /\ i # Len(s.acks) + 1
      /\ t.acks[Len(s.acks) + 1] = ack
  BY <1>2, <1>3, Appended
<1>5. t.calls[c].op = s.calls[c].op /\ \A d \in Call \ {c} : t.calls[d] = s.calls[d]
  BY DEF IsSent, OnlyCall
<1>6. /\ DOMAIN s.transactions \in SUBSET Nat
      /\ \A q \in DOMAIN s.transactions : s.transactions[q] \in Call \cup {NoTask}
  BY <1>1, TransactionType
<1>9. id \notin DOMAIN s.transactions /\ \A i \in DOMAIN s.acks : s.acks[i].id # id
  <2>1. \A i \in DOMAIN s.acks : s.acks[i].id \in Nat
    BY <1>1, AckType
  <2> QED BY <1>1, <1>6, <2>1 DEF StateInv, Numbered, LinksState
<1>10. ~InTable(s, c) /\ ~InIdle(s, c)
  BY DEF StateInv, Waiting
<1>11. c # NoTask
  BY LinksAssumption DEF NoTask
<1>12. \A q \in DOMAIN s.transactions :
         q # id /\ t.transactions[q] = s.transactions[q] /\ s.transactions[q] # c
  BY <1>2, <1>9, <1>10 DEF InTable
<1>13. t.transactions[id] = c /\ DOMAIN t.transactions = DOMAIN s.transactions \cup {id}
  BY <1>2
<1>14. \A d \in Call : /\ InTable(t, d) <=> InTable(s, d) \/ d = c
                       /\ InIdle(t, d) <=> InIdle(s, d)
                       /\ IsPending(t, d) <=> IsPending(s, d)
  <2>1. \A d \in Call : InTable(t, d) <=> InTable(s, d) \/ d = c
    BY <1>12, <1>13 DEF InTable
  <2> QED BY <1>2, <1>5, <2>1 DEF InIdle, IsPending
<1>15. Numbered(t)
  <2>1. \A q \in DOMAIN s.transactions : q \in Nat /\ q <= s.sequence_id
    BY <1>6 DEF StateInv, Numbered
  <2>2. \A i \in DOMAIN s.acks : s.acks[i].id \in Nat /\ s.acks[i].id <= s.sequence_id
    BY <1>1, AckType DEF StateInv, Numbered
  <2>3. s.sequence_id \in Nat
    BY <1>1 DEF LinksState
  <2>4. \A q \in DOMAIN t.transactions : q <= id
    BY <1>13, <2>1, <2>3
  <2>5. \A i \in DOMAIN t.acks : t.acks[i].id <= id
    BY <1>4, <2>2, <2>3
  <2> QED BY <1>2, <2>4, <2>5 DEF Numbered
<1>16. Apart(t)
  <2>1. ASSUME NEW p \in DOMAIN t.transactions, NEW q \in DOMAIN t.transactions,
               t.transactions[p] = t.transactions[q], t.transactions[p] # NoTask
        PROVE  p = q
    BY <1>12, <1>13, <2>1 DEF StateInv, Apart
  <2>2. \A i, j \in DOMAIN t.idle : t.idle[i].call = t.idle[j].call => i = j
    BY <1>2 DEF StateInv, Apart
  <2>3. \A d \in Call : ~(InTable(t, d) /\ InIdle(t, d))
    BY <1>10, <1>14 DEF StateInv, Apart
  <2> QED BY <2>1, <2>2, <2>3 DEF Apart
<1>17. Waiting(t, {})
  BY <1>10, <1>14 DEF StateInv, Waiting
<1>18. IdleDue(t)
  <2>1. \A i \in DOMAIN s.idle : s.idle[i].call \in Call /\ s.idle[i].call # c
    BY <1>1, <1>10, TaskType DEF InIdle
  <2> QED BY <1>2, <1>5, <2>1 DEF StateInv, IdleDue
<1>19. AcksDue(t)
  <2> SUFFICES ASSUME NEW i \in DOMAIN t.acks, t.acks[i].id \in DOMAIN t.transactions,
                      t.transactions[t.acks[i].id] # NoTask
               PROVE  Due(t.calls[t.transactions[t.acks[i].id]],
                          IF t.acks[i].ok THEN "ok" ELSE "refused")
    BY DEF AcksDue
  <2>1. CASE i = Len(s.acks) + 1
    BY <1>4, <1>5, <1>13, <2>1
  <2>2. CASE i \in DOMAIN s.acks
    <3>1. t.acks[i] = s.acks[i] /\ s.acks[i].id \in DOMAIN s.transactions
      BY <1>4, <1>9, <1>13, <2>2
    <3>2. t.transactions[s.acks[i].id] = s.transactions[s.acks[i].id]
          /\ s.transactions[s.acks[i].id] \in Call \ {c}
      BY <1>6, <1>12, <3>1
    <3>3. Due(s.calls[s.transactions[s.acks[i].id]], IF s.acks[i].ok THEN "ok" ELSE "refused")
      BY <2>2, <3>1, <3>2 DEF StateInv, AcksDue
    <3> QED BY <1>5, <3>1, <3>2, <3>3
  <2> QED BY <1>4, <2>1, <2>2
<1>20. CallsKept(t)
  BY <1>5 DEF StateInv, CallsKept
<1> QED BY <1>1, <1>15, <1>16, <1>17, <1>18, <1>19, <1>20 DEF StateInv

LEMMA FailedToSend ==
  ASSUME NEW s, NEW c \in Call, StateInv(s, {c}), IsPending(s, c)
  PROVE  LET t == Unsent(s, c)
         IN StateInv(t, {}) /\ t.calls = s.calls
<1> DEFINE new == TransactionNew(s, c)
           u == [new EXCEPT !.transactions = Without(@, new.sequence_id)]
           id == s.sequence_id + 1
<1>1. s \in LinksState
  BY DEF StateInv
<1>2. /\ new \in LinksState /\ new.links = s.links /\ new.sequence_id = id
      /\ new.transactions = [q \in DOMAIN s.transactions \cup {id} |->
                               IF q = id THEN c ELSE s.transactions[q]]
      /\ new.acks = s.acks /\ new.calls = s.calls /\ new.idle = s.idle
  BY <1>1, TransactionNewType
<1>3. /\ s.sequence_id \in Nat
      /\ DOMAIN s.transactions \in SUBSET Nat
      /\ \A q \in DOMAIN s.transactions : s.transactions[q] \in Call \cup {NoTask}
  BY <1>1, TransactionType
<1>4. s.transactions \in Table
  BY <1>1 DEF LinksState
<1> HIDE DEF new
<1>5. Without(new.transactions, id) = s.transactions
  <2>1. \A q \in DOMAIN s.transactions : q \in Nat /\ q <= s.sequence_id
    BY <1>3 DEF StateInv, Numbered
  <2>2. id \notin DOMAIN s.transactions
    BY <1>3, <2>1
  <2>3. s.transactions = [q \in DOMAIN s.transactions |-> s.transactions[q]]
    BY <1>4 DEF Table
  <2> HIDE DEF id
  <2> QED BY <1>2, <2>2, <2>3 DEF Without
<1>6. /\ u \in LinksState /\ u.transactions = s.transactions /\ u.sequence_id = id
      /\ u.acks = s.acks /\ u.calls = s.calls /\ u.idle = s.idle
  BY <1>2, <1>4, <1>5 DEF LinksState
<1> HIDE DEF u
<1>7. StateInv(u, {c}) /\ IsPending(u, c)
  <2>1. Numbered(u)
    <3>1. \A q \in DOMAIN s.transactions : q \in Nat /\ q <= s.sequence_id
      BY <1>3 DEF StateInv, Numbered
    <3>2. \A i \in DOMAIN s.acks : s.acks[i].id \in Nat /\ s.acks[i].id <= s.sequence_id
      BY <1>1, AckType DEF StateInv, Numbered
    <3> QED BY <1>3, <1>6, <3>1, <3>2 DEF Numbered
  <2> QED BY <1>6, <2>1
          DEF StateInv, Apart, Waiting, IdleDue, AcksDue, CallsKept, InTable, InIdle, IsPending
<1>8. Due(u.calls[c], "failed") /\ "failed" \in Results
  BY DEF Due, Results
<1> QED BY <1>2, <1>6, <1>7, <1>8, ReturnLaterKeeps DEF Unsent, u, new

(* What a request that was sent has done.                                     *)
LEMMA Requested ==
  ASSUME NEW s \in LinksState, NEW c \in Call, s.calls[c].op # "none",
         NEW ok \in BOOLEAN, NEW changed \in SUBSET Link, IsFiniteSet(changed)
  PROVE  LET t == Sent(s, c, ok, changed)
         IN /\ IsSent(s, t, c, ok)
            /\ t.calls[c] \in CallRecord /\ t.calls[c].result = s.calls[c].result
            /\ t.calls[c].todo = s.calls[c].todo
            /\ t.calls[c].listed = s.calls[c].listed /\ t.calls[c].removed = s.calls[c].removed
            /\ ok => t.calls[c].verdicts = Append(s.calls[c].verdicts, TRUE)
            /\ ~ok => t.calls[c].verdicts = Append(s.calls[c].verdicts, FALSE)
<1> DEFINE t == Sent(s, c, ok, changed)
           new == TransactionNew(s, c)
           id == s.sequence_id + 1
           ack == [id |-> id, ok |-> ok]
           call == [s.calls[c] EXCEPT !.verdicts = Append(@, ok)]
           left == IF ok THEN changed ELSE s.links
<1>1. /\ new \in LinksState /\ new.links = s.links /\ new.sequence_id = id
      /\ new.transactions = [q \in DOMAIN s.transactions \cup {id} |->
                               IF q = id THEN c ELSE s.transactions[q]]
      /\ new.acks = s.acks /\ new.calls = s.calls /\ new.idle = s.idle
  BY TransactionNewType
<1>2. id \in Nat /\ ack \in [id : Nat, ok : BOOLEAN]
  BY TransactionType
<1>3. s.acks \in Seq([id : Nat, ok : BOOLEAN]) /\ s.links \in {l \in SUBSET Link : IsFiniteSet(l)}
      /\ s.calls \in [Call -> CallRecord \cup {Unused}]
  BY DEF LinksState
<1>4. s.calls[c] \in CallRecord
  BY CallType
<1>5. /\ call \in CallRecord /\ call.op = s.calls[c].op /\ call.result = s.calls[c].result
      /\ call.todo = s.calls[c].todo
      /\ call.listed = s.calls[c].listed /\ call.removed = s.calls[c].removed
      /\ ok => call.verdicts = Append(s.calls[c].verdicts, TRUE)
      /\ ~ok => call.verdicts = Append(s.calls[c].verdicts, FALSE)
  <2>1. s.calls[c].verdicts \in Seq(BOOLEAN)
    BY <1>4 DEF CallRecord
  <2>2. Append(s.calls[c].verdicts, ok) \in Seq(BOOLEAN)
    BY <2>1, Appended
  <2> QED BY <1>4, <2>2 DEF CallRecord
<1>6. Append(s.acks, ack) \in Seq([id : Nat, ok : BOOLEAN])
  BY <1>2, <1>3, Appended
<1> HIDE DEF new
<1>7. t = [new EXCEPT !.links = left, !.acks = Append(s.acks, ack),
                      !.calls = [s.calls EXCEPT ![c] = call]]
  BY <1>1 DEF Sent, new
<1>8. left \in {l \in SUBSET Link : IsFiniteSet(l)}
  BY <1>3
<1>9. [s.calls EXCEPT ![c] = call] \in [Call -> CallRecord \cup {Unused}]
  BY <1>3, <1>5
<1> HIDE DEF t, left, call
<1>10. t \in LinksState
  BY <1>1, <1>6, <1>7, <1>8, <1>9 DEF LinksState
<1>11. /\ t.sequence_id = id /\ t.idle = s.idle /\ t.transactions = new.transactions
       /\ t.acks = Append(s.acks, ack) /\ t.calls = [s.calls EXCEPT ![c] = call]
  BY <1>1, <1>7 DEF LinksState
<1>12. t.calls[c] = call /\ \A d \in Call \ {c} : t.calls[d] = s.calls[d]
  BY <1>3, <1>11
<1> QED BY <1>1, <1>5, <1>10, <1>11, <1>12 DEF IsSent, OnlyCall, t, call

LEMMA DelLinkKeeps ==
  ASSUME NEW s, NEW c \in Call, StateInv(s, {c}), IsPending(s, c),
         NEW link \in Link, NEW fate,
         s.calls[c].op = "del_all" => s.calls[c].todo # << >> /\ link = s.calls[c].todo[1],
         s.calls[c].op # "del_all" => s.calls[c].verdicts = << >>
  PROVE  LET t == DelLink(s, c, link, fate)
         IN StateInv(t, {}) /\ OnlyCall(s, t, c) /\ t.calls[c].result = "pending"
<1> DEFINE t == DelLink(s, c, link, fate)
           tried == Sent(s, c, TRUE, s.links \ {link})
<1>1. s \in LinksState
  BY DEF StateInv
<1>2. s.calls[c] \in CallRecord
  BY <1>1, CallType DEF IsPending
<1>3. Due(s.calls[c], "failed") /\ "failed" \in Results
  BY DEF Due, Results
<1>31. s.links \ {link} \in SUBSET Link /\ IsFiniteSet(s.links \ {link})
  BY <1>1, FS_RemoveElement DEF LinksState
<1>4. CASE link \notin s.links
  BY <1>3, <1>4, ReturnLaterKeeps DEF DelLink, OnlyCall, IsPending
<1>5. CASE link \in s.links /\ fate = "unsent"
  <2>1. t = Unsent(s, c)
    BY <1>5 DEF DelLink, Transact
  <2> HIDE DEF t
  <2>2. StateInv(t, {}) /\ t.calls = s.calls
    BY <2>1, FailedToSend
  <2> QED BY <2>2 DEF OnlyCall, IsPending, t
<1>6. CASE link \in s.links /\ fate \notin {"unsent", "granted"}
  <2>1. t = Sent(s, c, FALSE, s.links \ {link})
    BY <1>6 DEF DelLink, Transact
  <2> HIDE DEF t, tried
  <2>2. /\ IsSent(s, t, c, FALSE)
        /\ t.calls[c].result = "pending"
        /\ t.calls[c].todo = s.calls[c].todo
        /\ t.calls[c].listed = s.calls[c].listed /\ t.calls[c].removed = s.calls[c].removed
        /\ t.calls[c].verdicts = Append(s.calls[c].verdicts, FALSE)
    BY <1>1, <1>31, <2>1, Requested DEF IsPending
  <2>3. OnlyCall(s, t, c)
    BY <2>2 DEF IsSent
  <2>4. s.calls[c].verdicts \in Seq(BOOLEAN)
    BY <1>2 DEF CallRecord
  <2>5. Due(t.calls[c], "refused")
    BY <2>2, <2>4 DEF Due, Last
  <2>6. Kept(t.calls[c])
    BY <2>2, <2>3 DEF StateInv, CallsKept, Kept, IsPending, OnlyCall
  <2> QED BY <2>2, <2>3, <2>5, <2>6, SentKeeps DEF t
<1>7. CASE link \in s.links /\ fate = "granted"
  <2>1. t = [tried EXCEPT !.calls[c].removed = @ \cup {link}]
    BY <1>7 DEF DelLink, Transact
  <2>3. /\ IsSent(s, tried, c, TRUE)
        /\ tried.calls[c] \in CallRecord /\ tried.calls[c].result = s.calls[c].result
        /\ tried.calls[c].todo = s.calls[c].todo
        /\ tried.calls[c].listed = s.calls[c].listed
        /\ tried.calls[c].removed = s.calls[c].removed
        /\ tried.calls[c].verdicts = Append(s.calls[c].verdicts, TRUE)
    BY <1>1, <1>31, Requested DEF IsPending
  <2> HIDE DEF tried, t
  <2>4. tried \in LinksState /\ tried.calls \in [Call -> CallRecord \cup {Unused}]
    BY <2>3 DEF IsSent, LinksState
  <2> DEFINE call == [tried.calls[c] EXCEPT !.removed = @ \cup {link}]
  <2>5. call \in CallRecord
    BY <2>3 DEF CallRecord
  <2>6. /\ call.op = s.calls[c].op /\ call.result = "pending"
        /\ call.todo = s.calls[c].todo /\ call.listed = s.calls[c].listed
        /\ call.verdicts = Append(s.calls[c].verdicts, TRUE)
        /\ call.removed = s.calls[c].removed \cup {link}
    BY <1>2, <2>3 DEF CallRecord, IsPending, IsSent, OnlyCall
  <2> HIDE DEF call
  <2>7. [tried.calls EXCEPT ![c] = call] \in [Call -> CallRecord \cup {Unused}]
    BY <2>4, <2>5
  <2>8. /\ t \in LinksState /\ t.calls = [tried.calls EXCEPT ![c] = call]
        /\ t.sequence_id = tried.sequence_id /\ t.transactions = tried.transactions
        /\ t.acks = tried.acks /\ t.idle = tried.idle
    <3>1. t = [tried EXCEPT !.calls = [tried.calls EXCEPT ![c] = call]]
      BY <2>1 DEF call
    <3> QED BY <2>4, <2>7, <3>1 DEF LinksState
  <2>9. t.calls[c] = call /\ \A d \in Call \ {c} : t.calls[d] = tried.calls[d]
    BY <2>4, <2>8
  <2>10. OnlyCall(s, t, c)
    BY <2>3, <2>6, <2>9 DEF IsSent, OnlyCall
  <2>11. IsSent(s, t, c, TRUE)
    BY <2>3, <2>8, <2>10 DEF IsSent
  <2>12. Due(call, "ok")
    <3>1. Append(<< >>, TRUE) = << TRUE >>
      OBVIOUS
    <3>2. call.op # "del_all" => s.calls[c].verdicts = << >>
      BY <2>6
    <3>3. call.op # "del_all" => call.verdicts = << TRUE >>
      BY <2>6, <3>1, <3>2
    <3> QED BY <2>6, <3>3 DEF Due
  <2>13. Kept(call)
    <3>1. CASE call.op = "del_all"
      <4>1. s.calls[c].listed = s.calls[c].removed \cup Range(s.calls[c].todo)
        BY <2>6, <3>1 DEF StateInv, CallsKept, Kept, IsPending
      <4>2. s.calls[c].todo \in Seq(Link) /\ link = s.calls[c].todo[1] /\ s.calls[c].todo # << >>
        BY <1>2, <2>6, <3>1 DEF CallRecord
      <4>3. link \in Range(s.calls[c].todo)
        BY <4>2 DEF Range
      <4> QED BY <2>6, <3>1, <4>1, <4>3 DEF Kept
    <3> QED BY <2>6, <3>1 DEF Kept
  <2> QED BY <2>6, <2>9, <2>10, <2>11, <2>12, <2>13, SentKeeps DEF t
<1> QED BY <1>4, <1>5, <1>6, <1>7

(* The record of a call whose task does not wait anywhere may be rewritten.   *)
LEMMA Rewritten ==
  ASSUME NEW s, NEW c \in Call, StateInv(s, {c}), NEW call \in CallRecord, Kept(call)
  PROVE  LET t == [s EXCEPT !.calls[c] = call]
         IN /\ StateInv(t, IF call.result = "pending" THEN {c} ELSE {})
            /\ t.calls[c] = call /\ \A d \in Call \ {c} : t.calls[d] = s.calls[d]
            /\ t.links = s.links
<1> DEFINE t == [s EXCEPT !.calls[c] = call]
           working == IF call.result = "pending" THEN {c} ELSE {}
<1>1. s \in LinksState /\ s.calls \in [Call -> CallRecord \cup {Unused}]
  BY DEF StateInv, LinksState
<1>2. /\ t \in LinksState /\ t.calls = [s.calls EXCEPT ![c] = call]
      /\ t.sequence_id = s.sequence_id /\ t.transactions = s.transactions
      /\ t.acks = s.acks /\ t.idle = s.idle /\ t.links = s.links
  <2>1. [s.calls EXCEPT ![c] = call] \in [Call -> CallRecord \cup {Unused}]
    BY <1>1
  <2> QED BY <1>1, <2>1 DEF LinksState
<1> HIDE DEF t
<1>3. t.calls[c] = call /\ \A d \in Call \ {c} : t.calls[d] = s.calls[d]
  BY <1>1, <1>2
<1>4. ~InTable(s, c) /\ ~InIdle(s, c)
  BY DEF StateInv, Waiting
<1>5. call.op # "none"
  BY DEF CallRecord, Op
<1>6. \A d \in Call : /\ InTable(t, d) <=> InTable(s, d)
                      /\ InIdle(t, d) <=> InIdle(s, d)
                      /\ d # c => (IsPending(t, d) <=> IsPending(s, d))
  BY <1>2, <1>3 DEF InTable, InIdle, IsPending
<1>7. Waiting(t, working)
  BY <1>3, <1>4, <1>6 DEF StateInv, Waiting, IsPending
<1>8. Numbered(t) /\ Apart(t)
  BY <1>2, <1>6 DEF StateInv, Numbered, Apart
<1>9. IdleDue(t)
  <2>1. \A i \in DOMAIN s.idle : s.idle[i].call \in Call /\ s.idle[i].call # c
    BY <1>1, <1>4, TaskType DEF InIdle
  <2> QED BY <1>2, <1>3, <2>1 DEF StateInv, IdleDue
<1>10. AcksDue(t)
  <2>1. \A q \in DOMAIN s.transactions :
          s.transactions[q] # NoTask => s.transactions[q] \in Call \ {c}
    BY <1>1, <1>4, TransactionType DEF InTable
  <2> QED BY <1>2, <1>3, <2>1 DEF StateInv, AcksDue
<1>11. CallsKept(t)
  BY <1>3 DEF StateInv, CallsKept
<1>12. StateInv(t, working)
  BY <1>2, <1>7, <1>8, <1>9, <1>10, <1>11 DEF StateInv
<1> QED BY <1>2, <1>3, <1>12 DEF t

LEMMA DeleteNextLinkKeeps ==
  ASSUME NEW s, NEW c \in Call, StateInv(s, {c}), IsPending(s, c),
         s.calls[c].op = "del_all", NEW fate
  PROVE  LET t == DeleteNextLink(s, c, fate)
         IN /\ StateInv(t, {}) /\ OnlyCall(s, t, c)
            /\ s.calls[c].todo # << >> => t.calls[c].result = "pending"
<1> DEFINE t == DeleteNextLink(s, c, fate)
           todo == s.calls[c].todo
<1>1. s \in LinksState /\ s.calls[c] \in CallRecord
  BY CallType DEF StateInv, IsPending
<1>2. todo \in Seq(Link)
  BY <1>1 DEF CallRecord
<1>3. CASE todo = << >>
  <2> DEFINE call == [s.calls[c] EXCEPT !.result = "ok"]
  <2>1. /\ call \in CallRecord /\ call.op = "del_all" /\ call.result = "ok"
        /\ call.removed = s.calls[c].removed /\ call.listed = s.calls[c].listed
    BY <1>1 DEF CallRecord, Results
  <2>2. Kept(call)
    <3>1. s.calls[c].listed = s.calls[c].removed \cup Range(todo)
      BY DEF StateInv, CallsKept, Kept, IsPending
    <3>2. Range(todo) = {}
      BY <1>3 DEF Range
    <3> QED BY <2>1, <3>1, <3>2 DEF Kept
  <2>3. t = [s EXCEPT !.calls[c] = call]
    BY <1>3 DEF DeleteNextLink
  <2> HIDE DEF t, call
  <2>4. StateInv(t, {}) /\ t.calls[c] = call /\ \A d \in Call \ {c} : t.calls[d] = s.calls[d]
    BY <2>1, <2>2, <2>3, Rewritten
  <2> QED BY <1>3, <2>1, <2>4 DEF OnlyCall, t
<1>4. CASE todo # << >>
  <2>1. t = DelLink(s, c, todo[1], fate)
    BY <1>4 DEF DeleteNextLink
  <2>2. todo[1] \in Link
    BY <1>2, <1>4
  <2>3. s.calls[c].op = "del_all" => s.calls[c].todo # << >> /\ todo[1] = s.calls[c].todo[1]
    BY <1>4
  <2> HIDE DEF t, todo
  <2>4. StateInv(t, {}) /\ OnlyCall(s, t, c) /\ t.calls[c].result = "pending"
    BY <2>1, <2>2, <2>3, DelLinkKeeps
  <2> QED BY <2>4 DEF t
<1> QED BY <1>3, <1>4

(* A task that is taken from where it waited, with a result that is due.      *)
LEMMA ReadyKeeps ==
  ASSUME NEW s, NEW c \in Call, StateInv(s, {c}), IsPending(s, c), NEW fate,
         NEW result \in Results, Due(s.calls[c], result)
  PROVE  LET t == Ready(s, c, result, fate) IN StateInv(t, {}) /\ OnlyCall(s, t, c)
<1> DEFINE t == Ready(s, c, result, fate)
           seen == IF s.calls[c].cancelled THEN "cancelled" ELSE result
           todo == s.calls[c].todo
<1>1. s \in LinksState /\ s.calls[c] \in CallRecord
  BY CallType DEF StateInv, IsPending
<1>2. seen \in Results /\ Due(s.calls[c], seen)
  BY DEF Due, Results
<1>3. CASE s.calls[c].op = "del_all" /\ seen = "ok"
  <2> DEFINE call == [s.calls[c] EXCEPT !.todo = RemoveFirstFast(@)]
             u == [s EXCEPT !.calls[c] = call]
  <2>1. todo \in Seq(Link) /\ s.calls[c].listed = s.calls[c].removed \cup Range(todo)
    BY <1>1, <1>3 DEF CallRecord, StateInv, CallsKept, Kept, IsPending
  <2>2. RemoveFirstFast(todo) \in Seq(Link)
        /\ s.calls[c].listed = s.calls[c].removed \cup Range(RemoveFirstFast(todo))
    <3>1. CASE todo = << >>
      BY <2>1, <3>1 DEF RemoveFirstFast, Range
    <3>2. CASE todo # << >>
      <4>1. todo[1] \in s.calls[c].removed
        BY <1>2, <1>3, <3>2 DEF Due
      <4> QED BY <2>1, <3>2, <4>1, RemovedFirst
    <3> QED BY <3>1, <3>2
  <2>3. /\ call \in CallRecord /\ call.op = "del_all" /\ call.result = "pending"
        /\ call.todo = RemoveFirstFast(todo)
        /\ call.removed = s.calls[c].removed /\ call.listed = s.calls[c].listed
    BY <1>1, <1>3, <2>2 DEF CallRecord, IsPending
  <2>4. Kept(call)
    BY <2>2, <2>3 DEF Kept
  <2>5. t = DeleteNextLink(u, c, fate) /\ u = [s EXCEPT !.calls[c] = call]
    BY <1>3 DEF Ready
  <2> HIDE DEF call, t, u
  <2>6. /\ StateInv(u, {c}) /\ u.calls[c] = call
        /\ \A d \in Call \ {c} : u.calls[d] = s.calls[d]
    <3>1. (IF call.result = "pending" THEN {c} ELSE {}) = {c}
      BY <2>3
    <3> HIDE DEF seen, todo
    <3> QED BY <2>3, <2>4, <2>5, <3>1, Rewritten
  <2>7. StateInv(t, {}) /\ OnlyCall(u, t, c)
    BY <2>3, <2>5, <2>6, DeleteNextLinkKeeps DEF IsPending
  <2> QED BY <1>3, <2>3, <2>6, <2>7 DEF OnlyCall, t
<1>4. CASE ~(s.calls[c].op = "del_all" /\ seen = "ok")
  <2> DEFINE call == [s.calls[c] EXCEPT !.result = seen]
  <2>1. t = [s EXCEPT !.calls[c] = call]
    BY <1>4 DEF Ready
  <2>2. /\ call \in CallRecord /\ call.op = s.calls[c].op /\ call.result = seen
        /\ call.verdicts = s.calls[c].verdicts
    BY <1>1, <1>2 DEF CallRecord
  <2>3. Kept(call) /\ call.result # "pending"
    BY <1>2, <1>4, <2>2 DEF Kept, Due, Results
  <2> HIDE DEF call, t
  <2>4. StateInv(t, {}) /\ t.calls[c] = call /\ \A d \in Call \ {c} : t.calls[d] = s.calls[d]
    <3>1. (IF call.result = "pending" THEN {c} ELSE {}) = {}
      BY <2>3
    <3> HIDE DEF seen, todo
    <3> QED BY <2>1, <2>2, <2>3, <3>1, Rewritten
  <2> QED BY <2>2, <2>4 DEF OnlyCall, t
<1> QED BY <1>3, <1>4

LEMMA ReturnKeeps ==
  ASSUME NEW s, NEW c \in Call, StateInv(s, {c}), IsPending(s, c), NEW fate,
         NEW result \in Results, Due(s.calls[c], result)
  PROVE  LET t == Return(s, c, result, fate) IN StateInv(t, {}) /\ OnlyCall(s, t, c)
BY ReadyKeeps, ReturnLaterKeeps DEF Return, OnlyCall

-----------------------------------------------------------------------------
(* Actions                                                                    *)

(* The call c has been made and has not returned; or it has made a step; or   *)
(* no call has.                                                               *)
Asked(c) == /\ calls[c].op = "none"
            /\ calls'[c].op # "none" /\ calls'[c].result = "pending"
            /\ \A d \in Call \ {c} : calls'[d] = calls[d]
Stepped(c) == IsPending(State, c) /\ OnlyCall(State, State', c)
CallsStep == UNCHANGED calls \/ \E c \in Call : Asked(c) \/ Stepped(c)

LEMMA Became ==
  ASSUME NEW STATE t, t \in LinksState, Become(t) PROVE State' = t
BY DEF Become, State, LinksState

LEMMA NewCallKeeps ==
  ASSUME LinksIInv, NEW c \in Call, c \notin Made, NEW call \in CallRecord,
         call.result = "pending", Kept(call)
  PROVE  LET s == [State EXCEPT !.calls[c] = call]
         IN /\ StateInv(s, {c}) /\ IsPending(s, c) /\ s.calls[c] = call /\ s.links = links
            /\ \A d \in Call \ {c} : s.calls[d] = calls[d]
<1>1. ~IsPending(State, c)
  BY DEF Made, IsPending, State
<1>2. StateInv(State, {c})
  BY <1>1 DEF LinksIInv, StateInv, Waiting
<1>3. State.calls = calls /\ State.links = links
  BY DEF State
<1>4. call.op # "none"
  BY DEF CallRecord, Op
<1> QED BY <1>2, <1>3, <1>4, Rewritten DEF IsPending

LEMMA NewCallType ==
  ASSUME NEW op \in Op
  PROVE  /\ NewCall(op) \in CallRecord /\ NewCall(op).op = op
         /\ NewCall(op).result = "pending" /\ NewCall(op).verdicts = << >>
         /\ NewCall(op).removed = {} /\ Kept(NewCall(op))
<1>1. /\ NewCall(op) \in CallRecord /\ NewCall(op).op = op
      /\ NewCall(op).result = "pending" /\ NewCall(op).verdicts = << >>
      /\ NewCall(op).listed = {} /\ NewCall(op).removed = {} /\ NewCall(op).todo = << >>
  BY DEF NewCall, CallRecord
<1>2. Range(<< >>) = {}
  BY DEF Range
<1> QED BY <1>1, <1>2 DEF Kept

(* A call that was made, with whatever the handler did then.                  *)
LEMMA CallMade ==
  ASSUME LinksIInv, NEW c \in Call, c \notin Made, NEW STATE s, NEW STATE t,
         IsPending(s, c), \A d \in Call \ {c} : s.calls[d] = calls[d],
         StateInv(t, {}), OnlyCall(s, t, c), t.calls[c].result = "pending", Become(t)
  PROVE  StateInv(State', {}) /\ Asked(c)
<1>1. t \in LinksState
  BY DEF StateInv
<1>2. State' = t
  BY <1>1, Became
<1>3. calls' = t.calls
  BY DEF Become
<1>4. Asked(c)
  BY <1>3 DEF Asked, Made, OnlyCall, IsPending
<1>5. StateInv(State', {})
  BY <1>2
<1> QED BY <1>4, <1>5

LEMMA FailsLater ==
  ASSUME NEW s, NEW c \in Call, StateInv(s, {c}), IsPending(s, c)
  PROVE  LET t == ReturnLater(s, c, "failed")
         IN StateInv(t, {}) /\ OnlyCall(s, t, c) /\ t.calls[c].result = "pending"
<1>1. "failed" \in Results /\ Due(s.calls[c], "failed")
  BY DEF Results, Due
<1> QED BY <1>1, ReturnLaterKeeps DEF OnlyCall, IsPending

LEMMA FirstRequest ==
  ASSUME NEW s, NEW c \in Call, StateInv(s, {c}), IsPending(s, c),
         s.calls[c].op # "del_all", s.calls[c].verdicts = << >>,
         NEW fate, NEW possible \in BOOLEAN,
         NEW left \in SUBSET Link, IsFiniteSet(left)
  PROVE  LET t == Transact(s, c, fate, possible, left)
         IN StateInv(t, {}) /\ OnlyCall(s, t, c) /\ t.calls[c].result = "pending"
<1> DEFINE t == Transact(s, c, fate, possible, left)
           ok == fate = "granted" /\ possible
<1>1. CASE fate = "unsent"
  <2>1. t = Unsent(s, c)
    BY <1>1 DEF Transact
  <2> HIDE DEF t
  <2>2. StateInv(t, {}) /\ t.calls = s.calls
    BY <2>1, FailedToSend
  <2> QED BY <2>2 DEF OnlyCall, IsPending, t
<1>2. CASE fate # "unsent"
  <2>1. t = Sent(s, c, ok, left)
    BY <1>2 DEF Transact
  <2>2. s \in LinksState /\ s.calls[c].op # "none"
    BY DEF StateInv, IsPending
  <2>21. ok \in BOOLEAN
    OBVIOUS
  <2> HIDE DEF t, ok
  <2>3. /\ IsSent(s, t, c, ok)
        /\ t.calls[c].result = "pending"
        /\ ok => t.calls[c].verdicts = Append(s.calls[c].verdicts, TRUE)
        /\ ~ok => t.calls[c].verdicts = Append(s.calls[c].verdicts, FALSE)
    BY <2>1, <2>2, <2>21, Requested DEF IsPending
  <2>4. Append(<< >>, TRUE) = << TRUE >> /\ Last(Append(<< >>, FALSE)) = FALSE
    BY DEF Last
  <2>5. t.calls[c].op # "del_all"
    BY <2>3 DEF IsSent, OnlyCall
  <2>6. Kept(t.calls[c])
    BY <2>3, <2>5 DEF Kept
  <2>7. Due(t.calls[c], IF ok THEN "ok" ELSE "refused")
    BY <2>21, <2>3, <2>4, <2>5 DEF Due
  <2>8. StateInv(t, {})
    BY <2>21, <2>3, <2>5, <2>6, <2>7, SentKeeps
  <2> QED BY <2>3, <2>5, <2>8 DEF IsSent, t
<1> QED BY <1>1, <1>2

LEMMA AddStep ==
  ASSUME LinksIInv, mbim_device_add_link PROVE LinksIInv' /\ \E c \in Call : Asked(c)
<1>1. PICK c \in Call, works \in BOOLEAN, fate \in Fates,
           session \in 0..AUTOMATIC, prefix \in Prefix, base \in Bases :
             /\ Setup(c, "add", works)
             /\ manager' # "none" => Become(AddLink(c, session, prefix, base, fate))
  BY DEF mbim_device_add_link
<1> DEFINE s == [State EXCEPT !.calls[c] = NewCall("add")]
<1>2. c \notin Made
  BY <1>1 DEF Setup
<1>3. /\ NewCall("add") \in CallRecord /\ NewCall("add").op = "add"
      /\ NewCall("add").verdicts = << >>
      /\ NewCall("add").result = "pending" /\ Kept(NewCall("add"))
  BY NewCallType DEF Op
<1>4. /\ StateInv(s, {c}) /\ IsPending(s, c) /\ s.calls[c] = NewCall("add") /\ s.links = links
      /\ \A d \in Call \ {c} : s.calls[d] = calls[d]
  BY <1>2, <1>3, NewCallKeeps
<1>5. driver' = driver /\ (manager' = "none" => Become(ReturnLater(s, c, "failed")))
  BY <1>1 DEF Setup, LinksIInv
<1> DEFINE id == IF session = AUTOMATIC THEN FirstFree(prefix) ELSE session
           link == [prefix |-> prefix, session |-> id]
           ok == KernelAdds(s, link, base)
           t == AddLink(c, session, prefix, base, fate)
           later == ReturnLater(s, c, "failed")
           sends == Transact(s, c, fate, ok, s.links \cup {link})
<1>6. \/ t = later
      \/ t = sends /\ (session = AUTOMATIC => FreeSessions(prefix) # {})
  BY DEF AddLink
<1> HIDE DEF s, t, later
<1>7. StateInv(later, {}) /\ OnlyCall(s, later, c) /\ later.calls[c].result = "pending"
  BY <1>4, FailsLater DEF later
<1>8. CASE manager' # "none" /\ t = sends /\ (session = AUTOMATIC => FreeSessions(prefix) # {})
  <2>1. link \in Link
    <3>1. session = AUTOMATIC => FirstFree(prefix) \in 1..MaxSession
      BY <1>8, FirstFreeIsFree DEF FreeSessions
    <3>2. id \in 0..MaxSession
      BY <3>1, LinksAssumption DEF AUTOMATIC
    <3> QED BY <3>2 DEF Link
  <2>2. s.links \cup {link} \in SUBSET Link /\ IsFiniteSet(s.links \cup {link})
    <3>1. s.links \in SUBSET Link /\ IsFiniteSet(s.links)
      BY <1>4 DEF StateInv, LinksState
    <3> QED BY <2>1, <3>1, FS_AddElement
  <2>3. ok \in BOOLEAN
    BY DEF KernelAdds
  <2> HIDE DEF ok, link
  <2>4. StateInv(t, {}) /\ OnlyCall(s, t, c) /\ t.calls[c].result = "pending"
    <3>1. s.calls[c].op # "del_all" /\ s.calls[c].verdicts = << >>
      BY <1>3, <1>4
    <3>2. \A b \in BOOLEAN :
            LET u == Transact(s, c, fate, b, s.links \cup {link})
            IN StateInv(u, {}) /\ OnlyCall(s, u, c) /\ u.calls[c].result = "pending"
      BY <1>4, <2>2, <3>1, FirstRequest
    <3> QED BY <1>8, <2>3, <3>2
  <2>5. Become(t)
    BY <1>1, <1>8 DEF t
  <2> QED BY <1>2, <1>4, <1>5, <2>4, <2>5, CallMade DEF LinksIInv
<1>9. CASE manager' = "none" \/ t = later
  <2>1. Become(later)
    BY <1>1, <1>5, <1>9 DEF t, later, s
  <2> QED BY <1>2, <1>4, <1>5, <1>7, <2>1, CallMade DEF LinksIInv
<1> QED BY <1>6, <1>8, <1>9

LEMMA DelStep ==
  ASSUME LinksIInv, mbim_device_delete_link PROVE LinksIInv' /\ \E c \in Call : Asked(c)
<1>1. PICK c \in Call, works \in BOOLEAN, fate \in Fates, link \in Link :
             /\ Setup(c, "del", works)
             /\ manager' # "none" =>
                  Become(DelLink([State EXCEPT !.calls[c] = NewCall("del")], c, link, fate))
  BY DEF mbim_device_delete_link
<1> DEFINE s == [State EXCEPT !.calls[c] = NewCall("del")]
           t == DelLink(s, c, link, fate)
           later == ReturnLater(s, c, "failed")
<1>2. c \notin Made
  BY <1>1 DEF Setup
<1>3. /\ NewCall("del") \in CallRecord /\ NewCall("del").op = "del"
      /\ NewCall("del").verdicts = << >>
      /\ NewCall("del").result = "pending" /\ Kept(NewCall("del"))
  BY NewCallType DEF Op
<1>4. /\ StateInv(s, {c}) /\ IsPending(s, c) /\ s.calls[c] = NewCall("del")
      /\ \A d \in Call \ {c} : s.calls[d] = calls[d]
  BY <1>2, <1>3, NewCallKeeps
<1>5. driver' = driver /\ (manager' = "none" => Become(later))
  BY <1>1 DEF Setup, LinksIInv
<1>6. manager' # "none" => Become(t)
  BY <1>1
<1> HIDE DEF s, t, later
<1>7. StateInv(later, {}) /\ OnlyCall(s, later, c) /\ later.calls[c].result = "pending"
  BY <1>4, FailsLater DEF later
<1>8. StateInv(t, {}) /\ OnlyCall(s, t, c) /\ t.calls[c].result = "pending"
  BY <1>3, <1>4, DelLinkKeeps DEF t
<1>9. CASE manager' # "none"
  BY <1>2, <1>4, <1>5, <1>6, <1>8, <1>9, CallMade DEF LinksIInv
<1>10. CASE manager' = "none"
  BY <1>2, <1>4, <1>5, <1>7, <1>10, CallMade DEF LinksIInv
<1> QED BY <1>9, <1>10

LEMMA DeleteAllStep ==
  ASSUME LinksIInv, mbim_device_delete_all_links PROVE LinksIInv' /\ \E c \in Call : Asked(c)
<1>1. PICK c \in Call, works \in BOOLEAN, fate \in Fates, listed \in BOOLEAN :
             /\ Setup(c, "del_all", works)
             /\ manager' # "none" =>
                  IF listed
                  THEN \E list \in SetToSeqs(links) : Become(DeleteAll(c, list, fate))
                  ELSE Become(ReturnLater([State EXCEPT !.calls[c] = NewCall("del_all")],
                                          c, "failed"))
  BY DEF mbim_device_delete_all_links
<1>2. c \notin Made
  BY <1>1 DEF Setup
<1>3. driver' = driver
  BY <1>1 DEF Setup
<1>4. CASE manager' # "none" /\ listed
  <2>1. PICK list \in SetToSeqs(links) : Become(DeleteAll(c, list, fate))
    BY <1>1, <1>4
  <2> DEFINE call == [NewCall("del_all") EXCEPT !.todo = list, !.listed = Range(list)]
             s == [State EXCEPT !.calls[c] = call]
             t == DeleteAll(c, list, fate)
  <2>2. links \in SUBSET Link /\ Cardinality(links) \in Nat
    BY FS_CardinalityType DEF LinksIInv, StateInv, State, LinksState
  <2>3. list \in Seq(Link)
    BY <2>2 DEF SetToSeqs
  <2>4. Range(list) \in SUBSET Link
    BY <2>3 DEF Range
  <2>5. /\ call \in CallRecord /\ call.op = "del_all" /\ call.result = "pending"
        /\ call.todo = list /\ call.listed = Range(list) /\ call.removed = {}
    <3>1. /\ NewCall("del_all") \in CallRecord /\ NewCall("del_all").op = "del_all"
          /\ NewCall("del_all").result = "pending" /\ NewCall("del_all").removed = {}
      BY NewCallType DEF Op
    <3> QED BY <2>3, <2>4, <3>1 DEF CallRecord
  <2> HIDE DEF call
  <2>6. Kept(call)
    BY <2>5 DEF Kept
  <2>7. /\ StateInv(s, {c}) /\ IsPending(s, c) /\ s.calls[c] = call
        /\ \A d \in Call \ {c} : s.calls[d] = calls[d]
    BY <1>2, <2>5, <2>6, NewCallKeeps
  <2>8. t = IF list = << >> THEN ReturnLater(s, c, "ok") ELSE DeleteNextLink(s, c, fate)
    BY DEF DeleteAll, call
  <2> HIDE DEF s, t
  <2>9. StateInv(t, {}) /\ OnlyCall(s, t, c) /\ t.calls[c].result = "pending"
    <3>1. CASE list = << >>
      <4>1. "ok" \in Results /\ Due(s.calls[c], "ok")
        BY <2>5, <2>7, <3>1 DEF Results, Due
      <4> QED BY <2>7, <2>8, <3>1, <4>1, ReturnLaterKeeps DEF OnlyCall, IsPending
    <3>2. CASE list # << >>
      BY <2>5, <2>7, <2>8, <3>2, DeleteNextLinkKeeps
    <3> QED BY <3>1, <3>2
  <2>10. Become(t)
    BY <2>1 DEF t
  <2> QED BY <1>2, <1>3, <2>7, <2>9, <2>10, CallMade DEF LinksIInv
<1>5. CASE ~(manager' # "none" /\ listed)
  <2> DEFINE s == [State EXCEPT !.calls[c] = NewCall("del_all")]
             later == ReturnLater(s, c, "failed")
  <2>1. Become(later)
    BY <1>1, <1>5 DEF Setup, LinksIInv
  <2>2. /\ NewCall("del_all") \in CallRecord /\ NewCall("del_all").result = "pending"
        /\ Kept(NewCall("del_all"))
    BY NewCallType DEF Op
  <2>3. StateInv(s, {c}) /\ IsPending(s, c) /\ \A d \in Call \ {c} : s.calls[d] = calls[d]
    BY <1>2, <2>2, NewCallKeeps
  <2> HIDE DEF s, later
  <2>4. StateInv(later, {}) /\ OnlyCall(s, later, c) /\ later.calls[c].result = "pending"
    BY <2>3, FailsLater DEF later
  <2> QED BY <1>2, <1>3, <2>1, <2>3, <2>4, CallMade DEF LinksIInv
<1> QED BY <1>4, <1>5

(* A task that waited is returned: s is what is left without it.              *)
LEMMA CallReturned ==
  ASSUME LinksIInv, NEW c \in Call, NEW STATE s, NEW STATE t, IsPending(s, c),
         s.calls = calls, StateInv(t, {}), OnlyCall(s, t, c), Become(t)
  PROVE  StateInv(State', {}) /\ Stepped(c)
<1>1. t \in LinksState
  BY DEF StateInv
<1>2. State' = t
  BY <1>1, Became
<1>3. Stepped(c)
  BY <1>2 DEF Stepped, OnlyCall, IsPending, State
<1> QED BY <1>2, <1>3

LEMMA CancelStep ==
  ASSUME LinksIInv, Cancel PROVE LinksIInv' /\ \E c \in Call : Stepped(c)
<1>1. PICK c \in Pending : /\ calls' = [calls EXCEPT ![c].cancelled = TRUE]
                           /\ UNCHANGED <<driver, links, sequence_id, transactions, acks, idle>>
  BY DEF Cancel
<1> DEFINE call == [calls[c] EXCEPT !.cancelled = TRUE]
           s == State
           t == [State EXCEPT !.calls = [calls EXCEPT ![c] = call]]
<1>2. s \in LinksState /\ c \in Call /\ IsPending(s, c)
  BY DEF LinksIInv, StateInv, Pending, Made, IsPending, State
<1>3. s.calls = calls
  BY DEF State
<1>4. calls[c] \in CallRecord
  BY <1>2, <1>3, CallType DEF IsPending
<1>5. /\ call \in CallRecord /\ call.op = calls[c].op /\ call.result = calls[c].result
      /\ call.todo = calls[c].todo /\ call.verdicts = calls[c].verdicts
      /\ call.listed = calls[c].listed /\ call.removed = calls[c].removed
  BY <1>4 DEF CallRecord
<1>6. calls \in [Call -> CallRecord \cup {Unused}]
  BY <1>2, <1>3 DEF LinksState
<1>61. calls' = [calls EXCEPT ![c] = call]
  BY <1>1
<1> HIDE DEF call
<1>7. /\ t \in LinksState /\ t.calls = [calls EXCEPT ![c] = call]
      /\ t.links = s.links /\ t.sequence_id = s.sequence_id /\ t.transactions = s.transactions
      /\ t.acks = s.acks /\ t.idle = s.idle
  <2>1. [calls EXCEPT ![c] = call] \in [Call -> CallRecord \cup {Unused}]
    BY <1>5, <1>6
  <2> QED BY <1>2, <2>1 DEF LinksState
<1>8. State' = t
  <2>1. Become(t)
    <3>1. /\ s.links = links /\ s.sequence_id = sequence_id /\ s.transactions = transactions
          /\ s.acks = acks /\ s.idle = idle
      BY DEF State
    <3> HIDE DEF t, s
    <3> QED BY <1>1, <1>61, <1>7, <3>1 DEF Become
  <2> HIDE DEF t
  <2> QED BY <1>7, <2>1, Became
<1> HIDE DEF t, s
<1>9. t.calls[c] = call /\ \A d \in Call \ {c} : t.calls[d] = s.calls[d]
  BY <1>2, <1>3, <1>6, <1>7
<1>10. \A d \in Call : /\ Kept(s.calls[d]) => Kept(t.calls[d])
                       /\ \A r : Due(s.calls[d], r) => Due(t.calls[d], r)
                       /\ t.calls[d].op = s.calls[d].op /\ t.calls[d].result = s.calls[d].result
  BY <1>3, <1>5, <1>9 DEF Kept, Due
<1>11. StateInv(s, {})
  BY DEF LinksIInv, s
<1>12. Numbered(t) /\ Apart(t) /\ Waiting(t, {})
  BY <1>7, <1>10, <1>11 DEF StateInv, Numbered, Apart, Waiting, InTable, InIdle, IsPending
<1>13. IdleDue(t)
  <2>1. \A i \in DOMAIN s.idle : s.idle[i].call \in Call
    BY <1>2, TaskType
  <2> QED BY <1>7, <1>10, <1>11, <2>1 DEF StateInv, IdleDue
<1>14. AcksDue(t)
  <2>1. \A q \in DOMAIN s.transactions :
          s.transactions[q] # NoTask => s.transactions[q] \in Call
    BY <1>2, TransactionType
  <2> QED BY <1>7, <1>10, <1>11, <2>1 DEF StateInv, AcksDue
<1>15. CallsKept(t)
  BY <1>10, <1>11 DEF StateInv, CallsKept
<1>16. StateInv(State', {})
  BY <1>7, <1>8, <1>12, <1>13, <1>14, <1>15 DEF StateInv
<1>17. Stepped(c)
  BY <1>2, <1>8, <1>9, <1>10 DEF Stepped, OnlyCall, s
<1> QED BY <1>1, <1>2, <1>16, <1>17 DEF LinksIInv

(* Tasks leave the table of the transactions.                                 *)
LEMMA TasksTaken ==
  ASSUME NEW s, StateInv(s, {}), NEW table \in Table, NEW working \in SUBSET Call,
         DOMAIN table \subseteq DOMAIN s.transactions,
         \A q \in DOMAIN table : table[q] = s.transactions[q] \/ table[q] = NoTask,
         \A d \in Call : InTable(s, d) <=> (\E q \in DOMAIN table : table[q] = d) \/ d \in working,
         \A d \in working : ~\E q \in DOMAIN table : table[q] = d
  PROVE  LET t == [s EXCEPT !.transactions = table]
         IN StateInv(t, working) /\ t.calls = s.calls
<1> DEFINE t == [s EXCEPT !.transactions = table]
<1>1. s \in LinksState
  BY DEF StateInv
<1>2. /\ t \in LinksState /\ t.transactions = table
      /\ t.links = s.links /\ t.sequence_id = s.sequence_id
      /\ t.acks = s.acks /\ t.idle = s.idle /\ t.calls = s.calls
  BY <1>1 DEF LinksState
<1> HIDE DEF t
<1>3. \A d \in Call : /\ InTable(s, d) <=> InTable(t, d) \/ d \in working
                      /\ d \in working => ~InTable(t, d)
                      /\ InIdle(t, d) <=> InIdle(s, d)
                      /\ IsPending(t, d) <=> IsPending(s, d)
  BY <1>2 DEF InTable, InIdle, IsPending
<1>4. Numbered(t)
  BY <1>2 DEF StateInv, Numbered
<1>5. Apart(t)
  BY <1>2, <1>3 DEF StateInv, Apart
<1>6. Waiting(t, working)
  BY <1>3 DEF StateInv, Waiting, Apart
<1>7. IdleDue(t) /\ AcksDue(t) /\ CallsKept(t)
  BY <1>2 DEF StateInv, IdleDue, AcksDue, CallsKept
<1> QED BY <1>2, <1>4, <1>5, <1>6, <1>7 DEF StateInv, t

(* The transaction is removed, or its task is taken from it.                  *)
LEMMA TransactionTaken ==
  ASSUME NEW s, StateInv(s, {}), NEW id \in DOMAIN s.transactions,
         NEW table \in {Without(s.transactions, id), [s.transactions EXCEPT ![id] = NoTask]}
  PROVE  LET t == [s EXCEPT !.transactions = table]
             c == s.transactions[id]
         IN /\ t.calls = s.calls
            /\ c = NoTask => StateInv(t, {})
            /\ c # NoTask => c \in Call /\ StateInv(t, {c}) /\ IsPending(t, c)
<1> DEFINE t == [s EXCEPT !.transactions = table]
           c == s.transactions[id]
           working == IF c = NoTask THEN {} ELSE {c}
<1>1. s \in LinksState
  BY DEF StateInv
<1>2. /\ DOMAIN s.transactions \in SUBSET Nat
      /\ \A q \in DOMAIN s.transactions : s.transactions[q] \in Call \cup {NoTask}
  BY <1>1, TransactionType
<1>3. PICK D \in SUBSET Nat : s.transactions \in [D -> Call \cup {NoTask}]
  BY <1>1 DEF LinksState, Table
<1>4. /\ table \in Table /\ DOMAIN table \subseteq DOMAIN s.transactions
      /\ \A q \in DOMAIN table : table[q] = IF q = id THEN NoTask ELSE s.transactions[q]
      /\ DOMAIN s.transactions \ {id} \subseteq DOMAIN table
  <2>1. CASE table = Without(s.transactions, id)
    <3>1. /\ DOMAIN table = DOMAIN s.transactions \ {id}
          /\ \A q \in DOMAIN table : table[q] = s.transactions[q]
          /\ table = [q \in DOMAIN s.transactions \ {id} |-> s.transactions[q]]
      BY <2>1 DEF Without
    <3>2. table \in [(D \ {id}) -> Call \cup {NoTask}] /\ D \ {id} \in SUBSET Nat
      BY <1>3, <3>1
    <3>3. table \in Table
      BY <3>2 DEF Table
    <3> QED BY <3>1, <3>3
  <2>2. CASE table = [s.transactions EXCEPT ![id] = NoTask]
    <3>1. table \in [D -> Call \cup {NoTask}]
      BY <1>3, <2>2
    <3>2. table \in Table
      BY <3>1 DEF Table
    <3> QED BY <1>3, <2>2, <3>2
  <2> QED BY <2>1, <2>2
<1>5. working \in SUBSET Call
  BY <1>2
<1>6. NoTask \notin Call
  BY LinksAssumption DEF NoTask
<1>7. \A q \in DOMAIN s.transactions : q # id => s.transactions[q] # c \/ c = NoTask
  BY DEF StateInv, Apart
<1>8. \A d \in working : ~\E q \in DOMAIN table : table[q] = d
  BY <1>2, <1>4, <1>6, <1>7
<1>9. ASSUME NEW d \in Call
      PROVE  InTable(s, d) <=> (\E q \in DOMAIN table : table[q] = d) \/ d \in working
  BY <1>2, <1>4, <1>6 DEF InTable
<1>10. StateInv(t, working) /\ t.calls = s.calls
  <2> HIDE DEF working
  <2> QED BY <1>4, <1>5, <1>8, <1>9, TasksTaken
<1>11. c # NoTask => c \in Call /\ IsPending(t, c)
  <2>1. c # NoTask => c \in Call /\ InTable(s, c)
    BY <1>2 DEF InTable
  <2> HIDE DEF c, t
  <2> QED BY <1>10, <2>1 DEF StateInv, Waiting, IsPending
<1> HIDE DEF t, c
<1> QED BY <1>10, <1>11 DEF t, c

LEMMA RunIdleStep ==
  ASSUME LinksIInv, RunIdle PROVE LinksIInv' /\ \E c \in Call : Stepped(c)
<1>1. PICK fate \in Fates :
        Become(Ready([State EXCEPT !.idle = Tail(@)], Head(idle).call, Head(idle).result, fate))
  BY DEF RunIdle
<1>2. idle # << >> /\ driver' = driver
  BY DEF RunIdle, fixedVars
<1> DEFINE s == State
           c == Head(idle).call
           result == Head(idle).result
           u == [State EXCEPT !.idle = Tail(@)]
           t == Ready(u, c, result, fate)
<1>3. /\ s \in LinksState /\ s.calls = calls /\ s.idle = idle
      /\ idle \in Seq([call : Call, result : Results])
  BY DEF LinksIInv, StateInv, LinksState, State
<1>4. /\ Head(idle) \in [call : Call, result : Results]
      /\ Head(idle) = idle[1] /\ 1 \in DOMAIN idle
      /\ Tail(idle) \in Seq([call : Call, result : Results])
      /\ \A i \in DOMAIN Tail(idle) :
           i + 1 \in DOMAIN idle /\ i + 1 # 1 /\ Tail(idle)[i] = idle[i + 1] /\ i \in Nat
      /\ \A i \in DOMAIN idle \ {1} :
           i - 1 \in DOMAIN Tail(idle) /\ Tail(idle)[i - 1] = idle[i]
  BY <1>2, <1>3, Dropped
<1>5. c \in Call /\ result \in Results
  BY <1>4
<1>6. /\ u \in LinksState /\ u.calls = s.calls /\ u.idle = Tail(idle)
      /\ u.links = s.links /\ u.sequence_id = s.sequence_id /\ u.transactions = s.transactions
      /\ u.acks = s.acks
  <2>1. u = [s EXCEPT !.idle = Tail(idle)]
    BY <1>3
  <2> HIDE DEF s
  <2> QED BY <1>3, <1>4, <2>1 DEF LinksState
<1>7. StateInv(s, {}) /\ Become(t)
  BY <1>1 DEF LinksIInv
<1> HIDE DEF s, c, result, u, t
<1>8. idle[1].call = c /\ idle[1].result = result
  BY <1>4 DEF c, result
<1>9. \A i \in DOMAIN idle \ {1} : idle[i].call # c
  BY <1>3, <1>4, <1>7, <1>8 DEF StateInv, Apart
<1>10. \A d \in Call : /\ InTable(u, d) <=> InTable(s, d)
                       /\ InIdle(u, d) <=> InIdle(s, d) /\ d # c
                       /\ IsPending(u, d) <=> IsPending(s, d)
  <2>1. ASSUME NEW d \in Call PROVE InIdle(u, d) <=> InIdle(s, d) /\ d # c
    <3>1. InIdle(u, d) => InIdle(s, d) /\ d # c
      BY <1>3, <1>4, <1>6, <1>9 DEF InIdle
    <3>2. ASSUME InIdle(s, d), d # c PROVE InIdle(u, d)
      <4>1. PICK i \in DOMAIN idle : idle[i].call = d
        BY <1>3, <3>2 DEF InIdle
      <4>2. i \in DOMAIN idle \ {1}
        BY <1>8, <3>2, <4>1
      <4>3. i - 1 \in DOMAIN u.idle /\ u.idle[i - 1].call = d
        BY <1>4, <1>6, <4>1, <4>2
      <4> QED BY <4>3 DEF InIdle
    <3> QED BY <3>1, <3>2
  <2> QED BY <1>6, <2>1 DEF InTable, IsPending
<1>11. InIdle(s, c)
  BY <1>3, <1>4, <1>8 DEF InIdle
<1>12. IsPending(u, c) /\ Due(u.calls[c], result)
  BY <1>3, <1>4, <1>5, <1>6, <1>7, <1>8, <1>10, <1>11 DEF StateInv, Waiting, IdleDue
<1>13. StateInv(u, {c})
  <2>1. Numbered(u) /\ AcksDue(u) /\ CallsKept(u)
    BY <1>6, <1>7 DEF StateInv, Numbered, AcksDue, CallsKept
  <2>2. Waiting(u, {c})
    BY <1>5, <1>7, <1>10, <1>11 DEF StateInv, Waiting, Apart
  <2>3. Apart(u)
    <3>1. ASSUME NEW i \in DOMAIN u.idle, NEW j \in DOMAIN u.idle, u.idle[i].call = u.idle[j].call
          PROVE  i = j
      <4>1. /\ i + 1 \in DOMAIN idle /\ j + 1 \in DOMAIN idle /\ i \in Nat /\ j \in Nat
            /\ idle[i + 1].call = idle[j + 1].call
        BY <1>4, <1>6, <3>1
      <4>2. i + 1 = j + 1
        BY <1>3, <1>7, <4>1 DEF StateInv, Apart
      <4> QED BY <4>1, <4>2
    <3> QED BY <1>6, <1>7, <1>10, <3>1 DEF StateInv, Apart
  <2>4. IdleDue(u)
    BY <1>3, <1>4, <1>6, <1>7 DEF StateInv, IdleDue
  <2> QED BY <1>6, <2>1, <2>2, <2>3, <2>4 DEF StateInv
<1>14. StateInv(t, {}) /\ OnlyCall(u, t, c)
  BY <1>5, <1>12, <1>13, ReadyKeeps DEF t
<1> QED BY <1>2, <1>3, <1>5, <1>6, <1>7, <1>12, <1>14, CallReturned DEF LinksIInv

LEMMA NetlinkStep ==
  ASSUME LinksIInv, netlink_message_cb
  PROVE  LinksIInv' /\ (UNCHANGED calls \/ \E c \in Call : Stepped(c))
<1> DEFINE ack == Head(acks)
           s == State
           read == [State EXCEPT !.acks = Tail(@)]
           taken == [read EXCEPT !.transactions = Without(@, ack.id)]
           result == IF ack.ok THEN "ok" ELSE "refused"
<1>1. PICK fate \in Fates :
        Become(IF ack.id \notin DOMAIN transactions THEN read
               ELSE IF transactions[ack.id] = NoTask THEN taken
               ELSE Complete(read, ack.id, ack.ok, fate))
  BY DEF netlink_message_cb
<1>2. acks # << >> /\ driver' = driver
  BY DEF netlink_message_cb, fixedVars
<1>3. /\ s \in LinksState /\ s.calls = calls /\ s.transactions = transactions
      /\ s.acks = acks /\ acks \in Seq([id : Nat, ok : BOOLEAN])
      /\ StateInv(s, {})
  BY DEF LinksIInv, StateInv, LinksState, State
<1>4. /\ ack \in [id : Nat, ok : BOOLEAN] /\ ack = acks[1] /\ 1 \in DOMAIN acks
      /\ Tail(acks) \in Seq([id : Nat, ok : BOOLEAN])
      /\ \A i \in DOMAIN Tail(acks) : i + 1 \in DOMAIN acks /\ Tail(acks)[i] = acks[i + 1]
  BY <1>2, <1>3, Dropped
<1>5. /\ read \in LinksState /\ read.calls = s.calls /\ read.acks = Tail(acks)
      /\ read.links = s.links /\ read.sequence_id = s.sequence_id
      /\ read.transactions = s.transactions /\ read.idle = s.idle
  <2>1. read = [s EXCEPT !.acks = Tail(acks)]
    BY <1>3
  <2> HIDE DEF s, read
  <2> QED BY <1>3, <1>4, <2>1 DEF LinksState
<1>6. taken = [read EXCEPT !.transactions = Without(transactions, ack.id)]
      /\ Complete(read, ack.id, ack.ok, fate) = Return(taken, transactions[ack.id], result, fate)
  <2>1. read.transactions = transactions
    BY <1>3, <1>5
  <2> HIDE DEF s, read
  <2> QED BY <2>1 DEF Complete
<1> HIDE DEF s, read, taken, result
<1>7. StateInv(read, {})
  <2>1. Numbered(read)
    BY <1>3, <1>4, <1>5 DEF StateInv, Numbered
  <2>2. Apart(read) /\ Waiting(read, {}) /\ IdleDue(read) /\ CallsKept(read)
    BY <1>3, <1>5 DEF StateInv, Apart, Waiting, IdleDue, CallsKept, InTable, InIdle, IsPending
  <2>3. AcksDue(read)
    BY <1>3, <1>4, <1>5 DEF StateInv, AcksDue
  <2> QED BY <1>5, <2>1, <2>2, <2>3 DEF StateInv
<1>8. CASE ack.id \notin DOMAIN transactions
  <2>1. Become(read)
    BY <1>1, <1>8
  <2>2. State' = read
    BY <1>5, <2>1, Became
  <2>3. UNCHANGED calls
    BY <1>3, <1>5, <2>1 DEF Become
  <2> QED BY <1>2, <1>7, <2>2, <2>3 DEF LinksIInv
<1>9. CASE ack.id \in DOMAIN transactions
  <2> DEFINE c == transactions[ack.id]
  <2>1. /\ taken.calls = read.calls
        /\ c = NoTask => StateInv(taken, {})
        /\ c # NoTask => c \in Call /\ StateInv(taken, {c}) /\ IsPending(taken, c)
    <3> DEFINE table == Without(transactions, ack.id)
    <3>1. taken = [read EXCEPT !.transactions = table]
      BY <1>6
    <3>2. ack.id \in DOMAIN read.transactions /\ c = read.transactions[ack.id]
          /\ table \in {Without(read.transactions, ack.id),
                        [read.transactions EXCEPT ![ack.id] = NoTask]}
      BY <1>3, <1>5, <1>9
    <3> HIDE DEF table, c
    <3> QED BY <1>7, <3>1, <3>2, TransactionTaken
  <2>2. CASE c = NoTask
    <3>1. Become(taken) /\ taken \in LinksState
      BY <1>1, <1>9, <2>1, <2>2 DEF StateInv
    <3>2. State' = taken
      BY <3>1, Became
    <3>3. UNCHANGED calls
      BY <1>3, <1>5, <2>1, <3>1 DEF Become
    <3> QED BY <1>2, <2>1, <2>2, <3>2, <3>3 DEF LinksIInv
  <2>3. CASE c # NoTask
    <3> DEFINE t == Return(taken, c, result, fate)
    <3>1. Become(t)
      BY <1>1, <1>6, <1>9, <2>3
    <3>2. Due(calls[c], result)
      BY <1>3, <1>4, <1>9, <2>3 DEF StateInv, AcksDue, result
    <3>3. Due(taken.calls[c], result) /\ result \in Results
      BY <1>3, <1>5, <2>1, <3>2 DEF result, Results
    <3> HIDE DEF t, c
    <3>4. StateInv(t, {}) /\ OnlyCall(taken, t, c)
      BY <2>1, <2>3, <3>3, ReturnKeeps DEF t
    <3> QED BY <1>2, <1>3, <1>5, <2>1, <2>3, <3>1, <3>4, CallReturned DEF LinksIInv
  <2> QED BY <2>2, <2>3
<1> QED BY <1>8, <1>9

LEMMA TimedOutStep ==
  ASSUME LinksIInv, NEW c \in Call, TimedOut(c)
  PROVE  LinksIInv' /\ (UNCHANGED calls \/ Stepped(c))
<1>1. driver' = driver
  BY DEF TimedOut, fixedVars
<1>2. CASE UNCHANGED <<links, sequence_id, transactions, acks, calls, idle>>
  BY <1>1, <1>2 DEF LinksIInv, State
<1>3. ASSUME NEW id \in DOMAIN transactions, transactions[id] = c, NEW fate,
             NEW left \in {Without(transactions, id), [transactions EXCEPT ![id] = NoTask]},
             Become(Return([State EXCEPT !.transactions = left], c, "timed_out", fate))
      PROVE  LinksIInv' /\ Stepped(c)
  <2> DEFINE s == State
             taken == [s EXCEPT !.transactions = left]
             t == Return(taken, c, "timed_out", fate)
  <2>1. Become(t)
    BY <1>3
  <2>2. s.transactions = transactions /\ s.calls = calls /\ StateInv(s, {})
    BY DEF State, LinksIInv
  <2>3. c # NoTask
    BY LinksAssumption DEF NoTask
  <2> HIDE DEF s
  <2>4. taken.calls = s.calls /\ StateInv(taken, {c}) /\ IsPending(taken, c)
    BY <1>3, <2>2, <2>3, TransactionTaken
  <2> HIDE DEF taken, t
  <2>5. Due(taken.calls[c], "timed_out") /\ "timed_out" \in Results
    BY DEF Due, Results
  <2>6. StateInv(t, {}) /\ OnlyCall(taken, t, c)
    BY <2>4, <2>5, ReturnKeeps DEF t
  <2> QED BY <1>1, <2>1, <2>2, <2>4, <2>6, CallReturned DEF LinksIInv
<1> QED BY <1>2, <1>3 DEF TimedOut

LEMMA OtherProcessStep ==
  ASSUME LinksIInv, OtherProcess PROVE LinksIInv' /\ UNCHANGED calls
<1>1. /\ UNCHANGED <<driver, sequence_id, transactions, acks, calls, idle>>
      /\ \E link \in Link : links' = links \cup {link} \/ links' = links \ {link}
  BY ForeignAssumption DEF OtherProcess
<1> DEFINE s == State
           t == [s EXCEPT !.links = links']
<1>2. /\ StateInv(s, {}) /\ s \in LinksState /\ s.links = links /\ s.sequence_id = sequence_id
      /\ s.transactions = transactions /\ s.acks = acks /\ s.calls = calls /\ s.idle = idle
  BY DEF LinksIInv, StateInv, State
<1>3. links \in SUBSET Link /\ IsFiniteSet(links)
  BY <1>2 DEF LinksState
<1>4. links' \in SUBSET Link /\ IsFiniteSet(links')
  BY <1>1, <1>3, FS_AddElement, FS_RemoveElement
<1> HIDE DEF s
<1>5. /\ t \in LinksState /\ t.links = links' /\ t.sequence_id = s.sequence_id
      /\ t.transactions = s.transactions /\ t.acks = s.acks /\ t.calls = s.calls
      /\ t.idle = s.idle
  BY <1>2, <1>4 DEF LinksState
<1> HIDE DEF t
<1>6. StateInv(t, {})
  BY <1>2, <1>5 DEF StateInv, Numbered, Apart, Waiting, IdleDue, AcksDue, CallsKept,
                    InTable, InIdle, IsPending
<1>7. State' = t
  <2>1. Become(t)
    BY <1>1, <1>2, <1>5 DEF Become
  <2> QED BY <1>5, <2>1, Became
<1> QED BY <1>1, <1>6, <1>7 DEF LinksIInv

-----------------------------------------------------------------------------
(* The specification                                                          *)

LEMMA LinksStart == LinksInit => LinksIInv
<1> SUFFICES ASSUME LinksInit PROVE LinksIInv
  OBVIOUS
<1> DEFINE s == State
<1>1. /\ s.links = links /\ s.sequence_id = 0 /\ s.transactions = << >> /\ s.acks = << >>
      /\ s.calls = [c \in Call |-> Unused] /\ s.idle = << >>
  BY DEF LinksInit, State
<1>2. DOMAIN << >> = {}
  OBVIOUS
<1>3. s \in LinksState
  <2>1. links \in SUBSET Link /\ IsFiniteSet(links)
    BY LeftoversAssumption DEF LinksInit
  <2>2. << >> \in Table
    <3>1. << >> \in [{} -> Call \cup {NoTask}] /\ {} \in SUBSET Nat
      BY <1>2
    <3> QED BY <3>1 DEF Table
  <2>3. [c \in Call |-> Unused] \in [Call -> CallRecord \cup {Unused}]
    OBVIOUS
  <2> QED BY <2>1, <2>2, <2>3 DEF LinksInit, State, LinksState
<1>4. Numbered(s) /\ Apart(s) /\ IdleDue(s) /\ AcksDue(s)
  <2> HIDE DEF s
  <2> QED BY <1>1, <1>2 DEF Numbered, Apart, IdleDue, AcksDue, InTable, InIdle
<1>5. \A c \in Call : s.calls[c].op = "none"
  BY <1>1 DEF Unused
<1>6. Waiting(s, {}) /\ CallsKept(s)
  <2> HIDE DEF s
  <2> QED BY <1>1, <1>2, <1>5 DEF Waiting, CallsKept, InTable, InIdle, IsPending
<1> QED BY <1>3, <1>4, <1>6 DEF LinksIInv, StateInv, LinksInit

LEMMA LinksStep ==
  LinksIInv /\ [LinksNext]_linksVars => LinksIInv' /\ CallsStep
<1> SUFFICES ASSUME LinksIInv, [LinksNext]_linksVars PROVE LinksIInv' /\ CallsStep
  OBVIOUS
<1>1. CASE mbim_device_add_link
  BY <1>1, AddStep DEF CallsStep
<1>2. CASE mbim_device_delete_link
  BY <1>2, DelStep DEF CallsStep
<1>3. CASE mbim_device_delete_all_links
  BY <1>3, DeleteAllStep DEF CallsStep
<1>4. CASE Cancel
  BY <1>4, CancelStep DEF CallsStep
<1>5. CASE netlink_message_cb
  BY <1>5, NetlinkStep DEF CallsStep
<1>6. CASE SocketFails
  BY <1>6 DEF SocketFails, fixedVars, LinksIInv, State, CallsStep
<1>7. CASE transaction_timed_out
  BY <1>7, TimedOutStep DEF transaction_timed_out, CallsStep
<1>8. CASE RunIdle
  BY <1>8, RunIdleStep DEF CallsStep
<1>9. CASE OtherProcess
  BY <1>9, OtherProcessStep DEF CallsStep
<1>10. CASE UNCHANGED linksVars
  BY <1>10 DEF linksVars, LinksIInv, State, CallsStep
<1> QED BY <1>1, <1>2, <1>3, <1>4, <1>5, <1>6, <1>7, <1>8, <1>9, <1>10 DEF LinksNext

(* The inductive invariant holds whatever the kernel answers, whichever timer *)
(* expires first, and wherever a call is cancelled.                           *)
THEOREM LinksIInvHolds == LinksSpec => []LinksIInv
<1>1. LinksInit => LinksIInv
  BY LinksStart
<1>2. LinksIInv /\ [LinksNext]_linksVars => LinksIInv'
  BY LinksStep
<1> QED BY <1>1, <1>2, PTL DEF LinksSpec

LEMMA One ==
  ASSUME NEW S, NEW x \in S, \A y \in S : y = x PROVE Cardinality(S) = 1
<1>1. S = {x}
  OBVIOUS
<1> QED BY <1>1, FS_Singleton

LEMMA HeldOnceFromInv == LinksIInv => HeldOnce
<1> SUFFICES ASSUME LinksIInv, NEW c \in Made
             PROVE  LET T == {id \in DOMAIN transactions : transactions[id] = c}
                        I == {i \in DOMAIN idle : idle[i].call = c}
                    IN Cardinality(T) + Cardinality(I) = IF c \in Pending THEN 1 ELSE 0
  BY DEF HeldOnce
<1> DEFINE T == {id \in DOMAIN transactions : transactions[id] = c}
           I == {i \in DOMAIN idle : idle[i].call = c}
<1>1. c \in Call /\ c # NoTask
  BY LinksAssumption DEF Made, NoTask
<1>2. /\ \A p, q \in T : p = q
      /\ \A i, j \in I : i = j
      /\ T = {} \/ I = {}
      /\ T # {} \/ I # {} <=> c \in Pending
  BY <1>1 DEF LinksIInv, StateInv, Apart, Waiting, InTable, InIdle, IsPending, State, Pending, Made
<1> HIDE DEF T, I
<1>3. \A S \in {T, I} : Cardinality(S) = IF S = {} THEN 0 ELSE 1
  BY <1>2, One, FS_EmptySet
<1>4. Cardinality(T) + Cardinality(I) = IF c \in Pending THEN 1 ELSE 0
  BY <1>2, <1>3
<1> QED BY <1>4 DEF T, I

LEMMA AnswersFromInv == LinksIInv => OwnVerdict /\ AllDeleted
BY DEF LinksIInv, StateInv, CallsKept, Kept, State, OwnVerdict, AllDeleted, Made

(* No task of a call is lost and none is returned twice: the transactions     *)
(* and the idle sources together hold each call that has not returned once.   *)
THEOREM HeldOnceHolds == LinksSpec => []HeldOnce
BY LinksIInvHolds, HeldOnceFromInv, PTL

(* A call to add or to delete a link reports what the kernel said to its own  *)
(* request: no late acknowledgement is taken for the one it waits for.        *)
THEOREM OwnVerdictHolds == LinksSpec => []OwnVerdict
BY LinksIInvHolds, AnswersFromInv, PTL

(* mbim_device_delete_all_links() succeeds only when every link it listed was *)
(* deleted, although the list is taken once and worked off out of order.      *)
THEOREM AllDeletedHolds == LinksSpec => []AllDeleted
BY LinksIInvHolds, AnswersFromInv, PTL

LEMMA CallsStepRefines ==
  ASSUME LinksIInv, LinksIInv', CallsStep
  PROVE  [Calls!Next]_(Calls!vars)
<1> DEFINE results == [c \in Call |-> calls[c].result]
<1>1. calls \in [Call -> CallRecord \cup {Unused}] /\ calls' \in [Call -> CallRecord \cup {Unused}]
  BY DEF LinksIInv, StateInv, LinksState, State
<1>2. \A c \in Call : c \in Pending <=> IsPending(State, c)
  BY DEF Pending, Made, IsPending, State
<1>3. \A c \in Call : c \in Pending' <=> calls'[c].op # "none" /\ calls'[c].result = "pending"
  BY DEF Pending, Made
<1>4. Pending \subseteq Call /\ Pending' \subseteq Call
  BY DEF Pending, Made
<1>5. CASE UNCHANGED calls
  BY <1>5 DEF Calls!vars, Pending, Made
<1>6. ASSUME NEW c \in Call, Asked(c) PROVE Calls!Next
  <2>1. calls[c] = Unused /\ calls[c].result = "pending" /\ c \notin Pending
    <3>1. calls[c].op = "none"
      BY <1>6 DEF Asked
    <3>2. calls[c] \notin CallRecord
      BY <3>1 DEF CallRecord, Op
    <3>3. calls[c] = Unused
      BY <1>1, <3>2
    <3> QED BY <3>1, <3>3 DEF Unused, Pending, Made
  <2>2. Pending' = Pending \cup {c}
    BY <1>2, <1>3, <1>4, <1>6 DEF Asked, IsPending, State
  <2>3. results' = results
    BY <1>6, <2>1 DEF Asked
  <2>4. Calls!Accept(c)
    BY <2>1, <2>2, <2>3 DEF Calls!Accept
  <2> QED BY <2>4 DEF Calls!Next
<1>7. ASSUME NEW c \in Call, Stepped(c) PROVE [Calls!Next]_(Calls!vars)
  <2>1. /\ \A d \in Call \ {c} : calls'[d] = calls[d]
        /\ calls'[c].op = calls[c].op /\ calls[c].op # "none" /\ calls[c].result = "pending"
        /\ c \in Pending
    BY <1>2, <1>7 DEF Stepped, OnlyCall, IsPending, State
  <2>2. CASE calls'[c].result = "pending"
    <3>1. Pending' = Pending
      BY <1>2, <1>3, <1>4, <2>1, <2>2 DEF IsPending, State
    <3>2. results' = results
      BY <2>1, <2>2
    <3> QED BY <3>1, <3>2 DEF Calls!vars
  <2>3. CASE calls'[c].result # "pending"
    <3>1. PICK answer \in Results : calls'[c].result = answer
      BY <1>1, <2>1, <2>3 DEF CallRecord, Unused
    <3>2. Pending' = Pending \ {c}
      BY <1>2, <1>3, <1>4, <2>1, <2>3 DEF IsPending, State
    <3>3. results' = [results EXCEPT ![c] = answer]
      BY <2>1, <3>1
    <3>4. Calls!Answer(c, answer)
      BY <2>1, <3>2, <3>3 DEF Calls!Answer
    <3> QED BY <3>4 DEF Calls!Next
  <2> QED BY <2>2, <2>3
<1>8. [Calls!Next]_(Calls!vars) \/ \E c \in Call : Asked(c) \/ Stepped(c)
  BY <1>5 DEF CallsStep
<1> QED BY <1>6, <1>7, <1>8

(* Every step of the links is a call that is made, a call that is answered    *)
(* for the first and last time, or none (the safety part of CallsAnswered).   *)
THEOREM LinksRefineCalls == LinksSpec => Calls!Spec
<1>1. LinksInit => Calls!Init
  BY DEF LinksInit, Calls!Init, Pending, Made, Unused
<1>2. LinksIInv /\ LinksIInv' /\ [LinksNext]_linksVars => [Calls!Next]_(Calls!vars)
  BY LinksStep, CallsStepRefines
<1> QED BY <1>1, <1>2, LinksIInvHolds, PTL DEF LinksSpec, Calls!Spec
=============================================================================
