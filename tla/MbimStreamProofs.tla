--------------------------- MODULE MbimStreamProofs ---------------------------
(***************************************************************************)
(* The type invariant of MbimStream, that a message which the collector    *)
(* declares complete is the message that was sent, and that nothing is     *)
(* lost as long as nothing goes wrong, for any messages, payloads, maximum *)
(* control transfers and numbers of faults.                                *)
(*                                                                         *)
(* StreamIInv is the inductive invariant.  FramingInv says that what was   *)
(* written and not parsed yet is a run of messages, each as long as its    *)
(* header says and followed by the next; CollectorInv that a collector     *)
(* holds the first fragments of its message and no others, unless bytes    *)
(* that are no header were taken for one of them, which is what            *)
(* WholeOrNothing needs; OrderInv that of each message the fragments       *)
(* written and not collected are in the buffer once each, in their order,  *)
(* which is what NothingLost needs.                                        *)
(***************************************************************************)
EXTENDS MbimStream, TLAPS

-----------------------------------------------------------------------------
(* Fragments: i carries the payload from Start(i) to Start(i + 1).            *)

Start(room, n, i) == IF i * room > n THEN n ELSE i * room
Total(room, n) == IF n <= room THEN 1
                  ELSE (n \div room) + (IF n % room = 0 THEN 0 ELSE 1)

(* Multiplication by a number keeps the order.                                *)
LEMMA TimesMonotone ==
  ASSUME NEW a \in Nat, NEW b \in Nat, NEW c \in Nat, a <= b
  PROVE  a * c <= b * c
<1>1. b * c = a * c + (b - a) * c
  OBVIOUS
<1>2. (b - a) \in Nat /\ (b - a) * c \in Nat
  OBVIOUS
<1> QED BY <1>1, <1>2

(* There is at least one fragment, all but the last are full, and together    *)
(* they hold the payload.                                                     *)
LEMMA TotalFacts ==
  ASSUME NEW room \in Nat \ {0}, NEW n \in Nat
  PROVE  /\ Total(room, n) \in Nat \ {0}
         /\ n <= Total(room, n) * room
         /\ \A i \in 0..Total(room, n) - 1 : i * room <= n
<1>1. CASE n <= room
  <2>1. Total(room, n) = 1
    BY <1>1 DEF Total
  <2>2. \A i \in 0..0 : i * room = 0
    OBVIOUS
  <2> QED BY <1>1, <2>1, <2>2
<1>2. CASE n > room
  <2> DEFINE q == n \div room
             r == n % room
  <2>1. q \in Nat /\ r \in Nat /\ r < room
    OBVIOUS
  <2>2. n = q * room + r
    OBVIOUS
  <2>3. Total(room, n) = q + (IF r = 0 THEN 0 ELSE 1)
    BY <1>2 DEF Total
  <2> HIDE DEF q, r
  <2>4. q # 0
    BY <1>2, <2>1, <2>2
  <2>5. (q + 1) * room = q * room + room /\ q * room \in Nat
    BY <2>1
  <2>6. n <= Total(room, n) * room
    BY <2>1, <2>2, <2>3, <2>5
  <2>7. ASSUME NEW i \in 0..Total(room, n) - 1
        PROVE  i * room <= n
    <3>1. i \in Nat /\ i <= q
      BY <2>1, <2>3
    <3>2. i * room <= q * room /\ i * room \in Nat
      BY <3>1, <2>1, TimesMonotone
    <3> QED BY <2>1, <2>2, <2>5, <3>2
  <2> QED BY <2>1, <2>3, <2>4, <2>6, <2>7
<1> QED BY <1>1, <1>2

(* The fragments start at 0, one after another, end with the payload, and     *)
(* carry what _mbim_message_split_fragments() computes.                       *)
LEMMA StartFacts ==
  ASSUME NEW room \in Nat \ {0}, NEW n \in Nat
  PROVE  /\ Start(room, n, 0) = 0
         /\ Start(room, n, Total(room, n)) = n
         /\ \A i \in Nat : Start(room, n, i) \in Nat /\ Start(room, n, i) <= n
         /\ \A i \in 0..Total(room, n) - 1 :
              /\ Start(room, n, i) = i * room
              /\ Start(room, n, i) <= Start(room, n, i + 1)
              /\ Start(room, n, i + 1) =
                   i * room + (IF n - i * room > room THEN room ELSE n - i * room)
<1>1. Start(room, n, 0) = 0
  BY DEF Start
<1>2. Start(room, n, Total(room, n)) = n
  <2> DEFINE total == Total(room, n)
  <2>1. total \in Nat /\ n <= total * room
    BY TotalFacts
  <2> HIDE DEF total
  <2>2. total * room \in Nat
    BY <2>1
  <2>3. Start(room, n, total) = n
    BY <2>1, <2>2 DEF Start
  <2> QED BY <2>3 DEF total
<1>3. ASSUME NEW i \in Nat
      PROVE  Start(room, n, i) \in Nat /\ Start(room, n, i) <= n
  <2>1. i * room \in Nat
    OBVIOUS
  <2> QED BY <2>1 DEF Start
<1>4. ASSUME NEW i \in 0..Total(room, n) - 1
      PROVE  /\ Start(room, n, i) = i * room
             /\ Start(room, n, i) <= Start(room, n, i + 1)
             /\ Start(room, n, i + 1) =
                  i * room + (IF n - i * room > room THEN room ELSE n - i * room)
  <2>1. i \in Nat /\ i * room \in Nat /\ i * room <= n
    BY TotalFacts
  <2>2. (i + 1) * room = i * room + room
    BY <2>1
  <2>3. Start(room, n, i) = i * room
    BY <2>1 DEF Start
  <2>4. Start(room, n, i + 1) = IF i * room + room > n THEN n ELSE i * room + room
    BY <2>1, <2>2 DEF Start
  <2> QED BY <2>1, <2>3, <2>4
<1> QED BY <1>1, <1>2, <1>3, <1>4

-----------------------------------------------------------------------------
(* Units and messages.                                                        *)

PayloadUnit(m, i) == [head |-> FALSE, of |-> m, at |-> i]

HeaderUnit == [head : {TRUE}, id : Nat, type : Types, length : Nat,
               total : Nat, current : Nat, needs : Nat]
Unit == HeaderUnit \cup {Filler} \cup [head : {FALSE}, of : Message, at : Nat]

(* The header of a fragment, or of a message that has none.                   *)
SentHeader(lengths, room, header) ==
  LET n == lengths[header.id]
  IN /\ header.id \in DOMAIN lengths
     /\ header.type = "fragment" \/ (header.type = "single" /\ n = 0)
     /\ header.total = Total(room, n) /\ header.current < Total(room, n)
     /\ header.length = FragmentHeader + Start(room, n, header.current + 1)
                                       - Start(room, n, header.current)
     /\ header.needs <= header.length

InvalidHeader(header) == header.id = 0 /\ ~ValidateInternal(header)

(* What follows the header at j is its part of the payload.                   *)
PayloadAt(lengths, room, units, j) ==
  LET header == units[j]
      start == Start(room, lengths[header.id], header.current)
  IN \A k \in 1..header.length - FragmentHeader :
       units[j + 1 + k] = PayloadUnit(header.id, start + k)

(* A message begins at j: it is all there, and the next follows it.           *)
MessageAt(lengths, room, units, j) ==
  LET header == units[j]
      next == j + header.length
  IN /\ header.length > 0 /\ header.length <= room + FragmentHeader
     /\ next - 1 <= Len(units)
     /\ \A k \in j + 1 .. next - 1 : ~units[k].head
     /\ next <= Len(units) => units[next].head
     /\ \/ InvalidHeader(header)
        \/ SentHeader(lengths, room, header) /\ PayloadAt(lengths, room, units, j)

Framed(lengths, room, units) ==
  \A j \in 1..Len(units) : units[j].head => MessageAt(lengths, room, units, j)

(* A write: one message and nothing else.                                     *)
FramedWrite(lengths, room, write) ==
  /\ write \in Seq(Unit) /\ write # << >> /\ write[1].head
  /\ write[1].length = Len(write)
  /\ MessageAt(lengths, room, write, 1)

HeadOf(unit, m) == unit.head /\ unit.id = m

(* The headers of m among the units are those of its fragments low, low + 1   *)
(* and so on, up to high - 1, in this order.                                  *)
InOrder(units, m, low, high) ==
  /\ low <= high
  /\ \A i \in low..high - 1 : \E j \in 1..Len(units) :
       HeadOf(units[j], m) /\ units[j].current = i
  /\ \A j \in 1..Len(units) : HeadOf(units[j], m) => units[j].current \in low..high - 1
  /\ \A j \in 1..Len(units) : \A k \in j + 1..Len(units) :
       HeadOf(units[j], m) /\ HeadOf(units[k], m) => units[j].current < units[k].current

Rest(units, n) == SubSeq(units, n + 1, Len(units))

(* A unit that is a header has the fields of one.                             *)
LEMMA HeaderFields ==
  ASSUME NEW u \in Unit, u.head
  PROVE  /\ u \in HeaderUnit
         /\ u.id \in Nat /\ u.type \in Types /\ u.length \in Nat
         /\ u.total \in Nat /\ u.current \in Nat /\ u.needs \in Nat
<1>1. u # Filler
  <2>1. Filler.head = FALSE
    BY DEF Filler
  <2> QED BY <2>1
<1>2. u \notin [head : {FALSE}, of : Message, at : Nat]
  OBVIOUS
<1>3. u \in HeaderUnit
  BY <1>1, <1>2 DEF Unit
<1> QED BY <1>3 DEF HeaderUnit

(* What is left of a buffer after its first n units.                          *)
LEMMA RestUnits ==
  ASSUME NEW units \in Seq(Unit), NEW n \in 0..Len(units)
  PROVE  /\ Rest(units, n) \in Seq(Unit)
         /\ Len(Rest(units, n)) = Len(units) - n
         /\ \A j \in 1..Len(units) - n : Rest(units, n)[j] = units[n + j]
<1>1. Len(units) \in Nat
  OBVIOUS
<1>2. /\ Len(Rest(units, n)) = Len(units) - n
      /\ \A j \in 1..Len(units) - n : Rest(units, n)[j] = units[n + j]
  BY <1>1 DEF Rest
<1>3. Rest(units, n) \in Seq(Unit)
  BY <1>1 DEF Rest
<1> QED BY <1>2, <1>3

(* What is appended comes after what is there.                                *)
LEMMA JoinedUnits ==
  ASSUME NEW units \in Seq(Unit), NEW more \in Seq(Unit)
  PROVE  /\ units \o more \in Seq(Unit)
         /\ Len(units \o more) = Len(units) + Len(more)
         /\ \A j \in 1..Len(units) : (units \o more)[j] = units[j]
         /\ \A j \in 1..Len(more) : (units \o more)[Len(units) + j] = more[j]
  OBVIOUS

(* Whatever is dropped from the front, the messages that are left are framed. *)
LEMMA FramedRest ==
  ASSUME NEW lengths, NEW room \in Nat,
         NEW units \in Seq(Unit), NEW n \in 0..Len(units), Framed(lengths, room, units)
  PROVE  Framed(lengths, room, Rest(units, n))
<1> DEFINE rest == Rest(units, n)
<1>1. /\ rest \in Seq(Unit) /\ Len(rest) = Len(units) - n
      /\ \A j \in 1..Len(units) - n : rest[j] = units[n + j]
  BY RestUnits
<1>2. Len(units) \in Nat /\ Len(rest) \in Nat
  BY <1>1
<1> HIDE DEF rest
<1> SUFFICES ASSUME NEW j \in 1..Len(rest), rest[j].head
             PROVE  MessageAt(lengths, room, rest, j)
  BY DEF Framed, rest
<1>3. n + j \in 1..Len(units) /\ rest[j] = units[n + j]
  BY <1>1, <1>2
<1>4. MessageAt(lengths, room, units, n + j)
  BY <1>3 DEF Framed
<1> DEFINE length == units[n + j].length
<1>5. length \in Nat /\ length > 0 /\ length <= room + FragmentHeader
      /\ n + j + length - 1 <= Len(units) /\ n \in Nat /\ j \in Nat
  BY <1>3, <1>4, HeaderFields DEF MessageAt
<1> HIDE DEF length
<1>6. \A k \in j + 1 .. j + length - 1 : ~rest[k].head
  <2> SUFFICES ASSUME NEW k \in j + 1 .. j + length - 1
               PROVE  ~rest[k].head
    OBVIOUS
  <2>1. n + k \in (n + j) + 1 .. (n + j) + length - 1 /\ k \in 1..Len(units) - n
    BY <1>2, <1>5
  <2>2. \A i \in (n + j) + 1 .. (n + j) + length - 1 : ~units[i].head
    BY <1>4, <1>5 DEF MessageAt, length
  <2> QED BY <2>1, <2>2, <1>1
<1>7. j + length <= Len(rest) => rest[j + length].head
  <2> SUFFICES ASSUME j + length <= Len(rest)
               PROVE  rest[j + length].head
    OBVIOUS
  <2>1. n + j + length <= Len(units) /\ j + length \in 1..Len(units) - n
    BY <1>1, <1>2, <1>5
  <2>2. units[n + j + length].head
    BY <1>4, <2>1 DEF MessageAt, length
  <2>3. rest[j + length] = units[n + (j + length)] /\ n + (j + length) = n + j + length
    BY <1>1, <2>1, <1>5
  <2> QED BY <2>2, <2>3
<1>8. InvalidHeader(rest[j]) \/ (SentHeader(lengths, room, rest[j])
                                   /\ PayloadAt(lengths, room, rest, j))
  <2>1. CASE InvalidHeader(units[n + j])
    BY <2>1, <1>3
  <2>2. CASE /\ SentHeader(lengths, room, units[n + j])
             /\ PayloadAt(lengths, room, units, n + j)
    <3>1. ASSUME NEW k \in 1..length - FragmentHeader
          PROVE  rest[j + 1 + k] = units[n + j + 1 + k]
      <4>1. j + 1 + k \in 1..Len(units) - n /\ n + (j + 1 + k) = n + j + 1 + k
        BY <1>2, <1>5 DEF FragmentHeader
      <4> QED BY <4>1, <1>1
    <3>2. PayloadAt(lengths, room, rest, j)
      BY <2>2, <3>1, <1>3 DEF PayloadAt, length
    <3> QED BY <2>2, <3>2, <1>3
  <2> QED BY <2>1, <2>2, <1>4 DEF MessageAt
<1>9. j + length - 1 <= Len(rest)
  BY <1>1, <1>5
<1>10. rest[j].length = length
  BY <1>3 DEF length
<1> QED BY <1>5, <1>6, <1>7, <1>8, <1>9, <1>10 DEF MessageAt

(* A write that is one message leaves the buffer framed.                      *)
LEMMA FramedJoined ==
  ASSUME NEW lengths, NEW room \in Nat,
         NEW units \in Seq(Unit), Framed(lengths, room, units),
         NEW write, FramedWrite(lengths, room, write)
  PROVE  Framed(lengths, room, units \o write)
<1> DEFINE all == units \o write
<1>0. write \in Seq(Unit)
  BY DEF FramedWrite
<1>1. /\ all \in Seq(Unit) /\ Len(all) = Len(units) + Len(write)
      /\ \A j \in 1..Len(units) : all[j] = units[j]
      /\ \A j \in 1..Len(write) : all[Len(units) + j] = write[j]
  BY <1>0, JoinedUnits
<1>2. Len(units) \in Nat /\ Len(write) \in Nat /\ Len(all) \in Nat
  BY <1>0, <1>1
<1>3. /\ Len(write) > 0 /\ write[1].head /\ write[1].length = Len(write)
      /\ MessageAt(lengths, room, write, 1)
  BY <1>0 DEF FramedWrite
<1> HIDE DEF all
<1> SUFFICES ASSUME NEW j \in 1..Len(all), all[j].head
             PROVE  MessageAt(lengths, room, all, j)
  BY DEF Framed, all
<1>4. CASE j <= Len(units)
  <2> DEFINE length == units[j].length
  <2>1. all[j] = units[j] /\ MessageAt(lengths, room, units, j)
    BY <1>1, <1>2, <1>4 DEF Framed
  <2>2. length \in Nat /\ length > 0 /\ length <= room + FragmentHeader
        /\ j + length - 1 <= Len(units) /\ j \in 1..Len(units) /\ j \in Nat
    BY <2>1, <1>1, <1>2, <1>4, HeaderFields DEF MessageAt
  <2> HIDE DEF length
  <2>3. \A k \in j + 1 .. j + length - 1 : ~all[k].head
    <3> SUFFICES ASSUME NEW k \in j + 1 .. j + length - 1
                 PROVE  ~all[k].head
      OBVIOUS
    <3>1. k \in 1..Len(units)
      BY <2>2, <1>2
    <3>2. \A i \in j + 1 .. j + length - 1 : ~units[i].head
      BY <2>1, <2>2 DEF MessageAt, length
    <3> QED BY <3>1, <3>2, <1>1
  <2>4. j + length <= Len(all) => all[j + length].head
    <3>1. CASE j + length <= Len(units)
      <4>1. units[j + length].head
        BY <3>1, <2>1 DEF MessageAt, length
      <4>2. j + length \in 1..Len(units)
        BY <3>1, <2>2, <1>2
      <4> QED BY <4>1, <4>2, <1>1
    <3>2. CASE j + length = Len(units) + 1
      BY <3>2, <1>1, <1>2, <1>3
    <3> QED BY <3>1, <3>2, <2>2, <1>2
  <2>5. InvalidHeader(all[j]) \/ (SentHeader(lengths, room, all[j])
                                   /\ PayloadAt(lengths, room, all, j))
    <3>1. CASE InvalidHeader(units[j])
      BY <3>1, <2>1
    <3>2. CASE /\ SentHeader(lengths, room, units[j])
               /\ PayloadAt(lengths, room, units, j)
      <4>1. ASSUME NEW k \in 1..length - FragmentHeader
            PROVE  all[j + 1 + k] = units[j + 1 + k]
        <5>1. j + 1 + k \in 1..Len(units)
          BY <2>2, <1>2, <1>4 DEF FragmentHeader
        <5> QED BY <5>1, <1>1
      <4>2. PayloadAt(lengths, room, all, j)
        BY <3>2, <4>1, <2>1 DEF PayloadAt, length
      <4> QED BY <3>2, <4>2, <2>1
    <3> QED BY <3>1, <3>2, <2>1 DEF MessageAt
  <2>6. j + length - 1 <= Len(all)
    BY <2>2, <1>1, <1>2, <1>4
  <2>7. all[j].length = length
    BY <2>1 DEF length
  <2> QED BY <2>2, <2>3, <2>4, <2>5, <2>6, <2>7 DEF MessageAt
<1>5. CASE j > Len(units)
  <2> DEFINE i == j - Len(units)
  <2>1. i \in 1..Len(write) /\ all[j] = write[i] /\ j = Len(units) + i
    BY <1>1, <1>2, <1>5
  <2>2. i = 1
    <3> SUFFICES ASSUME i # 1 PROVE FALSE
      OBVIOUS
    <3>1. i \in 1 + 1 .. 1 + write[1].length - 1
      BY <2>1, <1>2, <1>3
    <3> QED BY <3>1, <2>1, <1>3 DEF MessageAt
  <2>3. all[j] = write[1] /\ j = Len(units) + 1
    BY <2>1, <2>2
  <2>4. Len(write) <= room + FragmentHeader /\ j + Len(write) - 1 = Len(all)
    BY <1>1, <1>2, <1>3, <2>3 DEF MessageAt
  <2>5. \A k \in j + 1 .. j + Len(write) - 1 : ~all[k].head
    <3> SUFFICES ASSUME NEW k \in j + 1 .. j + Len(write) - 1
                 PROVE  ~all[k].head
      OBVIOUS
    <3>1. k - Len(units) \in 1 + 1 .. 1 + write[1].length - 1 /\ k - Len(units) \in 1..Len(write)
          /\ k = Len(units) + (k - Len(units))
      BY <1>2, <1>3, <2>3
    <3>2. all[k] = write[k - Len(units)]
      BY <3>1, <1>1
    <3> QED BY <3>1, <3>2, <1>3 DEF MessageAt
  <2>6. InvalidHeader(all[j]) \/ (SentHeader(lengths, room, all[j])
                                   /\ PayloadAt(lengths, room, all, j))
    <3>1. CASE InvalidHeader(write[1])
      BY <3>1, <2>3
    <3>2. CASE /\ SentHeader(lengths, room, write[1])
               /\ PayloadAt(lengths, room, write, 1)
      <4>1. ASSUME NEW k \in 1..Len(write) - FragmentHeader
            PROVE  all[j + 1 + k] = write[1 + 1 + k]
        <5>1. 1 + 1 + k \in 1..Len(write) /\ j + 1 + k = Len(units) + (1 + 1 + k)
          BY <2>3, <1>2 DEF FragmentHeader
        <5> QED BY <5>1, <1>1
      <4>2. PayloadAt(lengths, room, all, j)
        BY <3>2, <4>1, <2>3, <1>3 DEF PayloadAt
      <4> QED BY <3>2, <4>2, <2>3
    <3> QED BY <3>1, <3>2, <1>3 DEF MessageAt
  <2>7. ~(j + Len(write) <= Len(all))
    BY <2>3, <2>4, <1>1, <1>2
  <2> QED BY <1>3, <1>2, <2>3, <2>4, <2>5, <2>6, <2>7 DEF MessageAt
<1> QED BY <1>4, <1>5, <1>1, <1>2

(* Dropping the units up to the next header takes at most the next fragment   *)
(* of m.                                                                      *)
LEMMA InOrderRest ==
  ASSUME NEW units \in Seq(Unit), NEW n \in 1..Len(units), NEW m,
         NEW low \in Nat, NEW high \in Nat,
         \A k \in 2..n : ~units[k].head,
         InOrder(units, m, low, high)
  PROVE  IF HeadOf(units[1], m)
         THEN units[1].current = low /\ InOrder(Rest(units, n), m, low + 1, high)
         ELSE InOrder(Rest(units, n), m, low, high)
<1> DEFINE rest == Rest(units, n)
<1>1. /\ rest \in Seq(Unit) /\ Len(rest) = Len(units) - n
      /\ \A j \in 1..Len(units) - n : rest[j] = units[n + j]
  BY RestUnits
<1>2. Len(units) \in Nat /\ Len(rest) \in Nat /\ n \in Nat /\ n > 0
  BY <1>1
<1> HIDE DEF rest
<1>3. \A j \in 1..Len(rest) : n + j \in 2..Len(units) /\ rest[j] = units[n + j]
  BY <1>1, <1>2
<1>4. ASSUME NEW j \in 1..Len(units), HeadOf(units[j], m), j # 1
      PROVE  \E i \in 1..Len(rest) : rest[i] = units[j] /\ j = n + i
  <2>1. j > n
    BY <1>2, <1>4 DEF HeadOf
  <2>2. j - n \in 1..Len(rest) /\ n + (j - n) = j
    BY <2>1, <1>1, <1>2
  <2> QED BY <2>2, <1>3
<1>5. ASSUME NEW j \in 1..Len(rest), HeadOf(rest[j], m), NEW k \in j + 1..Len(rest), HeadOf(rest[k], m)
      PROVE  rest[j].current < rest[k].current
  <2>1. n + j \in 1..Len(units) /\ n + k \in (n + j) + 1..Len(units)
        /\ rest[j] = units[n + j] /\ rest[k] = units[n + k]
    BY <1>1, <1>2, <1>3
  <2> QED BY <2>1, <1>5 DEF InOrder
<1>6. CASE HeadOf(units[1], m)
  <2>1. units[1].current \in low..high - 1 /\ 1 \in 1..Len(units)
    BY <1>6, <1>2 DEF InOrder
  <2>2. units[1].current = low
    <3>1. PICK j \in 1..Len(units) : HeadOf(units[j], m) /\ units[j].current = low
      BY <2>1 DEF InOrder
    <3>2. CASE j # 1
      <4>1. j \in 1 + 1..Len(units)
        BY <3>2, <1>2
      <4>2. units[1].current < low
        BY <4>1, <2>1, <3>1, <1>6 DEF InOrder
      <4> QED BY <4>2, <2>1
    <3> QED BY <3>1, <3>2
  <2>3. low + 1 <= high /\ low + 1 \in Nat
    BY <2>1
  <2>4. ASSUME NEW i \in low + 1..high - 1
        PROVE  \E j \in 1..Len(rest) : HeadOf(rest[j], m) /\ rest[j].current = i
    <3>1. PICK j \in 1..Len(units) : HeadOf(units[j], m) /\ units[j].current = i
      BY <2>4 DEF InOrder
    <3>2. j # 1
      BY <3>1, <2>2
    <3> QED BY <3>1, <3>2, <1>4
  <2>5. ASSUME NEW j \in 1..Len(rest), HeadOf(rest[j], m)
        PROVE  rest[j].current \in low + 1..high - 1
    <3>1. n + j \in 1 + 1..Len(units) /\ n + j \in 1..Len(units) /\ rest[j] = units[n + j]
      BY <1>2, <1>3
    <3>2. rest[j].current \in low..high - 1
      BY <2>5, <3>1 DEF InOrder
    <3>3. low < rest[j].current
      BY <2>1, <2>2, <2>5, <3>1, <1>6 DEF InOrder
    <3> QED BY <3>2, <3>3
  <2> QED BY <1>5, <1>6, <2>2, <2>3, <2>4, <2>5 DEF InOrder, rest
<1>7. CASE ~HeadOf(units[1], m)
  <2>1. ASSUME NEW i \in low..high - 1
        PROVE  \E j \in 1..Len(rest) : HeadOf(rest[j], m) /\ rest[j].current = i
    <3>1. PICK j \in 1..Len(units) : HeadOf(units[j], m) /\ units[j].current = i
      BY <2>1 DEF InOrder
    <3>2. j # 1
      BY <3>1, <1>7
    <3> QED BY <3>1, <3>2, <1>4
  <2>2. ASSUME NEW j \in 1..Len(rest), HeadOf(rest[j], m)
        PROVE  rest[j].current \in low..high - 1
    <3>1. n + j \in 1..Len(units) /\ rest[j] = units[n + j]
      BY <1>2, <1>3
    <3> QED BY <2>2, <3>1 DEF InOrder
  <2>3. low <= high
    BY DEF InOrder
  <2> QED BY <1>5, <1>7, <2>1, <2>2, <2>3 DEF InOrder, rest
<1> QED BY <1>6, <1>7

(* A write adds at most the next fragment of m, at the end.                   *)
LEMMA InOrderJoined ==
  ASSUME NEW units \in Seq(Unit), NEW write \in Seq(Unit), NEW m,
         NEW low \in Nat, NEW high \in Nat,
         write # << >>,
         \A k \in 2..Len(write) : ~write[k].head,
         InOrder(units, m, low, high),
         HeadOf(write[1], m) => write[1].current = high
  PROVE  InOrder(units \o write, m, low, IF HeadOf(write[1], m) THEN high + 1 ELSE high)
<1> DEFINE all == units \o write
           top == IF HeadOf(write[1], m) THEN high + 1 ELSE high
           first == Len(units) + 1
<1>1. /\ all \in Seq(Unit) /\ Len(all) = Len(units) + Len(write)
      /\ \A j \in 1..Len(units) : all[j] = units[j]
      /\ \A j \in 1..Len(write) : all[Len(units) + j] = write[j]
  BY JoinedUnits
<1>2. Len(units) \in Nat /\ Len(write) \in Nat /\ Len(write) > 0
  OBVIOUS
<1> HIDE DEF all, top
<1>3. first \in 1..Len(all) /\ all[first] = write[1]
  BY <1>1, <1>2
<1>4. ASSUME NEW j \in 1..Len(all), HeadOf(all[j], m), j # first
      PROVE  j \in 1..Len(units) /\ all[j] = units[j] /\ HeadOf(units[j], m)
  <2>1. CASE j <= Len(units)
    BY <2>1, <1>1, <1>2, <1>4
  <2>2. CASE j > Len(units)
    <3>1. j - Len(units) \in 2..Len(write) /\ Len(units) + (j - Len(units)) = j
      BY <2>2, <1>1, <1>2, <1>4
    <3>2. all[j] = write[j - Len(units)] /\ ~write[j - Len(units)].head
      BY <3>1, <1>1, <1>2
    <3> QED BY <3>2, <1>4 DEF HeadOf
  <2> QED BY <2>1, <2>2, <1>1, <1>2
<1>5. top \in Nat /\ low <= high /\ high <= top
  BY DEF top, InOrder
<1>6. HeadOf(write[1], m) => top = high + 1 /\ write[1].current = high
  BY DEF top
<1>7. ASSUME NEW i \in low..top - 1
      PROVE  \E j \in 1..Len(all) : HeadOf(all[j], m) /\ all[j].current = i
  <2>1. CASE i <= high - 1
    <3>1. PICK j \in 1..Len(units) : HeadOf(units[j], m) /\ units[j].current = i
      BY <2>1, <1>5 DEF InOrder
    <3>2. j \in 1..Len(all) /\ all[j] = units[j]
      BY <1>1, <1>2
    <3> QED BY <3>1, <3>2
  <2>2. CASE i > high - 1
    <3>1. HeadOf(write[1], m) /\ i = high
      BY <2>2, <1>5 DEF top
    <3> QED BY <3>1, <1>3, <1>6
  <2> QED BY <2>1, <2>2, <1>5
<1>8. ASSUME NEW j \in 1..Len(all), HeadOf(all[j], m)
      PROVE  all[j].current \in low..top - 1
  <2>1. CASE j = first
    BY <2>1, <1>3, <1>5, <1>6, <1>8
  <2>2. CASE j # first
    <3>1. j \in 1..Len(units) /\ all[j] = units[j] /\ HeadOf(units[j], m)
      BY <2>2, <1>4, <1>8
    <3>2. units[j].current \in low..high - 1
      BY <3>1 DEF InOrder
    <3>3. \A c \in low..high - 1 : c \in low..top - 1
      BY <1>5
    <3> QED BY <3>1, <3>2, <3>3
  <2> QED BY <2>1, <2>2
<1>9. ASSUME NEW j \in 1..Len(all), NEW k \in j + 1..Len(all), HeadOf(all[j], m), HeadOf(all[k], m)
      PROVE  all[j].current < all[k].current
  <2>1. k \in 1..Len(all) /\ j < k
    BY <1>1, <1>2
  <2>2. CASE k = first
    <3>1. all[k].current = high
      BY <2>2, <1>3, <1>6, <1>9
    <3>2. j # first
      BY <2>1, <2>2, <1>2
    <3>3. j \in 1..Len(units) /\ all[j] = units[j] /\ HeadOf(units[j], m)
      BY <3>2, <1>4, <1>9
    <3>4. units[j].current \in low..high - 1
      BY <3>3 DEF InOrder
    <3> QED BY <3>1, <3>3, <3>4
  <2>3. CASE k # first
    <3>1. k \in 1..Len(units) /\ all[k] = units[k] /\ HeadOf(units[k], m)
      BY <2>1, <2>3, <1>4, <1>9
    <3>2. j # first
      BY <3>1, <2>1, <1>2
    <3>3. j \in 1..Len(units) /\ all[j] = units[j] /\ HeadOf(units[j], m)
      BY <3>2, <1>4, <1>9
    <3>4. k \in j + 1..Len(units)
      BY <2>1, <3>1, <3>3, <1>2
    <3> QED BY <3>1, <3>3, <3>4 DEF InOrder
  <2> QED BY <2>2, <2>3
<1>10. low <= top
  BY <1>5
<1> QED BY <1>7, <1>8, <1>9, <1>10 DEF InOrder, all, top

(* The payload of a message and its units.                                    *)
LEMMA PayloadFacts ==
  ASSUME NEW m \in Message, NEW n \in Nat
  PROVE  /\ Payload(m, n) \in Seq(Unit)
         /\ Len(Payload(m, n)) = n
         /\ \A i \in 1..n : Payload(m, n)[i] = PayloadUnit(m, i)
<1>1. \A i \in 1..n : PayloadUnit(m, i) \in Unit
  BY DEF PayloadUnit, Unit
<1>2. Payload(m, n) = [i \in 1..n |-> PayloadUnit(m, i)]
  BY DEF Payload, PayloadUnit
<1> QED BY <1>1, <1>2

(* The messages are transaction ids, and 0 is none of them.                   *)
LEMMA MessageIsNat == Message \subseteq Nat \ {0}
  BY StreamAssumption

(* write is fragment i of m, and data the payload in it.                      *)
FragmentOf(lengths, room, m, type, i, needs, data, write) ==
  LET n == lengths[m]
      start == Start(room, n, i)
  IN /\ m \in Message /\ m \in DOMAIN lengths /\ n \in Nat
     /\ type = "fragment" \/ (type = "single" /\ n = 0)
     /\ i \in 0..Total(room, n) - 1
     /\ data \in Seq(Unit) /\ Len(data) = Start(room, n, i + 1) - start
     /\ \A k \in 1..Len(data) : data[k] = PayloadUnit(m, start + k)
     /\ needs \in Nat /\ needs <= FragmentHeader + Len(data)
     /\ write = << Header(m, type, FragmentHeader + Len(data), Total(room, n), i, needs), Filler >>
                \o data

(* A fragment is framed, and its header is one that was sent.                 *)
LEMMA FragmentFramed ==
  ASSUME NEW lengths, NEW room \in Nat \ {0}, NEW m, NEW type, NEW i, NEW needs, NEW data, NEW write,
         FragmentOf(lengths, room, m, type, i, needs, data, write)
  PROVE  /\ FramedWrite(lengths, room, write)
         /\ SentHeader(lengths, room, write[1])
         /\ write[1].id = m /\ write[1].current = i
<1> DEFINE header == Header(m, type, FragmentHeader + Len(data), Total(room, lengths[m]), i, needs)
           total == Total(room, lengths[m])
           start == Start(room, lengths[m], i)
           end == Start(room, lengths[m], i + 1)
<1>0. /\ m \in Message /\ m \in DOMAIN lengths /\ lengths[m] \in Nat
      /\ type = "fragment" \/ (type = "single" /\ lengths[m] = 0)
      /\ i \in 0..total - 1
      /\ data \in Seq(Unit) /\ Len(data) = end - start
      /\ \A k \in 1..Len(data) : data[k] = PayloadUnit(m, start + k)
      /\ needs \in Nat /\ needs <= FragmentHeader + Len(data)
      /\ write = << header, Filler >> \o data
  BY DEF FragmentOf
<1>1. total \in Nat \ {0} /\ i \in Nat /\ i < total /\ Len(data) \in Nat
  <2>1. total \in Nat \ {0}
    BY <1>0, TotalFacts
  <2> QED BY <1>0, <2>1
<1>2. start \in Nat /\ end \in Nat /\ start <= end /\ end - start <= room
  <2>1. start \in Nat /\ end \in Nat
    <3>1. i \in Nat /\ i + 1 \in Nat
      BY <1>1
    <3> QED BY <1>0, <3>1, StartFacts
  <2>2. start = i * room /\ start <= end
    BY <1>0, StartFacts
  <2>3. end = i * room + (IF lengths[m] - i * room > room THEN room ELSE lengths[m] - i * room)
    BY <1>0, StartFacts
  <2>4. i * room \in Nat
    BY <1>1
  <2> QED BY <1>0, <2>1, <2>2, <2>3, <2>4
<1> HIDE DEF total, start, end, header
<1>3. header \in HeaderUnit
  BY <1>0, <1>1, MessageIsNat DEF Header, HeaderUnit, Types, FragmentHeader, total, header
<1>4. /\ header.head /\ header.id = m /\ header.type = type
      /\ header.length = FragmentHeader + Len(data) /\ header.total = total
      /\ header.current = i /\ header.needs = needs
  BY DEF Header, total, header
<1>5. header \in Unit /\ Filler \in Unit /\ ~Filler.head
  BY <1>3 DEF Unit, Filler
<1>6. write = << header, Filler >> \o data /\ << header, Filler >> \in Seq(Unit)
  BY <1>0, <1>5
<1>7. /\ write \in Seq(Unit) /\ Len(write) = 2 + Len(data)
      /\ write[1] = header /\ write[2] = Filler
      /\ \A k \in 1..Len(data) : write[2 + k] = data[k]
  BY <1>0, <1>5, <1>6
<1>8. \A k \in 2..Len(write) : ~write[k].head
  <2> SUFFICES ASSUME NEW k \in 2..Len(write) PROVE ~write[k].head
    OBVIOUS
  <2>1. CASE k = 2
    BY <2>1, <1>5, <1>7
  <2>2. CASE k > 2
    <3>1. k - 2 \in 1..Len(data) /\ 2 + (k - 2) = k
      <4>1. k \in Nat /\ k <= 2 + Len(data)
        BY <1>7, <1>1
      <4> QED BY <4>1, <2>2, <1>1
    <3>2. write[k] = PayloadUnit(m, start + (k - 2))
      BY <3>1, <1>7, <1>0
    <3> QED BY <3>2 DEF PayloadUnit
  <2> QED BY <2>1, <2>2
<1>9. SentHeader(lengths, room, header)
  <2>1. header.length = FragmentHeader + end - start
    BY <1>2, <1>4, <1>0 DEF FragmentHeader
  <2> QED BY <2>1, <1>0, <1>1, <1>4 DEF SentHeader, total, start, end
<1>10. PayloadAt(lengths, room, write, 1)
  <2>1. header.length - FragmentHeader = Len(data)
    BY <1>1, <1>4 DEF FragmentHeader
  <2>2. \A k \in 1..Len(data) : write[1 + 1 + k] = PayloadUnit(m, start + k)
    BY <1>7, <1>0
  <2>3. \A k \in 1..write[1].length - FragmentHeader :
          write[1 + 1 + k] = PayloadUnit(write[1].id, Start(room, lengths[write[1].id], write[1].current) + k)
    BY <2>1, <2>2, <1>4, <1>7 DEF start
  <2> QED BY <2>3 DEF PayloadAt
<1>11. MessageAt(lengths, room, write, 1)
  <2>1. header.length = Len(write) /\ header.length > 0 /\ header.length <= room + FragmentHeader
    BY <1>1, <1>2, <1>0, <1>4, <1>7 DEF FragmentHeader
  <2>2. \A k \in 1 + 1 .. 1 + header.length - 1 : ~write[k].head
    BY <1>8, <2>1, <1>1, <1>7
  <2> QED BY <2>1, <2>2, <1>1, <1>7, <1>9, <1>10 DEF MessageAt
<1>12. write # << >> /\ write[1].length = Len(write)
  BY <1>1, <1>4, <1>7 DEF FragmentHeader
<1> QED BY <1>4, <1>7, <1>9, <1>11, <1>12 DEF FramedWrite

(* The invalid messages are framed as well: their length is right.            *)
LEMMA InvalidFramed ==
  ASSUME NEW lengths, NEW room \in Nat \ {0}, NEW message \in InvalidMessages
  PROVE  FramedWrite(lengths, room, message) /\ message[1].id = 0
<1> DEFINE Invalid(header, length) ==
             /\ header \in HeaderUnit /\ header.head /\ header.id = 0 /\ header.length = length
             /\ ~ValidateInternal(header)
<1>1. /\ Invalid(Header(0, "unknown", 2, 1, 0, 0), 2)
      /\ Invalid(Header(0, "single", 1, 1, 0, 0), 1)
      /\ Invalid(Header(0, "fragment", 2, 0, 0, 0), 2)
      /\ Invalid(Header(0, "fragment", 2, 2, 2, 0), 2)
      /\ Invalid(Header(0, "fragment", 3, 1, 0, 4), 3)
  BY DEF Header, HeaderUnit, Types, ValidateInternal, TypeHeaderValid, MinLength,
         PartialFragmentValid, CompleteFragmentValid, FragmentHeader
<1>2. Filler \in Unit /\ ~Filler.head
  BY DEF Unit, Filler
<1>3. ASSUME NEW header, NEW length \in 1..3, Invalid(header, length),
             message = IF length = 1 THEN << header >>
                       ELSE IF length = 2 THEN << header, Filler >> ELSE << header, Filler, Filler >>
      PROVE  FramedWrite(lengths, room, message) /\ message[1].id = 0
  <2>1. header \in Unit
    BY <1>3 DEF Unit
  <2>2. /\ message \in Seq(Unit) /\ Len(message) = length /\ message[1] = header
        /\ \A k \in 2..length : message[k] = Filler
    BY <2>1, <1>2, <1>3
  <2>3. MessageAt(lengths, room, message, 1)
    <3>1. \A k \in 1 + 1 .. 1 + length - 1 : ~message[k].head
      BY <2>2, <1>2
    <3>2. InvalidHeader(message[1])
      BY <2>2, <1>3 DEF InvalidHeader
    <3> QED BY <3>1, <3>2, <2>2, <1>3 DEF MessageAt, FragmentHeader
  <2> QED BY <2>2, <2>3, <1>3 DEF FramedWrite
<1> HIDE DEF Invalid
<1>4. \E header : \E length \in 1..3 :
        /\ Invalid(header, length)
        /\ message = IF length = 1 THEN << header >>
                     ELSE IF length = 2 THEN << header, Filler >> ELSE << header, Filler, Filler >>
  BY <1>1 DEF InvalidMessages
<1> QED BY <1>3, <1>4

(* What device_send() writes are the fragments of the message, in their       *)
(* order.                                                                     *)
LEMMA WritesFramed ==
  ASSUME NEW lengths, NEW room \in Nat \ {0},
         max_fragment_size \in Nat, room = max_fragment_size - FragmentHeader,
         NEW m \in Message, m \in DOMAIN lengths, lengths[m] \in Nat,
         NEW writes, writes = Writes(m, Payload(m, lengths[m]))
  PROVE  /\ writes \in Seq(Seq(Unit)) /\ Len(writes) = Total(room, lengths[m])
         /\ \A i \in 1..Len(writes) :
              /\ FramedWrite(lengths, room, writes[i])
              /\ SentHeader(lengths, room, writes[i][1])
              /\ writes[i][1].id = m /\ writes[i][1].current = i - 1
<1> DEFINE n == lengths[m]
           data == Payload(m, n)
           total == Total(room, n)
<1>1. /\ data \in Seq(Unit) /\ Len(data) = n
      /\ \A k \in 1..n : data[k] = PayloadUnit(m, k)
  BY PayloadFacts
<1>2. total \in Nat \ {0}
  BY TotalFacts
<1> HIDE DEF data, total
<1>3. CASE FragmentHeader + n <= max_fragment_size
  <2>1. n <= room /\ total = 1
    BY <1>3 DEF FragmentHeader, Total, total
  <2>2. writes = << << Header(m, "fragment", FragmentHeader + n, 1, 0, FragmentHeader + n), Filler >> \o data >>
    BY <1>1, <1>3 DEF Writes, data
  <2> DEFINE write == << Header(m, "fragment", FragmentHeader + n, 1, 0, FragmentHeader + n), Filler >> \o data
  <2>3. 0 \in 0..Total(room, n) - 1 /\ Start(room, n, 0) = 0 /\ Start(room, n, 0 + 1) = n
    <3>1. Start(room, n, Total(room, n)) = n /\ Start(room, n, 0) = 0 /\ Total(room, n) = 1
      BY <2>1, StartFacts DEF total
    <3> QED BY <3>1
  <2>4. FragmentHeader + n \in Nat /\ FragmentHeader + n <= FragmentHeader + Len(data)
    BY <1>1 DEF FragmentHeader
  <2>5. write = << Header(m, "fragment", FragmentHeader + Len(data), total, 0, FragmentHeader + n), Filler >> \o data
    BY <1>1, <2>1
  <2>6. /\ Len(data) = Start(room, n, 0 + 1) - Start(room, n, 0)
        /\ \A k \in 1..Len(data) : data[k] = PayloadUnit(m, Start(room, n, 0) + k)
    BY <1>1, <2>3
  <2> HIDE DEF write
  <2>7. /\ FramedWrite(lengths, room, write) /\ SentHeader(lengths, room, write[1])
        /\ write[1].id = m /\ write[1].current = 0
    <3>1. FragmentOf(lengths, room, m, "fragment", 0, FragmentHeader + n, data, write)
      BY <1>1, <2>3, <2>4, <2>5, <2>6 DEF FragmentOf, total
    <3> QED BY <3>1, FragmentFramed
  <2>8. writes = << write >> /\ write \in Seq(Unit)
    BY <2>2, <2>7 DEF write, FramedWrite
  <2> QED BY <2>1, <2>7, <2>8 DEF total
<1>4. CASE FragmentHeader + n > max_fragment_size
  <2> DEFINE Data(i) == LET walked == i * room
                            left == n - walked
                            data_length == IF left > room THEN room ELSE left
                        IN SubSeq(data, walked + 1, walked + data_length)
             Write(i) == << Header(m, "fragment", FragmentHeader + Len(Data(i - 1)), total, i - 1, 0), Filler >>
                         \o Data(i - 1)
  <2>1. n > room /\ FragmentHeader + n - FragmentHeader = n
    BY <1>4 DEF FragmentHeader
  <2> DEFINE Split(length, most) ==
             LET all == (length \div most) + (IF length % most = 0 THEN 0 ELSE 1)
                 Part(i) == LET walked == i * most
                                left == length - walked
                                data_length == IF left > most THEN most ELSE left
                            IN SubSeq(data, walked + 1, walked + data_length)
             IN [i \in 1..all |->
                   << Header(m, "fragment", FragmentHeader + Len(Part(i - 1)), all, i - 1, 0), Filler >>
                   \o Part(i - 1)]
  <2>2. total = (n \div room) + (IF n % room = 0 THEN 0 ELSE 1)
    BY <2>1 DEF Total, total
  <2>3. writes = SplitFragments(m, data, FragmentHeader + n)
    BY <1>1, <1>4 DEF Writes, data, FragmentHeader
  <2>4. writes = [i \in 1..total |-> Write(i)]
    <3>1. ASSUME NEW length
          PROVE  SplitFragments(m, data, length) = Split(length - FragmentHeader, room)
      <4> DEFINE most == max_fragment_size - FragmentHeader
      <4>1. SplitFragments(m, data, length) = Split(length - FragmentHeader, most)
        BY DEF SplitFragments
      <4> HIDE DEF Split
      <4> QED BY <4>1
    <3> HIDE DEF Split
    <3> DEFINE length == FragmentHeader + n
    <3>2. length - FragmentHeader = n
      BY DEF FragmentHeader
    <3>4. writes = SplitFragments(m, data, length)
      BY <2>3
    <3> HIDE DEF length
    <3>5. SplitFragments(m, data, length) = Split(length - FragmentHeader, room)
      BY <3>1
    <3>6. writes = Split(n, room)
      BY <3>2, <3>4, <3>5
    <3>3. Split(n, room) = [i \in 1..total |-> Write(i)]
      BY <2>2 DEF Split
    <3> QED BY <3>3, <3>6
  <2>5. ASSUME NEW i \in 0..total - 1
        PROVE  /\ Data(i) \in Seq(Unit)
               /\ Len(Data(i)) = Start(room, n, i + 1) - Start(room, n, i)
               /\ \A k \in 1..Len(Data(i)) : Data(i)[k] = PayloadUnit(m, Start(room, n, i) + k)
    <3> DEFINE first == i * room
               length == IF n - first > room THEN room ELSE n - first
    <3>1. /\ Start(room, n, i) = first /\ Start(room, n, i + 1) = first + length
          /\ first \in Nat /\ first <= n
      <4>1. i \in 0..Total(room, n) - 1 /\ i \in Nat
        BY <1>2 DEF total
      <4>2. Start(room, n, i) \in Nat /\ Start(room, n, i) <= n
        BY <4>1, StartFacts
      <4>3. Start(room, n, i) = first /\ Start(room, n, i + 1) = first + length
        BY <4>1, StartFacts
      <4> QED BY <4>2, <4>3
    <3>2. Data(i) = SubSeq(data, first + 1, first + length)
      OBVIOUS
    <3> HIDE DEF first, Data
    <3>3. length \in Nat /\ first + length <= n
      BY <3>1
    <3> HIDE DEF length
    <3>4. /\ Len(Data(i)) = length
          /\ \A k \in 1..length : Data(i)[k] = data[first + k] /\ first + k \in 1..n
          /\ Data(i) \in Seq(Unit)
      BY <3>1, <3>2, <3>3, <1>1
    <3> QED BY <3>1, <3>3, <3>4, <1>1
  <2> HIDE DEF Data
  <2>6. ASSUME NEW i \in 1..total
        PROVE  /\ FramedWrite(lengths, room, Write(i)) /\ SentHeader(lengths, room, Write(i)[1])
               /\ Write(i)[1].id = m /\ Write(i)[1].current = i - 1
    <3>1. i - 1 \in 0..total - 1
      BY <1>2
    <3>2. 0 <= FragmentHeader + Len(Data(i - 1))
      BY <2>5, <3>1 DEF FragmentHeader
    <3>3. /\ Data(i - 1) \in Seq(Unit)
          /\ Len(Data(i - 1)) = Start(room, n, (i - 1) + 1) - Start(room, n, i - 1)
          /\ \A k \in 1..Len(Data(i - 1)) : Data(i - 1)[k] = PayloadUnit(m, Start(room, n, i - 1) + k)
      BY <2>5, <3>1
    <3>4. FragmentOf(lengths, room, m, "fragment", i - 1, 0, Data(i - 1), Write(i))
      BY <3>1, <3>2, <3>3 DEF FragmentOf, total
    <3> HIDE DEF Write
    <3> QED BY <3>4, FragmentFramed
  <2> HIDE DEF Write
  <2>7. \A i \in 1..total : Write(i) \in Seq(Unit)
    BY <2>6 DEF FramedWrite
  <2>8. writes \in Seq(Seq(Unit)) /\ Len(writes) = total
    BY <2>4, <2>7, <1>2
  <2> QED BY <2>4, <2>6, <2>8 DEF total
<1>5. FragmentHeader + n <= max_fragment_size \/ FragmentHeader + n > max_fragment_size
  BY DEF FragmentHeader
<1> QED BY <1>3, <1>4, <1>5

(* Two buffers with the same units are the same.                              *)
LEMMA SameUnits ==
  ASSUME NEW s \in Seq(Unit), NEW t \in Seq(Unit), Len(s) = Len(t),
         \A j \in 1..Len(s) : s[j] = t[j]
  PROVE  s = t
  OBVIOUS

(* What is dropped from the front and what is appended do not meet.           *)
LEMMA RestJoined ==
  ASSUME NEW units \in Seq(Unit), NEW more \in Seq(Unit), NEW n \in 0..Len(units)
  PROVE  Rest(units \o more, n) = Rest(units, n) \o more
<1> DEFINE all == units \o more
           left == Rest(all, n)
           rest == Rest(units, n)
           right == rest \o more
<1>1. /\ all \in Seq(Unit) /\ Len(all) = Len(units) + Len(more)
      /\ \A j \in 1..Len(units) : all[j] = units[j]
      /\ \A j \in 1..Len(more) : all[Len(units) + j] = more[j]
  BY JoinedUnits
<1>2. Len(units) \in Nat /\ Len(more) \in Nat /\ n \in 0..Len(all)
  BY <1>1
<1> HIDE DEF all
<1>3. /\ left \in Seq(Unit) /\ Len(left) = Len(all) - n
      /\ \A j \in 1..Len(all) - n : left[j] = all[n + j]
  BY <1>1, <1>2, RestUnits
<1>4. /\ rest \in Seq(Unit) /\ Len(rest) = Len(units) - n
      /\ \A j \in 1..Len(units) - n : rest[j] = units[n + j]
  BY <1>2, RestUnits
<1> HIDE DEF left, rest
<1>5. /\ right \in Seq(Unit) /\ Len(right) = Len(rest) + Len(more)
      /\ \A j \in 1..Len(rest) : right[j] = rest[j]
      /\ \A j \in 1..Len(more) : right[Len(rest) + j] = more[j]
  BY <1>4, JoinedUnits
<1> HIDE DEF right
<1>6. ASSUME NEW j \in 1..Len(left)
      PROVE  left[j] = right[j]
  <2>1. left[j] = all[n + j] /\ j \in Nat /\ n \in Nat /\ j <= Len(units) + Len(more) - n
    BY <1>1, <1>2, <1>3
  <2>2. CASE j <= Len(units) - n
    <3>1. j \in 1..Len(units) - n /\ n + j \in 1..Len(units) /\ j \in 1..Len(rest)
      BY <2>1, <2>2, <1>2, <1>4
    <3> QED BY <3>1, <2>1, <1>1, <1>4, <1>5
  <2>3. CASE j > Len(units) - n
    <3> DEFINE i == j - (Len(units) - n)
    <3>1. i \in 1..Len(more) /\ Len(rest) + i = j /\ Len(units) + i = n + j
      BY <2>1, <2>3, <1>2, <1>4
    <3> HIDE DEF i
    <3>2. left[j] = more[i] /\ right[j] = more[i]
      BY <3>1, <2>1, <1>1, <1>5
    <3> QED BY <3>2
  <2> QED BY <2>1, <2>2, <2>3, <1>2
<1>7. Len(left) = Len(right)
  BY <1>1, <1>2, <1>3, <1>4, <1>5
<1>8. left = right
  BY <1>3, <1>5, <1>6, <1>7, SameUnits
<1> QED BY <1>8 DEF left, right, all, rest

(* Appending is associative.                                                  *)
LEMMA JoinedThrice ==
  ASSUME NEW a \in Seq(Unit), NEW b \in Seq(Unit), NEW c \in Seq(Unit)
  PROVE  a \o (b \o c) = (a \o b) \o c
  OBVIOUS

(* A read moves the beginning of the channel to the end of the buffer.        *)
LEMMA CutAndJoined ==
  ASSUME NEW a \in Seq(Unit), NEW b \in Seq(Unit), NEW n \in 1..Len(b)
  PROVE  /\ SubSeq(b, 1, n) \in Seq(Unit) /\ Len(SubSeq(b, 1, n)) = n
         /\ SubSeq(b, 1, n)[1] = b[1]
         /\ (a \o SubSeq(b, 1, n)) \o Rest(b, n) = a \o b
<1> DEFINE front == SubSeq(b, 1, n)
           rest == Rest(b, n)
<1>1. Len(b) \in Nat /\ n \in Nat /\ n > 0 /\ n <= Len(b)
  OBVIOUS
<1>2. /\ front \in Seq(Unit) /\ Len(front) = n
      /\ \A j \in 1..n : front[j] = b[j]
  BY <1>1
<1>3. /\ rest \in Seq(Unit) /\ Len(rest) = Len(b) - n
      /\ \A j \in 1..Len(b) - n : rest[j] = b[n + j]
  BY <1>1, RestUnits
<1> HIDE DEF front, rest
<1> DEFINE both == front \o rest
<1>4. /\ both \in Seq(Unit) /\ Len(both) = Len(b)
      /\ \A j \in 1..n : both[j] = front[j]
      /\ \A j \in 1..Len(rest) : both[n + j] = rest[j]
  <2>1. /\ both \in Seq(Unit) /\ Len(both) = Len(front) + Len(rest)
        /\ \A j \in 1..Len(front) : both[j] = front[j]
        /\ \A j \in 1..Len(rest) : both[Len(front) + j] = rest[j]
    BY <1>2, <1>3, JoinedUnits
  <2>2. Len(both) = Len(b)
    BY <2>1, <1>1, <1>2, <1>3
  <2> QED BY <2>1, <2>2, <1>2
<1> HIDE DEF both
<1>5. ASSUME NEW j \in 1..Len(b)
      PROVE  both[j] = b[j]
  <2>1. CASE j <= n
    BY <2>1, <1>1, <1>2, <1>4
  <2>2. CASE j > n
    <3>1. j - n \in 1..Len(rest) /\ n + (j - n) = j
      BY <2>2, <1>1, <1>3
    <3> QED BY <3>1, <1>3, <1>4
  <2> QED BY <2>1, <2>2, <1>1
<1>6. both = b
  BY <1>4, <1>5, SameUnits
<1>7. (a \o front) \o rest = a \o both
  BY <1>2, <1>3, JoinedThrice DEF both
<1>8. 1 \in 1..n
  BY <1>1
<1> QED BY <1>2, <1>6, <1>7, <1>8 DEF front, rest

(* A message stays framed when another one is sent.                           *)
LEMMA FramedExtended ==
  ASSUME NEW lengths, NEW more, NEW room,
         \A m \in DOMAIN lengths : m \in DOMAIN more /\ more[m] = lengths[m],
         NEW units, NEW j, MessageAt(lengths, room, units, j)
  PROVE  MessageAt(more, room, units, j)
<1>1. CASE InvalidHeader(units[j])
  BY <1>1 DEF MessageAt
<1>2. CASE SentHeader(lengths, room, units[j]) /\ PayloadAt(lengths, room, units, j)
  <2>1. more[units[j].id] = lengths[units[j].id] /\ units[j].id \in DOMAIN more
    BY <1>2 DEF SentHeader
  <2>2. SentHeader(more, room, units[j])
    BY <1>2, <2>1 DEF SentHeader
  <2>3. PayloadAt(more, room, units, j)
    BY <1>2, <2>1 DEF PayloadAt
  <2> QED BY <2>2, <2>3 DEF MessageAt
<1> QED BY <1>1, <1>2 DEF MessageAt

(* A header that was sent is valid.                                           *)
LEMMA SentIsValid ==
  ASSUME NEW lengths, NEW room \in Nat \ {0}, NEW header \in HeaderUnit,
         lengths[header.id] \in Nat, SentHeader(lengths, room, header)
  PROVE  ValidateInternal(header)
<1> DEFINE n == lengths[header.id]
           total == Total(room, n)
           start == Start(room, n, header.current)
           end == Start(room, n, header.current + 1)
<1>1. /\ header.length \in Nat /\ header.total \in Nat /\ header.current \in Nat /\ header.needs \in Nat
  BY DEF HeaderUnit
<1>2. total \in Nat \ {0}
  BY TotalFacts
<1>3. /\ header.type \in {"fragment", "single"} /\ header.total = total /\ header.current < total
      /\ header.length = FragmentHeader + end - start /\ header.needs <= header.length
  BY DEF SentHeader
<1>4. start \in Nat /\ end \in Nat /\ start <= end
  <2>1. header.current + 1 \in Nat /\ header.current \in 0..total - 1
    BY <1>1, <1>2, <1>3
  <2> QED BY <1>1, <2>1, StartFacts
<1> HIDE DEF total, start, end
<1>5. TypeHeaderValid(header)
  BY <1>1, <1>3, <1>4 DEF TypeHeaderValid, MinLength, FragmentHeader
<1>6. CASE total = 1
  <2>1. header.current = 0
    BY <1>1, <1>3, <1>6
  <2> QED BY <1>1, <1>3, <1>5, <1>6, <2>1 DEF ValidateInternal, CompleteFragmentValid
<1>7. CASE total > 1
  BY <1>1, <1>3, <1>5, <1>7 DEF ValidateInternal, PartialFragmentValid
<1> QED BY <1>2, <1>6, <1>7

(* The units that follow in the payload extend what was gathered of it.       *)
LEMMA PayloadGathered ==
  ASSUME NEW m \in Message, NEW a \in Nat, NEW data \in Seq(Unit),
         \A k \in 1..Len(data) : data[k] = PayloadUnit(m, a + k)
  PROVE  Payload(m, a) \o data = Payload(m, a + Len(data))
<1> DEFINE whole == Payload(m, a + Len(data))
           front == Payload(m, a)
           both == front \o data
<1>1. Len(data) \in Nat /\ a + Len(data) \in Nat
  OBVIOUS
<1>2. /\ whole \in Seq(Unit) /\ Len(whole) = a + Len(data)
      /\ \A i \in 1..a + Len(data) : whole[i] = PayloadUnit(m, i)
  BY <1>1, PayloadFacts
<1>3. front \in Seq(Unit) /\ Len(front) = a /\ \A i \in 1..a : front[i] = PayloadUnit(m, i)
  BY PayloadFacts
<1> HIDE DEF whole, front
<1>4. /\ both \in Seq(Unit) /\ Len(both) = a + Len(data)
      /\ \A i \in 1..a : both[i] = front[i]
      /\ \A i \in 1..Len(data) : both[a + i] = data[i]
  BY <1>3, JoinedUnits
<1> HIDE DEF both
<1>5. ASSUME NEW i \in 1..Len(both)
      PROVE  both[i] = whole[i]
  <2>1. CASE i <= a
    BY <2>1, <1>1, <1>2, <1>3, <1>4
  <2>2. CASE i > a
    <3>1. i - a \in 1..Len(data) /\ a + (i - a) = i /\ i \in 1..a + Len(data)
      BY <2>2, <1>1, <1>4
    <3> QED BY <3>1, <1>2, <1>4
  <2> QED BY <2>1, <2>2, <1>1, <1>4
<1>6. both = whole
  BY <1>2, <1>4, <1>5, SameUnits
<1> QED BY <1>6 DEF both, whole, front

-----------------------------------------------------------------------------
(* The inductive invariant.                                                   *)

Room == max_fragment_size - FragmentHeader
Buffered == response \o channel

(* The variables have their types, and more.                                  *)
StreamTypes ==
  /\ packets \in BOOLEAN
  /\ max_control_transfer \in Transfers /\ max_fragment_size \in Transfers
  /\ packets => max_fragment_size <= max_control_transfer
  /\ Sent \subseteq Message /\ payload_length \in [Sent -> 0..MaxPayload]
  /\ cut \subseteq Sent
  /\ sending \in Seq(Seq(Unit)) /\ channel \in Seq(Unit) /\ response \in Seq(Unit)
  /\ parsing \in BOOLEAN /\ open \in BOOLEAN
  /\ parsing => open /\ response # << >>
  /\ open \/ response = << >>
  /\ outcome \in [Message -> {"waiting", "out_of_sequence", "whole"}]
  /\ invalids \in 0..MaxFaults /\ read_errors \in 0..MaxFaults
  /\ misread \subseteq Message
  /\ misread # {} => ~packets /\ ~(invalids = 0 /\ read_errors = 0)

(* A port is read message by message.                                         *)
PortInv ==
  packets => /\ channel # << >> => channel[1].head
             /\ parsing => response[1].head /\ Len(response) = response[1].length
             /\ ~parsing => response = << >>

(* What is left to write are the last fragments of one message.               *)
Sender == sending[1][1].id
SendingInv ==
  \A i \in 1..Len(sending) :
    /\ FramedWrite(payload_length, Room, sending[i])
    /\ SentHeader(payload_length, Room, sending[i][1])
    /\ Sender \in Sent \ cut /\ sending[i][1].id = Sender
    /\ sending[i][1].current = Total(Room, payload_length[Sender]) - Len(sending) + i - 1

(* What was written and not parsed yet are messages, from the first header on.*)
FramingInv ==
  /\ Framed(payload_length, Room, Buffered)
  /\ invalids = 0 => \A j \in 1..Len(Buffered) : Buffered[j].head => Buffered[j].id # 0

(* The collector holds the first fragments of a message and no others, unless *)
(* something was misread for one of them.                                     *)
Collection(m, last) ==
  [total |-> Total(Room, payload_length[m]), current |-> last,
   payload |-> Payload(m, Start(Room, payload_length[m], last + 1))]

CollectedInv(m) ==
  \/ m \in misread
  \/ collector[m] = NoFragments /\ outcome[m] = "waiting"
  \/ m \in Sent /\ collector[m] = NoFragments /\ outcome[m] = "out_of_sequence"
  \/ /\ m \in Sent
     /\ \E last \in 0..Total(Room, payload_length[m]) - 1 :
          /\ collector[m] = Collection(m, last)
          /\ outcome[m] = IF last = Total(Room, payload_length[m]) - 1 THEN "whole" ELSE "waiting"

CollectorInv ==
  /\ collector = [m \in Message |-> collector[m]]
  /\ \A m \in Message : CollectedInv(m)

(* The fragments of m collected, and those written.                           *)
Collected(m) == IF collector[m] = NoFragments THEN 0 ELSE collector[m].current + 1
Written(m) == Total(Room, payload_length[m])
              - (IF sending # << >> /\ Sender = m THEN Len(sending) ELSE 0)

(* As long as nothing has gone wrong, the buffer begins with a message, and   *)
(* of a message none of whose writes failed the fragments that were written   *)
(* and not collected are there, in their order.                               *)
Faultless == open /\ (packets \/ (invalids = 0 /\ read_errors = 0))

InTransit(m) == /\ outcome[m] # "out_of_sequence"
                /\ InOrder(Buffered, m, Collected(m), Written(m))

OrderInv ==
  Faultless => /\ Buffered # << >> => Buffered[1].head
               /\ ~packets /\ ~parsing /\ response # << >> => Len(response) < response[1].length
               /\ \A m \in Sent \ cut : InTransit(m)

StreamIInv ==
  StreamTypes /\ PortInv /\ SendingInv /\ FramingInv /\ CollectorInv /\ OrderInv

(* What the types of the variables say about the buffer and the fragments.    *)
LEMMA StateFacts ==
  ASSUME StreamTypes
  PROVE  /\ max_fragment_size \in Nat /\ Room \in Nat \ {0}
         /\ max_fragment_size = Room + FragmentHeader
         /\ response \in Seq(Unit) /\ channel \in Seq(Unit) /\ Buffered \in Seq(Unit)
         /\ Len(response) \in Nat /\ Len(channel) \in Nat
         /\ Len(Buffered) = Len(response) + Len(channel)
         /\ \A j \in 1..Len(response) : Buffered[j] = response[j]
         /\ \A j \in 1..Len(channel) : Buffered[Len(response) + j] = channel[j]
         /\ Rest(Buffered, Len(response)) = channel
         /\ \A m \in Sent : payload_length[m] \in Nat /\ payload_length[m] <= MaxPayload
<1>1. max_fragment_size \in Nat /\ max_fragment_size > 2
  BY StreamAssumption DEF StreamTypes
<1>2. Room \in Nat \ {0} /\ max_fragment_size = Room + FragmentHeader
  BY <1>1 DEF Room, FragmentHeader
<1>3. response \in Seq(Unit) /\ channel \in Seq(Unit)
  BY DEF StreamTypes
<1>4. /\ Buffered \in Seq(Unit) /\ Len(Buffered) = Len(response) + Len(channel)
      /\ \A j \in 1..Len(response) : Buffered[j] = response[j]
      /\ \A j \in 1..Len(channel) : Buffered[Len(response) + j] = channel[j]
  BY <1>3, JoinedUnits DEF Buffered
<1>5. Len(response) \in Nat /\ Len(channel) \in Nat
  BY <1>3
<1>6. Rest(Buffered, Len(response)) = channel
  <2> DEFINE n == Len(response)
             rest == Rest(Buffered, n)
  <2>1. n \in 0..Len(Buffered)
    BY <1>4, <1>5
  <2>2. /\ rest \in Seq(Unit) /\ Len(rest) = Len(Buffered) - n
        /\ \A j \in 1..Len(Buffered) - n : rest[j] = Buffered[n + j]
    BY <1>4, <2>1, RestUnits
  <2> HIDE DEF rest
  <2>3. Len(rest) = Len(channel) /\ \A j \in 1..Len(rest) : rest[j] = channel[j]
    BY <1>4, <1>5, <2>2
  <2>4. rest = channel
    BY <1>3, <2>2, <2>3, SameUnits
  <2> QED BY <2>4 DEF rest
<1>7. \A m \in Sent : payload_length[m] \in Nat /\ payload_length[m] <= MaxPayload
  <2> SUFFICES ASSUME NEW m \in Sent
               PROVE  payload_length[m] \in Nat /\ payload_length[m] <= MaxPayload
    OBVIOUS
  <2>1. payload_length[m] \in 0..MaxPayload
    BY DEF StreamTypes
  <2> QED BY <2>1, StreamAssumption
<1> QED BY <1>1, <1>2, <1>3, <1>4, <1>5, <1>6, <1>7

(* The invariant holds in the initial states.                                 *)
LEMMA InitStream == StreamInit => StreamIInv
<1> SUFFICES ASSUME StreamInit PROVE StreamIInv
  OBVIOUS
<1> USE DEF StreamInit
<1>1. StreamTypes
  <2>1. Sent = {}
    BY DEF Sent
  <2>2. payload_length \in [Sent -> 0..MaxPayload]
    BY <2>1
  <2>3. << >> \in Seq(Seq(Unit)) /\ << >> \in Seq(Unit)
    OBVIOUS
  <2>4. outcome \in [Message -> {"waiting", "out_of_sequence", "whole"}]
    OBVIOUS
  <2>5. invalids \in 0..MaxFaults /\ read_errors \in 0..MaxFaults
    BY StreamAssumption
  <2> QED BY <2>1, <2>2, <2>3, <2>4, <2>5 DEF StreamTypes
<1>2. Len(Buffered) = 0 /\ Buffered = << >> /\ sending = << >> /\ Len(sending) = 0 /\ Sent = {}
  BY DEF Buffered, Sent
<1>3. PortInv /\ SendingInv /\ FramingInv /\ OrderInv
  BY <1>2 DEF PortInv, SendingInv, FramingInv, Framed, OrderInv
<1>4. CollectorInv
  <2>1. \A m \in Message : collector[m] = NoFragments /\ outcome[m] = "waiting"
    OBVIOUS
  <2>2. collector = [m \in Message |-> collector[m]]
    OBVIOUS
  <2> QED BY <2>1, <2>2 DEF CollectorInv, CollectedInv
<1> QED BY <1>1, <1>3, <1>4 DEF StreamIInv

(* Nothing is misread as long as nothing has gone wrong.                      *)
LEMMA NothingMisread ==
  ASSUME StreamIInv, Faultless
  PROVE  misread = {}
BY DEF StreamIInv, StreamTypes, Faultless

(* A message that has not been sent has no header in the buffer.              *)
LEMMA NotSentNotThere ==
  ASSUME StreamTypes, FramingInv, NEW m \in Message \ Sent, NEW j \in 1..Len(Buffered)
  PROVE  ~HeadOf(Buffered[j], m)
<1> SUFFICES ASSUME Buffered[j].head, Buffered[j].id = m PROVE FALSE
  BY DEF HeadOf
<1>1. MessageAt(payload_length, Room, Buffered, j)
  BY DEF FramingInv, Framed
<1>2. m # 0
  BY MessageIsNat
<1> QED BY <1>1, <1>2 DEF MessageAt, InvalidHeader, SentHeader, Sent

(* One more message is sent: what was said of the others stays true.          *)
LEMMA SentGrows ==
  ASSUME StreamIInv, UNCHANGED max_fragment_size,
         NEW m \in Message \ Sent, NEW n \in 0..MaxPayload,
         payload_length' = [x \in Sent \cup {m} |-> IF x = m THEN n ELSE payload_length[x]]
  PROVE  /\ Sent' = Sent \cup {m} /\ Sent' \subseteq Message
         /\ payload_length' \in [Sent' -> 0..MaxPayload]
         /\ payload_length'[m] = n /\ n \in Nat
         /\ \A x \in Sent : payload_length'[x] = payload_length[x]
         /\ Room' = Room
         /\ Framed(payload_length', Room', Buffered)
         /\ UNCHANGED readerVars => CollectorInv'
         /\ misread = {} => Collected(m) = 0 /\ outcome[m] = "waiting"
         /\ InOrder(Buffered, m, 0, 0)
<1>1. Sent' = Sent \cup {m} /\ Sent' \subseteq Message
  BY DEF Sent, StreamIInv, StreamTypes
<1>2. \A x \in Sent : payload_length'[x] = payload_length[x] /\ x \in Sent'
  BY <1>1
<1>3. payload_length' \in [Sent' -> 0..MaxPayload]
  <2>1. \A x \in Sent : payload_length[x] \in 0..MaxPayload
    BY DEF StreamIInv, StreamTypes
  <2> QED BY <1>1, <2>1
<1>4. Room' = Room
  BY DEF Room, FragmentHeader
<1>5. payload_length'[m] = n /\ n \in Nat
  BY StreamAssumption
<1>6. Framed(payload_length', Room', Buffered)
  <2> SUFFICES ASSUME NEW j \in 1..Len(Buffered), Buffered[j].head
               PROVE  MessageAt(payload_length', Room, Buffered, j)
    BY <1>4 DEF Framed
  <2>1. MessageAt(payload_length, Room, Buffered, j)
    BY DEF StreamIInv, FramingInv, Framed
  <2>2. \A x \in DOMAIN payload_length : x \in DOMAIN payload_length' /\ payload_length'[x] = payload_length[x]
    BY <1>2 DEF Sent
  <2> QED BY <2>1, <2>2, FramedExtended
<1>7. ASSUME UNCHANGED readerVars
      PROVE  CollectorInv'
  <2>1. ASSUME NEW x \in Message
        PROVE  CollectedInv(x)'
    <3>1. CollectedInv(x)
      BY DEF StreamIInv, CollectorInv
    <3>2. CASE x \notin Sent
      BY <3>1, <3>2, <1>7 DEF CollectedInv, readerVars
    <3>3. CASE x \in Sent
      <4>1. payload_length'[x] = payload_length[x] /\ x \in Sent'
        BY <3>3, <1>2
      <4>2. \A last : Collection(x, last)' = Collection(x, last)
        BY <4>1, <1>4 DEF Collection, Payload
      <4> QED BY <3>1, <4>1, <4>2, <1>4, <1>7 DEF CollectedInv, readerVars
    <3> QED BY <3>2, <3>3
  <2>2. collector = [x \in Message |-> collector[x]]
    BY DEF StreamIInv, CollectorInv
  <2> QED BY <2>1, <2>2, <1>7 DEF CollectorInv, readerVars
<1>8. misread = {} => Collected(m) = 0 /\ outcome[m] = "waiting"
  BY DEF StreamIInv, CollectorInv, CollectedInv, Collected
<1>9. InOrder(Buffered, m, 0, 0)
  BY NotSentNotThere DEF StreamIInv, InOrder
<1> QED BY <1>1, <1>2, <1>3, <1>4, <1>5, <1>6, <1>7, <1>8, <1>9

(* device_send() cuts a message into framed writes, and nothing of it is      *)
(* there.                                                                     *)
LEMMA DeviceSendStep ==
  ASSUME StreamIInv, DeviceSend
  PROVE  StreamIInv'
<1>1. /\ open /\ sending = << >>
      /\ UNCHANGED <<fixedVars, readerVars, cut, channel, response, parsing, open, invalids, read_errors>>
  BY DEF DeviceSend
<1>2. PICK m \in Message \ Sent, n \in 1..MaxPayload :
        /\ payload_length' = [x \in Sent \cup {m} |-> IF x = m THEN n ELSE payload_length[x]]
        /\ sending' = Writes(m, Payload(m, n))
  BY DEF DeviceSend
<1>3. UNCHANGED max_fragment_size /\ n \in 0..MaxPayload
  BY <1>1, StreamAssumption DEF fixedVars
<1>4. /\ Sent' = Sent \cup {m} /\ Sent' \subseteq Message
      /\ payload_length' \in [Sent' -> 0..MaxPayload]
      /\ payload_length'[m] = n /\ n \in Nat
      /\ \A x \in Sent : payload_length'[x] = payload_length[x]
      /\ Room' = Room
      /\ Framed(payload_length', Room', Buffered)
      /\ UNCHANGED readerVars => CollectorInv'
      /\ misread = {} => Collected(m) = 0 /\ outcome[m] = "waiting"
      /\ InOrder(Buffered, m, 0, 0)
  BY <1>2, <1>3, SentGrows
<1>5. Buffered' = Buffered
  BY <1>1 DEF Buffered
<1>6. /\ sending' \in Seq(Seq(Unit)) /\ Len(sending') = Total(Room, n)
      /\ \A i \in 1..Len(sending') :
           /\ FramedWrite(payload_length', Room, sending'[i])
           /\ SentHeader(payload_length', Room, sending'[i][1])
           /\ sending'[i][1].id = m /\ sending'[i][1].current = i - 1
  <2>1. Room \in Nat \ {0} /\ max_fragment_size \in Nat /\ Room = max_fragment_size - FragmentHeader
    BY StateFacts DEF StreamIInv, Room
  <2>2. m \in DOMAIN payload_length' /\ payload_length'[m] \in Nat
    BY <1>4 DEF Sent
  <2>3. sending' = Writes(m, Payload(m, payload_length'[m]))
    BY <1>2, <1>4
  <2>4. ASSUME NEW lengths, lengths = payload_length'
        PROVE  /\ sending' \in Seq(Seq(Unit)) /\ Len(sending') = Total(Room, lengths[m])
               /\ \A i \in 1..Len(sending') :
                    /\ FramedWrite(lengths, Room, sending'[i])
                    /\ SentHeader(lengths, Room, sending'[i][1])
                    /\ sending'[i][1].id = m /\ sending'[i][1].current = i - 1
    BY <2>1, <2>2, <2>3, <2>4, WritesFramed
  <2> QED BY <2>4, <1>4
<1>7. Total(Room, n) \in Nat \ {0}
  BY <1>4, TotalFacts, StateFacts DEF StreamIInv
<1>8. StreamTypes'
  <2>1. cut' \subseteq Sent'
    BY <1>1, <1>4 DEF StreamIInv, StreamTypes
  <2> QED BY <2>1, <1>1, <1>4, <1>6 DEF StreamIInv, StreamTypes, fixedVars, readerVars
<1>9. PortInv'
  BY <1>1 DEF StreamIInv, PortInv, fixedVars
<1>10. SendingInv'
  <2>1. Sender' = m
    BY <1>6, <1>7 DEF Sender
  <2>2. m \in Sent' \ cut'
    BY <1>1, <1>4 DEF StreamIInv, StreamTypes
  <2>3. Total(Room', payload_length'[m]) = Len(sending')
    BY <1>4, <1>6
  <2>4. \A i \in 1..Len(sending') : i - 1 = Len(sending') - Len(sending') + i - 1
    BY <1>6, <1>7
  <2> QED BY <1>4, <1>6, <2>1, <2>2, <2>3, <2>4 DEF SendingInv
<1>11. FramingInv'
  BY <1>1, <1>4, <1>5 DEF StreamIInv, FramingInv
<1>12. CollectorInv'
  BY <1>1, <1>4
<1>13. OrderInv'
  <2> SUFFICES ASSUME Faultless'
               PROVE  /\ Buffered # << >> => Buffered[1].head
                      /\ ~packets /\ ~parsing /\ response # << >> => Len(response) < response[1].length
                      /\ \A x \in (Sent \ cut) \cup {m} : InTransit(x)'
    BY <1>1, <1>4, <1>5 DEF OrderInv, fixedVars
  <2>1. Faultless
    BY <1>1 DEF Faultless, fixedVars
  <2>2. ASSUME NEW x \in Sent \ cut
        PROVE  InTransit(x)'
    <3>1. InTransit(x)
      BY <2>1 DEF StreamIInv, OrderInv
    <3>2. Sender' = m /\ x # m
      BY <1>6, <1>7 DEF Sender
    <3>3. Written(x)' = Written(x) /\ Collected(x)' = Collected(x)
      BY <1>1, <1>4, <3>2 DEF Written, Collected, readerVars
    <3> QED BY <3>1, <3>3, <1>1, <1>5 DEF InTransit, readerVars
  <2>3. InTransit(m)'
    <3>1. Sender' = m /\ sending' # << >>
      BY <1>6, <1>7 DEF Sender
    <3>2. misread = {}
      BY <2>1, NothingMisread
    <3>3. Written(m)' = 0 /\ Collected(m)' = 0
      BY <1>1, <1>4, <1>6, <1>7, <3>1, <3>2 DEF Written, Collected, readerVars
    <3> QED BY <3>2, <3>3, <1>1, <1>4, <1>5 DEF InTransit, readerVars
  <2> QED BY <2>1, <2>2, <2>3 DEF StreamIInv, OrderInv
<1> QED BY <1>8, <1>9, <1>10, <1>11, <1>12, <1>13 DEF StreamIInv

(* A write that is one message has a header at its beginning and nowhere      *)
(* else.                                                                      *)
LEMMA WriteFacts ==
  ASSUME NEW lengths, NEW room, NEW write, FramedWrite(lengths, room, write)
  PROVE  /\ write \in Seq(Unit) /\ write # << >> /\ write[1].head
         /\ Len(write) \in Nat /\ Len(write) > 0
         /\ \A k \in 2..Len(write) : ~write[k].head
<1>1. write \in Seq(Unit) /\ write # << >> /\ write[1].head /\ write[1].length = Len(write)
  BY DEF FramedWrite
<1>2. Len(write) \in Nat /\ Len(write) > 0
  BY <1>1
<1>3. \A k \in 1 + 1 .. 1 + Len(write) - 1 : ~write[k].head
  BY <1>1 DEF FramedWrite, MessageAt
<1>4. \A k \in 2..Len(write) : ~write[k].head
  BY <1>2, <1>3
<1> QED BY <1>1, <1>2, <1>4

(* A write is added to the channel.                                           *)
LEMMA Appends ==
  ASSUME StreamIInv, NEW write,
         channel' = channel \o write, UNCHANGED <<packets, response, parsing>>,
         Room' = Room, Framed(payload_length', Room', Buffered),
         FramedWrite(payload_length', Room', write)
  PROVE  /\ channel' \in Seq(Unit) /\ PortInv'
         /\ Buffered' = Buffered \o write
         /\ Framed(payload_length', Room', Buffered')
         /\ (Buffered # << >> => Buffered[1].head) => Buffered'[1].head
<1>1. /\ write \in Seq(Unit) /\ write # << >> /\ write[1].head
      /\ Len(write) \in Nat /\ Len(write) > 0
  BY WriteFacts
<1>2. /\ response \in Seq(Unit) /\ channel \in Seq(Unit) /\ Buffered \in Seq(Unit)
      /\ Room \in Nat \ {0}
  BY StateFacts DEF StreamIInv
<1>3. channel' \in Seq(Unit)
  BY <1>1, <1>2
<1>4. Buffered' = Buffered \o write
  BY <1>1, <1>2, JoinedThrice DEF Buffered
<1>5. Framed(payload_length', Room', Buffered')
  <2>1. ASSUME NEW lengths, lengths = payload_length'
        PROVE  Framed(lengths, Room, Buffered \o write)
    <3>1. Framed(lengths, Room, Buffered) /\ FramedWrite(lengths, Room, write)
      BY <2>1
    <3> QED BY <3>1, <1>2, FramedJoined
  <2> QED BY <2>1, <1>4
<1>6. ASSUME NEW units \in Seq(Unit), units # << >> => units[1].head
      PROVE  (units \o write)[1].head
  <2>1. CASE units = << >>
    <3>1. (units \o write)[1] = write[1]
      BY <2>1, <1>1
    <3> QED BY <3>1, <1>1
  <2>2. CASE units # << >>
    <3>1. (units \o write)[1] = units[1]
      BY <2>2, <1>1
    <3> QED BY <3>1, <2>2, <1>6
  <2> QED BY <2>1, <2>2
<1>7. PortInv'
  <2>1. packets => channel'[1].head
    BY <1>2, <1>6 DEF StreamIInv, PortInv
  <2> QED BY <2>1 DEF StreamIInv, PortInv
<1>8. (Buffered # << >> => Buffered[1].head) => Buffered'[1].head
  BY <1>2, <1>4, <1>6
<1> QED BY <1>3, <1>4, <1>5, <1>7, <1>8

(* The next write is the next fragment of the message being sent.             *)
LEMMA SendingFacts ==
  ASSUME StreamTypes, SendingInv, sending # << >>
  PROVE  /\ Len(sending) \in Nat /\ Len(sending) > 0
         /\ sending[1] = Head(sending)
         /\ Tail(sending) \in Seq(Seq(Unit)) /\ Len(Tail(sending)) = Len(sending) - 1
         /\ \A i \in 1..Len(sending) - 1 : Tail(sending)[i] = sending[i + 1]
         /\ FramedWrite(payload_length, Room, Head(sending))
         /\ Sender \in Sent \ cut /\ Head(sending)[1].id = Sender
         /\ Written(Sender) = Total(Room, payload_length[Sender]) - Len(sending)
         /\ Total(Room, payload_length[Sender]) \in Nat \ {0}
         /\ Written(Sender) \in Nat /\ Head(sending)[1].current = Written(Sender)
<1>1. sending \in Seq(Seq(Unit))
  BY DEF StreamTypes
<1>2. /\ Len(sending) \in Nat /\ Len(sending) > 0 /\ 1 \in 1..Len(sending)
      /\ sending[1] = Head(sending)
      /\ Tail(sending) \in Seq(Seq(Unit)) /\ Len(Tail(sending)) = Len(sending) - 1
      /\ \A i \in 1..Len(sending) - 1 : Tail(sending)[i] = sending[i + 1]
  BY <1>1
<1>3. /\ FramedWrite(payload_length, Room, sending[1])
      /\ Sender \in Sent \ cut /\ sending[1][1].id = Sender
      /\ sending[1][1].current = Total(Room, payload_length[Sender]) - Len(sending) + 1 - 1
  BY <1>2 DEF SendingInv
<1>4. Total(Room, payload_length[Sender]) \in Nat \ {0}
  BY <1>3, TotalFacts, StateFacts
<1>5. Written(Sender) = Total(Room, payload_length[Sender]) - Len(sending)
  BY DEF Written
<1>6. sending[1][1] \in Unit /\ sending[1][1].head
  BY <1>3, WriteFacts DEF FramedWrite
<1>7. sending[1][1].current \in Nat
  BY <1>6, HeaderFields
<1>8. sending[1][1].current = Written(Sender) /\ Written(Sender) \in Nat
  BY <1>2, <1>3, <1>4, <1>5, <1>7
<1> QED BY <1>2, <1>3, <1>4, <1>5, <1>8

(* The bounds of what is in transit are numbers.                              *)
LEMMA TransitBounds ==
  ASSUME StreamIInv, misread = {}, NEW m \in Sent
  PROVE  /\ Total(Room, payload_length[m]) \in Nat \ {0}
         /\ Collected(m) \in Nat /\ Written(m) \in Nat
         /\ Collected(m) <= Total(Room, payload_length[m])
         /\ Written(m) <= Total(Room, payload_length[m])
         /\ outcome[m] = "whole" => Collected(m) = Total(Room, payload_length[m])
<1> DEFINE total == Total(Room, payload_length[m])
<1>1. total \in Nat \ {0}
  BY TotalFacts, StateFacts DEF StreamIInv
<1>2. /\ Collected(m) \in Nat /\ Collected(m) <= total
      /\ outcome[m] = "whole" => Collected(m) = total
  <2>1. m \in Message
    BY DEF StreamIInv, StreamTypes
  <2>2. CASE collector[m] = NoFragments
    <3>1. outcome[m] # "whole"
      BY <2>1, <2>2, <1>1 DEF StreamIInv, CollectorInv, CollectedInv, Collection, NoFragments
    <3> QED BY <2>2, <3>1, <1>1 DEF Collected
  <2>3. CASE collector[m] # NoFragments
    <3>1. PICK last \in 0..total - 1 :
            /\ collector[m] = Collection(m, last)
            /\ outcome[m] = IF last = total - 1 THEN "whole" ELSE "waiting"
      BY <2>1, <2>3 DEF StreamIInv, CollectorInv, CollectedInv
    <3>2. collector[m].current = last
      BY <3>1 DEF Collection
    <3>3. Collected(m) = last + 1
      BY <2>3, <3>2 DEF Collected
    <3> HIDE DEF total
    <3> QED BY <3>1, <3>3, <1>1
  <2> QED BY <2>2, <2>3
<1>3. Written(m) \in Nat /\ Written(m) <= total
  <2>1. CASE sending # << >> /\ Sender = m
    <3>1. Written(m) \in Nat /\ Written(m) = total - Len(sending) /\ Len(sending) \in Nat
      BY <2>1, SendingFacts DEF StreamIInv
    <3> HIDE DEF total
    <3> QED BY <3>1, <1>1
  <2>2. CASE ~(sending # << >> /\ Sender = m)
    BY <2>2, <1>1 DEF Written
  <2> QED BY <2>1, <2>2
<1> QED BY <1>1, <1>2, <1>3

(* Adding a write leaves what a message that it is not part of has in transit.*)
LEMMA OthersInTransit ==
  ASSUME StreamIInv, NEW lengths, NEW room, NEW write, FramedWrite(lengths, room, write),
         misread = {}, NEW x \in Sent, InTransit(x), write[1].id # x
  PROVE  InOrder(Buffered \o write, x, Collected(x), Written(x))
<1>1. /\ write \in Seq(Unit) /\ write # << >> /\ write[1].head
      /\ \A k \in 2..Len(write) : ~write[k].head
  BY WriteFacts
<1>2. Collected(x) \in Nat /\ Written(x) \in Nat /\ Buffered \in Seq(Unit)
  BY TransitBounds, StateFacts DEF StreamIInv
<1>3. ~HeadOf(write[1], x)
  BY DEF HeadOf
<1> QED BY <1>1, <1>2, <1>3, InOrderJoined DEF InTransit

(* The headers in the channel after a write.                                  *)
LEMMA HeadersJoined ==
  ASSUME StreamIInv, NEW lengths, NEW room, NEW write, FramedWrite(lengths, room, write),
         NEW j \in 1..Len(Buffered \o write), (Buffered \o write)[j].head
  PROVE  \/ \E k \in 1..Len(Buffered) : (Buffered \o write)[j] = Buffered[k]
         \/ (Buffered \o write)[j] = write[1]
<1> DEFINE all == Buffered \o write
<1>1. /\ write \in Seq(Unit) /\ write # << >> /\ write[1].head
      /\ Len(write) \in Nat /\ Len(write) > 0
      /\ \A k \in 2..Len(write) : ~write[k].head
  BY WriteFacts
<1>2. Buffered \in Seq(Unit) /\ Len(Buffered) \in Nat
  BY StateFacts DEF StreamIInv
<1>3. /\ Len(all) = Len(Buffered) + Len(write)
      /\ \A k \in 1..Len(Buffered) : all[k] = Buffered[k]
      /\ \A k \in 1..Len(write) : all[Len(Buffered) + k] = write[k]
  BY <1>1, <1>2, JoinedUnits
<1>4. j \in 1..Len(all) /\ all[j].head
  OBVIOUS
<1> HIDE DEF all
<1>5. CASE j <= Len(Buffered)
  <2>1. j \in 1..Len(Buffered)
    BY <1>2, <1>3, <1>4, <1>5
  <2>2. all[j] = Buffered[j]
    BY <2>1, <1>3
  <2> QED BY <2>1, <2>2 DEF all
<1>6. CASE j > Len(Buffered)
  <2>1. j - Len(Buffered) \in 1..Len(write) /\ Len(Buffered) + (j - Len(Buffered)) = j
    BY <1>1, <1>2, <1>3, <1>4, <1>6
  <2>2. all[j] = write[j - Len(Buffered)]
    BY <2>1, <1>3
  <2>3. j - Len(Buffered) = 1
    BY <2>1, <2>2, <1>1, <1>4
  <2>4. all[j] = write[1]
    BY <2>2, <2>3
  <2> QED BY <2>4 DEF all
<1> QED BY <1>5, <1>6, <1>2, <1>3, <1>4

(* A write adds the next fragment behind those that are in transit.           *)
LEMMA DeviceWriteStep ==
  ASSUME StreamIInv, DeviceWrite
  PROVE  StreamIInv'
<1> DEFINE write == Head(sending)
<1>1. /\ open /\ sending # << >>
      /\ channel' = channel \o write /\ sending' = Tail(sending)
      /\ UNCHANGED <<fixedVars, readerVars, payload_length, cut, response, parsing, open, invalids, read_errors>>
  BY DEF DeviceWrite
<1>2. Sent' = Sent /\ Room' = Room /\ cut' = cut
  BY <1>1 DEF Sent, Room, fixedVars, FragmentHeader
<1>3. /\ Len(sending) \in Nat /\ Len(sending) > 0
      /\ sending[1] = write
      /\ sending' \in Seq(Seq(Unit)) /\ Len(sending') = Len(sending) - 1
      /\ \A i \in 1..Len(sending) - 1 : sending'[i] = sending[i + 1]
      /\ FramedWrite(payload_length, Room, write)
      /\ Sender \in Sent \ cut /\ write[1].id = Sender
      /\ Written(Sender) = Total(Room, payload_length[Sender]) - Len(sending)
      /\ Total(Room, payload_length[Sender]) \in Nat \ {0}
      /\ Written(Sender) \in Nat /\ write[1].current = Written(Sender)
  BY <1>1, SendingFacts DEF StreamIInv
<1>4. /\ write \in Seq(Unit) /\ write # << >> /\ write[1].head
      /\ Len(write) \in Nat /\ Len(write) > 0
      /\ \A k \in 2..Len(write) : ~write[k].head
  BY <1>3, WriteFacts
<1> HIDE DEF write
<1>5. /\ channel' \in Seq(Unit) /\ PortInv'
      /\ Buffered' = Buffered \o write
      /\ Framed(payload_length', Room', Buffered')
      /\ (Buffered # << >> => Buffered[1].head) => Buffered'[1].head
  <2>1. /\ UNCHANGED <<packets, response, parsing>> /\ channel' = channel \o write
        /\ Framed(payload_length', Room', Buffered) /\ FramedWrite(payload_length', Room', write)
    BY <1>1, <1>2, <1>3 DEF fixedVars, StreamIInv, FramingInv
  <2> QED BY <2>1, <1>2, Appends
<1>6. StreamTypes'
  BY <1>1, <1>2, <1>3, <1>5 DEF StreamIInv, StreamTypes, fixedVars, readerVars
<1>7. sending' # << >> => Sender' = Sender
  <2>1. ASSUME sending' # << >>
        PROVE  Sender' = Sender
    <3>1. 1 \in 1..Len(sending) - 1 /\ 1 + 1 \in 1..Len(sending)
      BY <2>1, <1>3
    <3>2. sending'[1] = sending[1 + 1]
      BY <3>1, <1>3
    <3>3. sending[1 + 1][1].id = Sender
      BY <3>1 DEF StreamIInv, SendingInv
    <3> QED BY <3>2, <3>3 DEF Sender
  <2> QED BY <2>1
<1>8. SendingInv'
  <2> SUFFICES ASSUME NEW i \in 1..Len(sending')
               PROVE  /\ FramedWrite(payload_length, Room, sending'[i])
                      /\ SentHeader(payload_length, Room, sending'[i][1])
                      /\ Sender \in Sent \ cut /\ sending'[i][1].id = Sender
                      /\ sending'[i][1].current
                           = Total(Room, payload_length[Sender]) - Len(sending') + i - 1
    <3>1. Len(sending') > 0 => sending' # << >>
      OBVIOUS
    <3>2. ASSUME NEW i \in 1..Len(sending') PROVE sending' # << >>
      BY <3>1, <1>3
    <3> QED BY <3>2, <1>1, <1>2, <1>7 DEF SendingInv
  <2>1. i + 1 \in 1..Len(sending) /\ sending'[i] = sending[i + 1] /\ i \in Nat
    BY <1>3
  <2>2. /\ FramedWrite(payload_length, Room, sending[i + 1])
        /\ SentHeader(payload_length, Room, sending[i + 1][1])
        /\ Sender \in Sent \ cut /\ sending[i + 1][1].id = Sender
        /\ sending[i + 1][1].current
             = Total(Room, payload_length[Sender]) - Len(sending) + (i + 1) - 1
    BY <2>1 DEF StreamIInv, SendingInv
  <2>3. Total(Room, payload_length[Sender]) - Len(sending) + (i + 1) - 1
          = Total(Room, payload_length[Sender]) - Len(sending') + i - 1
    BY <1>3, <2>1
  <2> QED BY <2>1, <2>2, <2>3
<1>9. FramingInv'
  <2>1. ASSUME invalids = 0, NEW j \in 1..Len(Buffered'), Buffered'[j].head
        PROVE  Buffered'[j].id # 0
    <3>1. (\E k \in 1..Len(Buffered) : Buffered'[j] = Buffered[k]) \/ Buffered'[j] = write[1]
      <4>1. j \in 1..Len(Buffered \o write) /\ (Buffered \o write)[j].head
        BY <2>1, <1>5
      <4>2. \E lengths : FramedWrite(lengths, Room, write)
        BY <1>3
      <4> QED BY <4>1, <4>2, <1>5, HeadersJoined
    <3>2. Sender # 0
      BY <1>3, MessageIsNat DEF StreamIInv, StreamTypes
    <3> QED BY <3>1, <3>2, <2>1, <1>3 DEF StreamIInv, FramingInv
  <2> QED BY <2>1, <1>1, <1>5 DEF FramingInv
<1>10. CollectorInv'
  BY <1>1, <1>2 DEF StreamIInv, CollectorInv, CollectedInv, Collection, Payload, readerVars
<1>11. OrderInv'
  <2> SUFFICES ASSUME Faultless'
               PROVE  /\ Buffered' # << >> => Buffered'[1].head
                      /\ ~packets /\ ~parsing /\ response # << >> => Len(response) < response[1].length
                      /\ \A x \in Sent \ cut : InTransit(x)'
    BY <1>1, <1>2 DEF OrderInv, fixedVars
  <2>1. Faultless
    BY <1>1 DEF Faultless, fixedVars
  <2>2. ASSUME NEW x \in Sent \ cut
        PROVE  InTransit(x)'
    <3>1. InTransit(x)
      BY <2>1 DEF StreamIInv, OrderInv
    <3>2. HeadOf(write[1], x) <=> x = Sender
      BY <1>3, <1>4 DEF HeadOf
    <3>3. Collected(x) \in Nat /\ Written(x) \in Nat /\ Buffered \in Seq(Unit)
      BY <2>1, NothingMisread, TransitBounds, StateFacts DEF StreamIInv
    <3>4. InOrder(Buffered', x, Collected(x), IF HeadOf(write[1], x) THEN Written(x) + 1 ELSE Written(x))
      BY <3>1, <3>2, <3>3, <1>3, <1>4, <1>5, InOrderJoined DEF InTransit
    <3>5. Written(x)' = IF HeadOf(write[1], x) THEN Written(x) + 1 ELSE Written(x)
      <4>1. CASE x = Sender
        <5>1. CASE sending' = << >>
          <6>1. Len(sending) = 1
            BY <5>1, <1>3
          <6> QED BY <4>1, <5>1, <6>1, <3>2, <1>1, <1>2, <1>3 DEF Written
        <5>2. CASE sending' # << >>
          BY <4>1, <5>2, <3>2, <1>1, <1>2, <1>3, <1>7 DEF Written
        <5> QED BY <5>1, <5>2
      <4>2. CASE x # Sender
        BY <4>2, <3>2, <1>1, <1>2, <1>7 DEF Written
      <4> QED BY <4>1, <4>2
    <3>6. Collected(x)' = Collected(x)
      BY <1>1 DEF Collected, readerVars
    <3> QED BY <3>1, <3>4, <3>5, <3>6, <1>1 DEF InTransit, readerVars
  <2> QED BY <2>1, <2>2, <1>5 DEF StreamIInv, OrderInv
<1> QED BY <1>5, <1>6, <1>8, <1>9, <1>10, <1>11 DEF StreamIInv

(* A message whose writing failed is no longer expected.                      *)
LEMMA WriteFailsStep ==
  ASSUME StreamIInv, WriteFails
  PROVE  StreamIInv'
<1>1. /\ open /\ sending # << >> /\ sending' = << >>
      /\ cut' = cut \cup {Head(sending)[1].id}
      /\ UNCHANGED <<fixedVars, readerVars, payload_length, channel, response, parsing, open, invalids, read_errors>>
  BY DEF WriteFails
<1>2. Sent' = Sent /\ Room' = Room /\ Buffered' = Buffered
  BY <1>1 DEF Sent, Room, fixedVars, FragmentHeader, Buffered
<1>3. Sender \in Sent \ cut /\ Head(sending)[1].id = Sender
  BY <1>1, SendingFacts DEF StreamIInv
<1>4. StreamTypes'
  <2>1. << >> \in Seq(Seq(Unit))
    OBVIOUS
  <2> QED BY <2>1, <1>1, <1>2, <1>3 DEF StreamIInv, StreamTypes, fixedVars, readerVars
<1>5. PortInv'
  BY <1>1 DEF StreamIInv, PortInv, fixedVars
<1>6. SendingInv'
  <2>1. Len(sending') = 0
    BY <1>1
  <2> QED BY <2>1 DEF SendingInv
<1>7. FramingInv'
  BY <1>1, <1>2 DEF StreamIInv, FramingInv
<1>8. CollectorInv'
  BY <1>1, <1>2 DEF StreamIInv, CollectorInv, CollectedInv, Collection, Payload, readerVars
<1>9. OrderInv'
  <2> SUFFICES ASSUME Faultless'
               PROVE  /\ Buffered # << >> => Buffered[1].head
                      /\ ~packets /\ ~parsing /\ response # << >> => Len(response) < response[1].length
                      /\ \A x \in Sent \ cut' : InTransit(x)'
    BY <1>1, <1>2 DEF OrderInv, fixedVars
  <2>1. Faultless
    BY <1>1 DEF Faultless, fixedVars
  <2>2. ASSUME NEW x \in Sent \ cut'
        PROVE  InTransit(x)'
    <3>1. x \in Sent \ cut /\ x # Sender
      BY <1>1, <1>3
    <3>2. Written(x)' = Written(x) /\ Collected(x)' = Collected(x)
      BY <3>1, <1>1, <1>2 DEF Written, Collected, readerVars
    <3>3. InTransit(x)
      BY <2>1, <3>1 DEF StreamIInv, OrderInv
    <3> QED BY <3>2, <3>3, <1>1, <1>2 DEF InTransit, readerVars
  <2> QED BY <2>1, <2>2 DEF StreamIInv, OrderInv
<1> QED BY <1>4, <1>5, <1>6, <1>7, <1>8, <1>9 DEF StreamIInv

(* A message that cannot be fragmented arrives in one piece.                  *)
LEMMA SendSingleStep ==
  ASSUME StreamIInv, SendSingle
  PROVE  StreamIInv'
<1> DEFINE Write(m) == << Header(m, "single", 2, 1, 0, 0), Filler >>
<1>1. /\ open /\ sending = << >>
      /\ UNCHANGED <<fixedVars, readerVars, sending, cut, response, parsing, open, invalids, read_errors>>
  BY DEF SendSingle
<1>2. PICK m \in Message \ Sent :
        /\ payload_length' = [x \in Sent \cup {m} |-> IF x = m THEN 0 ELSE payload_length[x]]
        /\ channel' = channel \o Write(m)
  BY DEF SendSingle
<1> DEFINE write == Write(m)
<1>3. UNCHANGED max_fragment_size /\ 0 \in 0..MaxPayload
  BY <1>1, StreamAssumption DEF fixedVars
<1>4. /\ Sent' = Sent \cup {m} /\ Sent' \subseteq Message
      /\ payload_length' \in [Sent' -> 0..MaxPayload]
      /\ payload_length'[m] = 0
      /\ \A x \in Sent : payload_length'[x] = payload_length[x]
      /\ Room' = Room
      /\ Framed(payload_length', Room', Buffered)
      /\ UNCHANGED readerVars => CollectorInv'
      /\ misread = {} => Collected(m) = 0 /\ outcome[m] = "waiting"
      /\ InOrder(Buffered, m, 0, 0)
  BY <1>2, <1>3, SentGrows
<1>5. Room \in Nat \ {0}
  BY StateFacts DEF StreamIInv
<1>6. Total(Room, 0) = 1 /\ Start(Room, 0, 0) = 0 /\ Start(Room, 0, 0 + 1) = 0
  <2>1. Total(Room, 0) = 1
    BY <1>5 DEF Total
  <2> QED BY <2>1, <1>5, StartFacts
<1>7. /\ FramedWrite(payload_length', Room', write)
      /\ write[1].id = m /\ write[1].current = 0
  <2>1. << >> \in Seq(Unit) /\ Len(<< >>) = 0
    OBVIOUS
  <2>2. ASSUME NEW lengths, lengths = payload_length'
        PROVE  FragmentOf(lengths, Room, m, "single", 0, 0, << >>, write)
    <3>1. m \in DOMAIN lengths /\ lengths[m] = 0
      BY <2>2, <1>4 DEF Sent
    <3>2. write = << Header(m, "single", FragmentHeader + 0, 1, 0, 0), Filler >> \o << >>
      <4>1. FragmentHeader + 0 = 2
        BY DEF FragmentHeader
      <4>2. << Header(m, "single", 2, 1, 0, 0), Filler >> \o << >> = << Header(m, "single", 2, 1, 0, 0), Filler >>
        OBVIOUS
      <4> QED BY <4>1, <4>2
    <3>3. 0 \in 0..Total(Room, 0) - 1
      BY <1>6
    <3> HIDE DEF write
    <3> QED BY <2>1, <3>1, <3>2, <3>3, <1>6 DEF FragmentOf, FragmentHeader
  <2> HIDE DEF write
  <2>3. ASSUME NEW lengths, lengths = payload_length'
        PROVE  FramedWrite(lengths, Room, write) /\ write[1].id = m /\ write[1].current = 0
    BY <2>2, <2>3, <1>5, FragmentFramed
  <2> QED BY <2>3, <1>4
<1>8. /\ write \in Seq(Unit) /\ write # << >> /\ write[1].head
      /\ \A k \in 2..Len(write) : ~write[k].head
  BY <1>7, WriteFacts
<1>9. channel' = channel \o write
  BY <1>2
<1> HIDE DEF write, Write
<1>10. /\ channel' \in Seq(Unit) /\ PortInv'
       /\ Buffered' = Buffered \o write
       /\ Framed(payload_length', Room', Buffered')
       /\ (Buffered # << >> => Buffered[1].head) => Buffered'[1].head
  BY <1>1, <1>4, <1>7, <1>9, Appends DEF fixedVars
<1>11. StreamTypes'
  <2>1. cut' \subseteq Sent'
    BY <1>1, <1>4 DEF StreamIInv, StreamTypes
  <2> QED BY <2>1, <1>1, <1>4, <1>10 DEF StreamIInv, StreamTypes, fixedVars, readerVars
<1>12. SendingInv'
  <2>1. Len(sending') = 0
    BY <1>1
  <2> QED BY <2>1 DEF SendingInv
<1>13. FramingInv'
  <2>1. ASSUME invalids = 0, NEW j \in 1..Len(Buffered'), Buffered'[j].head
        PROVE  Buffered'[j].id # 0
    <3>1. \/ \E k \in 1..Len(Buffered) : Buffered'[j] = Buffered[k]
          \/ Buffered'[j] = write[1]
      <4>1. ASSUME NEW lengths, lengths = payload_length'
            PROVE  FramedWrite(lengths, Room, write)
        BY <4>1, <1>4, <1>7
      <4>2. \E lengths : FramedWrite(lengths, Room, write)
        BY <4>1
      <4> QED BY <4>2, <2>1, <1>10, HeadersJoined
    <3>2. m # 0
      BY MessageIsNat
    <3> QED BY <3>1, <3>2, <2>1, <1>7 DEF StreamIInv, FramingInv
  <2> QED BY <2>1, <1>1, <1>10 DEF FramingInv
<1>14. CollectorInv'
  BY <1>1, <1>4
<1>15. OrderInv'
  <2> SUFFICES ASSUME Faultless'
               PROVE  /\ Buffered' # << >> => Buffered'[1].head
                      /\ ~packets /\ ~parsing /\ response # << >> => Len(response) < response[1].length
                      /\ \A x \in (Sent \ cut) \cup {m} : InTransit(x)'
    BY <1>1, <1>4 DEF OrderInv, fixedVars
  <2>1. Faultless
    BY <1>1 DEF Faultless, fixedVars
  <2>2. ASSUME NEW x \in Sent \ cut
        PROVE  InTransit(x)'
    <3>1. InTransit(x) /\ x # m
      BY <2>1 DEF StreamIInv, OrderInv
    <3>2. Written(x)' = Written(x) /\ Collected(x)' = Collected(x)
      BY <1>1, <1>4 DEF Written, Collected, readerVars
    <3>3. InOrder(Buffered', x, Collected(x), Written(x))
      <4>1. ASSUME NEW lengths, lengths = payload_length'
            PROVE  FramedWrite(lengths, Room, write)
        BY <4>1, <1>4, <1>7
      <4>2. \E lengths : FramedWrite(lengths, Room, write)
        BY <4>1
      <4> QED BY <2>1, <3>1, <4>2, <1>7, <1>10, NothingMisread, OthersInTransit
    <3> QED BY <3>1, <3>2, <3>3, <1>1 DEF InTransit, readerVars
  <2>3. InTransit(m)'
    <3>5. misread = {}
      BY <2>1, NothingMisread
    <3>1. Written(m)' = 1 /\ Collected(m)' = 0
      BY <3>5, <1>1, <1>4, <1>6 DEF Written, Collected, readerVars
    <3>2. HeadOf(write[1], m) /\ write[1].current = 0
      BY <1>7, <1>8 DEF HeadOf
    <3>3. Buffered \in Seq(Unit)
      BY StateFacts DEF StreamIInv
    <3>4. InOrder(Buffered \o write, m, 0, IF HeadOf(write[1], m) THEN 0 + 1 ELSE 0)
      BY <3>2, <3>3, <1>4, <1>8, InOrderJoined
    <3> QED BY <3>1, <3>2, <3>4, <3>5, <1>1, <1>4, <1>10 DEF InTransit, readerVars
  <2> QED BY <2>1, <2>2, <2>3, <1>10 DEF StreamIInv, OrderInv
<1> QED BY <1>10, <1>11, <1>12, <1>13, <1>14, <1>15 DEF StreamIInv

(* An invalid message is framed and belongs to no transaction.                *)
LEMMA PeerSendsInvalidStep ==
  ASSUME StreamIInv, PeerSendsInvalid
  PROVE  StreamIInv'
<1>1. /\ open /\ sending = << >> /\ invalids < MaxFaults /\ invalids' = invalids + 1
      /\ UNCHANGED <<fixedVars, payload_length, sending, cut, readerVars, response, parsing, open, read_errors>>
  BY DEF PeerSendsInvalid
<1>2. PICK write \in InvalidMessages : channel' = channel \o write
  BY DEF PeerSendsInvalid
<1>3. Sent' = Sent /\ Room' = Room
  BY <1>1 DEF Sent, Room, fixedVars, FragmentHeader
<1>4. FramedWrite(payload_length, Room, write) /\ write[1].id = 0
  BY InvalidFramed, StateFacts DEF StreamIInv
<1>5. /\ channel' \in Seq(Unit) /\ PortInv'
      /\ Buffered' = Buffered \o write
      /\ Framed(payload_length', Room', Buffered')
      /\ (Buffered # << >> => Buffered[1].head) => Buffered'[1].head
  <2>1. /\ UNCHANGED <<packets, response, parsing>>
        /\ Framed(payload_length', Room', Buffered) /\ FramedWrite(payload_length', Room', write)
    BY <1>1, <1>3, <1>4 DEF fixedVars, StreamIInv, FramingInv
  <2> QED BY <2>1, <1>2, <1>3, Appends
<1>6. invalids \in Nat /\ invalids' \in 0..MaxFaults /\ invalids' # 0
  BY <1>1, StreamAssumption DEF StreamIInv, StreamTypes
<1>7. StreamTypes'
  BY <1>1, <1>3, <1>5, <1>6 DEF StreamIInv, StreamTypes, fixedVars, readerVars
<1>8. SendingInv'
  <2>1. Len(sending') = 0
    BY <1>1
  <2> QED BY <2>1 DEF SendingInv
<1>9. FramingInv'
  BY <1>5, <1>6 DEF FramingInv
<1>10. CollectorInv'
  BY <1>1, <1>3 DEF StreamIInv, CollectorInv, CollectedInv, Collection, Payload, readerVars
<1>11. OrderInv'
  <2> SUFFICES ASSUME Faultless'
               PROVE  /\ Buffered' # << >> => Buffered'[1].head
                      /\ ~packets /\ ~parsing /\ response # << >> => Len(response) < response[1].length
                      /\ \A x \in Sent \ cut : InTransit(x)'
    BY <1>1, <1>3 DEF OrderInv, fixedVars
  <2>1. Faultless
    BY <1>1, <1>6 DEF Faultless, fixedVars
  <2>2. ASSUME NEW x \in Sent \ cut
        PROVE  InTransit(x)'
    <3>1. InTransit(x)
      BY <2>1 DEF StreamIInv, OrderInv
    <3>2. Written(x)' = Written(x) /\ Collected(x)' = Collected(x)
      BY <1>1, <1>3 DEF Written, Collected, readerVars
    <3>3. write[1].id # x
      BY <1>4, MessageIsNat DEF StreamIInv, StreamTypes
    <3>4. InOrder(Buffered', x, Collected(x), Written(x))
      BY <2>1, <3>1, <3>3, <1>4, <1>5, NothingMisread, OthersInTransit
    <3> QED BY <3>1, <3>2, <3>4, <1>1 DEF InTransit, readerVars
  <2> QED BY <2>1, <2>2, <1>5 DEF StreamIInv, OrderInv
<1> QED BY <1>5, <1>7, <1>8, <1>9, <1>10, <1>11 DEF StreamIInv

(* A read moves units and changes neither their order nor their number.       *)
LEMMA DataAvailableStep ==
  ASSUME StreamIInv, DataAvailable
  PROVE  StreamIInv'
<1>1. /\ open /\ ~parsing /\ channel # << >> /\ parsing' = TRUE
      /\ UNCHANGED <<fixedVars, peerVars, readerVars, open, read_errors>>
  BY DEF DataAvailable
<1>2. PICK n \in ReadLengths :
        /\ response' = response \o SubSeq(channel, 1, n)
        /\ channel' = SubSeq(channel, n + 1, Len(channel))
  BY DEF DataAvailable
<1>3. Sent' = Sent /\ Room' = Room
  BY <1>1 DEF Sent, Room, fixedVars, peerVars, FragmentHeader
<1>4. /\ response \in Seq(Unit) /\ channel \in Seq(Unit) /\ Buffered \in Seq(Unit)
      /\ Len(response) \in Nat /\ Len(channel) \in Nat /\ Room \in Nat \ {0}
      /\ Rest(Buffered, Len(response)) = channel /\ Len(Buffered) = Len(response) + Len(channel)
  BY StateFacts DEF StreamIInv
<1>5. packets => /\ response = << >> /\ channel[1].head /\ n = channel[1].length
                 /\ n \in 1..Len(channel) /\ MessageAt(payload_length, Room, channel, 1)
  <2> SUFFICES ASSUME packets
               PROVE  /\ response = << >> /\ channel[1].head /\ n = channel[1].length
                      /\ n \in 1..Len(channel) /\ MessageAt(payload_length, Room, channel, 1)
    OBVIOUS
  <2>1. response = << >> /\ channel[1].head /\ n = channel[1].length
    BY <1>1, <1>2 DEF StreamIInv, PortInv, ReadLengths
  <2>2. Framed(payload_length, Room, channel)
    <3>1. Len(response) \in 0..Len(Buffered) /\ Framed(payload_length, Room, Buffered)
      BY <1>4 DEF StreamIInv, FramingInv
    <3>2. Framed(payload_length, Room, Rest(Buffered, Len(response)))
      BY <1>4, <3>1, FramedRest
    <3> QED BY <3>2, <1>4
  <2>3. 1 \in 1..Len(channel)
    BY <1>1, <1>4
  <2>4. MessageAt(payload_length, Room, channel, 1)
    BY <2>1, <2>2, <2>3 DEF Framed
  <2>5. channel[1] \in Unit
    BY <1>4, <2>3
  <2>6. n \in Nat /\ n > 0 /\ 1 + n - 1 <= Len(channel)
    BY <2>1, <2>4, <2>5, HeaderFields DEF MessageAt
  <2> QED BY <2>1, <2>4, <2>6, <1>4
<1>6. n \in 1..Len(channel)
  BY <1>2, <1>5 DEF ReadLengths
<1>7. /\ SubSeq(channel, 1, n) \in Seq(Unit) /\ Len(SubSeq(channel, 1, n)) = n
      /\ SubSeq(channel, 1, n)[1] = channel[1]
      /\ (response \o SubSeq(channel, 1, n)) \o Rest(channel, n) = response \o channel
  BY <1>4, <1>6, CutAndJoined
<1>8. channel' = Rest(channel, n) /\ n \in 0..Len(channel)
  BY <1>2, <1>6 DEF Rest
<1>9. /\ channel' \in Seq(Unit) /\ Len(channel') = Len(channel) - n
      /\ \A j \in 1..Len(channel) - n : channel'[j] = channel[n + j]
  BY <1>4, <1>8, RestUnits
<1>10. Buffered' = Buffered
  BY <1>2, <1>7, <1>8 DEF Buffered
<1>11. /\ response' \in Seq(Unit) /\ response' # << >>
       /\ response = << >> => response'[1] = channel[1] /\ Len(response') = n
  <2> DEFINE part == SubSeq(channel, 1, n)
  <2>1. part \in Seq(Unit) /\ Len(part) = n /\ part[1] = channel[1] /\ response' = response \o part
    BY <1>2, <1>7
  <2> HIDE DEF part
  <2>2. /\ response' \in Seq(Unit) /\ Len(response') = Len(response) + n
        /\ \A j \in 1..n : response'[Len(response) + j] = part[j]
    <3> DEFINE all == response \o part
    <3>1. /\ all \in Seq(Unit) /\ Len(all) = Len(response) + Len(part)
          /\ \A j \in 1..Len(part) : all[Len(response) + j] = part[j]
      BY <2>1, <1>4, JoinedUnits
    <3>2. response' = all
      BY <2>1
    <3> HIDE DEF all
    <3> QED BY <3>1, <3>2, <2>1
  <2>3. response' # << >>
    BY <2>2, <1>4, <1>6
  <2>4. ASSUME response = << >>
        PROVE  response'[1] = channel[1] /\ Len(response') = n
    <3>1. Len(response) = 0 /\ 1 \in 1..n /\ n \in Nat
      BY <2>4, <1>4, <1>6
    <3>2. response'[0 + 1] = part[1]
      BY <2>2, <3>1
    <3> QED BY <2>1, <2>2, <3>1, <3>2
  <2> QED BY <2>2, <2>3, <2>4
<1>12. StreamTypes'
  BY <1>1, <1>3, <1>9, <1>11 DEF StreamIInv, StreamTypes, fixedVars, readerVars, peerVars
<1>13. PortInv'
  <2> SUFFICES ASSUME packets
               PROVE  /\ channel' # << >> => channel'[1].head
                      /\ response'[1].head /\ Len(response') = response'[1].length
    BY <1>1 DEF PortInv, fixedVars
  <2>1. response'[1].head /\ Len(response') = response'[1].length
    BY <1>5, <1>11
  <2>2. ASSUME channel' # << >>
        PROVE  channel'[1].head
    <3>1. 1 \in 1..Len(channel) - n /\ 1 + n <= Len(channel)
      <4>1. Len(channel') > 0
        BY <1>9, <2>2
      <4> QED BY <4>1, <1>4, <1>6, <1>9
    <3>2. channel[1 + n].head
      BY <3>1, <1>5 DEF MessageAt
    <3>3. channel'[1] = channel[n + 1] /\ n + 1 = 1 + n
      BY <3>1, <1>6, <1>9
    <3> QED BY <3>2, <3>3
  <2> QED BY <2>1, <2>2
<1>14. SendingInv'
  BY <1>1, <1>3 DEF StreamIInv, SendingInv, Sender, peerVars
<1>15. FramingInv'
  BY <1>1, <1>3, <1>10 DEF StreamIInv, FramingInv, peerVars
<1>16. CollectorInv'
  BY <1>1, <1>3 DEF StreamIInv, CollectorInv, CollectedInv, Collection, Payload, readerVars, peerVars
<1>17. OrderInv'
  <2> SUFFICES ASSUME Faultless'
               PROVE  /\ Buffered # << >> => Buffered[1].head
                      /\ \A x \in Sent \ cut : InTransit(x)'
    BY <1>1, <1>3, <1>10 DEF OrderInv, fixedVars, peerVars
  <2>1. Faultless
    BY <1>1 DEF Faultless, fixedVars, peerVars
  <2>2. ASSUME NEW x \in Sent \ cut
        PROVE  InTransit(x)'
    <3>1. InTransit(x)
      BY <2>1 DEF StreamIInv, OrderInv
    <3>2. Written(x)' = Written(x) /\ Collected(x)' = Collected(x)
      BY <1>1, <1>3 DEF Written, Collected, Sender, readerVars, peerVars
    <3> QED BY <3>1, <3>2, <1>1, <1>10 DEF InTransit, readerVars
  <2> QED BY <2>1, <2>2 DEF StreamIInv, OrderInv
<1> QED BY <1>12, <1>13, <1>14, <1>15, <1>16, <1>17 DEF StreamIInv

(* Dropping the beginning of the buffer leaves the rest as it was.            *)
LEMMA FramingDropped ==
  ASSUME StreamIInv, UNCHANGED <<max_fragment_size, payload_length, invalids>>,
         NEW n \in 0..Len(Buffered), Buffered' = Rest(Buffered, n)
  PROVE  FramingInv'
<1>1. Buffered \in Seq(Unit) /\ Room \in Nat \ {0} /\ Len(Buffered) \in Nat
  BY StateFacts DEF StreamIInv
<1>2. Room' = Room
  BY DEF Room, FragmentHeader
<1>3. Framed(payload_length, Room, Rest(Buffered, n))
  BY <1>1, FramedRest DEF StreamIInv, FramingInv
<1>4. ASSUME invalids = 0, NEW j \in 1..Len(Buffered'), Buffered'[j].head
      PROVE  Buffered'[j].id # 0
  <2>1. j \in 1..Len(Buffered) - n /\ Buffered'[j] = Buffered[n + j]
    BY <1>1, RestUnits
  <2>2. n + j \in 1..Len(Buffered)
    BY <1>1, <2>1
  <2> QED BY <2>1, <2>2, <1>4 DEF StreamIInv, FramingInv
<1> QED BY <1>2, <1>3, <1>4 DEF FramingInv

(* Throwing away what was read leaves the channel.                            *)
LEMMA FramingThrownAway ==
  ASSUME StreamIInv, UNCHANGED <<max_fragment_size, payload_length, invalids, channel>>,
         response' = << >>
  PROVE  FramingInv' /\ Buffered' = channel
<1>1. /\ Len(response) \in 0..Len(Buffered) /\ Rest(Buffered, Len(response)) = channel
      /\ channel \in Seq(Unit)
  BY StateFacts DEF StreamIInv
<1>2. Buffered' = channel
  BY <1>1 DEF Buffered
<1> QED BY <1>1, <1>2, FramingDropped

(* What was read is thrown away: on a port there was nothing.                 *)
LEMMA DataErrorStep ==
  ASSUME StreamIInv, DataError
  PROVE  StreamIInv'
<1>1. /\ open /\ ~parsing /\ read_errors < MaxFaults /\ read_errors' = read_errors + 1
      /\ response' = << >>
      /\ UNCHANGED <<fixedVars, peerVars, readerVars, channel, parsing, open>>
  BY DEF DataError
<1>2. Sent' = Sent /\ Room' = Room
  BY <1>1 DEF Sent, Room, fixedVars, peerVars, FragmentHeader
<1>3. read_errors' \in 0..MaxFaults /\ read_errors' # 0
  BY <1>1, StreamAssumption DEF StreamIInv, StreamTypes
<1>4. StreamTypes'
  <2>1. << >> \in Seq(Unit)
    OBVIOUS
  <2> QED BY <2>1, <1>1, <1>2, <1>3 DEF StreamIInv, StreamTypes, fixedVars, readerVars, peerVars
<1>5. PortInv'
  BY <1>1 DEF StreamIInv, PortInv, fixedVars
<1>6. SendingInv'
  BY <1>1, <1>2 DEF StreamIInv, SendingInv, Sender, peerVars
<1>7. FramingInv'
  BY <1>1, FramingThrownAway DEF fixedVars, peerVars
<1>8. CollectorInv'
  BY <1>1, <1>2 DEF StreamIInv, CollectorInv, CollectedInv, Collection, Payload, readerVars, peerVars
<1>9. OrderInv'
  <2> SUFFICES ASSUME Faultless' PROVE OrderInv'
    BY DEF OrderInv
  <2>1. packets /\ Faultless
    BY <1>1, <1>3 DEF Faultless, fixedVars
  <2>2. response = << >>
    BY <1>1, <2>1 DEF StreamIInv, PortInv
  <2>3. response' = response /\ Buffered' = Buffered
    BY <2>2, <1>1 DEF Buffered
  <2>4. \A x : Written(x)' = Written(x) /\ Collected(x)' = Collected(x)
    BY <1>1, <1>2 DEF Written, Collected, Sender, readerVars, peerVars
  <2>5. \A x : InTransit(x) => InTransit(x)'
    BY <2>3, <2>4, <1>1 DEF InTransit, readerVars
  <2> QED BY <2>1, <2>3, <2>5, <1>1, <1>2 DEF StreamIInv, OrderInv, fixedVars, peerVars
<1> QED BY <1>4, <1>5, <1>6, <1>7, <1>8, <1>9 DEF StreamIInv

(* Nothing is expected of a closed channel.                                   *)
LEMMA HangupStep ==
  ASSUME StreamIInv, Hangup
  PROVE  StreamIInv'
<1>1. /\ ~parsing /\ open' = FALSE /\ response' = << >>
      /\ UNCHANGED <<fixedVars, peerVars, readerVars, channel, parsing, read_errors>>
  BY DEF Hangup
<1>2. Sent' = Sent /\ Room' = Room
  BY <1>1 DEF Sent, Room, fixedVars, peerVars, FragmentHeader
<1>3. StreamTypes'
  <2>1. << >> \in Seq(Unit)
    OBVIOUS
  <2> QED BY <2>1, <1>1, <1>2 DEF StreamIInv, StreamTypes, fixedVars, readerVars, peerVars
<1>4. PortInv'
  BY <1>1 DEF StreamIInv, PortInv, fixedVars
<1>5. SendingInv'
  BY <1>1, <1>2 DEF StreamIInv, SendingInv, Sender, peerVars
<1>6. FramingInv'
  BY <1>1, FramingThrownAway DEF fixedVars, peerVars
<1>7. CollectorInv'
  BY <1>1, <1>2 DEF StreamIInv, CollectorInv, CollectedInv, Collection, Payload, readerVars, peerVars
<1>8. OrderInv'
  BY <1>1 DEF OrderInv, Faultless
<1> QED BY <1>3, <1>4, <1>5, <1>6, <1>7, <1>8 DEF StreamIInv

(* An incomplete message stays where it is.                                   *)
LEMMA ParseWaitsStep ==
  ASSUME StreamIInv, ParseWaits
  PROVE  StreamIInv'
<1>1. /\ parsing /\ MayBeIncomplete(response) /\ parsing' = FALSE
      /\ UNCHANGED <<fixedVars, peerVars, readerVars, channel, response, open, read_errors>>
  BY DEF ParseWaits
<1>2. Sent' = Sent /\ Room' = Room /\ Buffered' = Buffered
  BY <1>1 DEF Sent, Room, fixedVars, peerVars, FragmentHeader, Buffered
<1>3. response # << >> /\ response \in Seq(Unit) /\ Len(response) \in Nat
      /\ (response[1].head => Len(response) < response[1].length)
  BY <1>1 DEF StreamIInv, StreamTypes, MayBeIncomplete
<1>4. StreamTypes'
  BY <1>1, <1>2 DEF StreamIInv, StreamTypes, fixedVars, readerVars, peerVars
<1>5. ~packets
  BY <1>1, <1>3 DEF StreamIInv, PortInv
<1>6. PortInv'
  BY <1>1, <1>5 DEF PortInv, fixedVars
<1>7. SendingInv'
  BY <1>1, <1>2 DEF StreamIInv, SendingInv, Sender, peerVars
<1>8. FramingInv'
  BY <1>1, <1>2 DEF StreamIInv, FramingInv, peerVars
<1>9. CollectorInv'
  BY <1>1, <1>2 DEF StreamIInv, CollectorInv, CollectedInv, Collection, Payload, readerVars, peerVars
<1>10. OrderInv'
  <2> SUFFICES ASSUME Faultless' PROVE OrderInv'
    BY DEF OrderInv
  <2>1. Faultless
    BY <1>1 DEF Faultless, fixedVars, peerVars
  <2>2. Buffered # << >> => Buffered[1].head
    BY <2>1 DEF StreamIInv, OrderInv
  <2>3. Buffered # << >> /\ Buffered[1] = response[1]
    <3>1. /\ Len(Buffered) = Len(response) + Len(channel) /\ Len(channel) \in Nat
          /\ \A j \in 1..Len(response) : Buffered[j] = response[j]
          /\ Buffered \in Seq(Unit)
      BY StateFacts DEF StreamIInv
    <3>2. Len(response) > 0
      BY <1>3
    <3> QED BY <3>1, <3>2, <1>3
  <2>4. \A x : Written(x)' = Written(x) /\ Collected(x)' = Collected(x)
    BY <1>1, <1>2 DEF Written, Collected, Sender, readerVars, peerVars
  <2>5. \A x : InTransit(x) => InTransit(x)'
    BY <2>4, <1>1, <1>2 DEF InTransit, readerVars
  <2> QED BY <2>1, <2>2, <2>3, <2>5, <1>1, <1>2, <1>3 DEF StreamIInv, OrderInv, fixedVars, peerVars
<1> QED BY <1>4, <1>6, <1>7, <1>8, <1>9, <1>10 DEF StreamIInv

(* The units of a buffer from one position to another.                        *)
LEMMA SliceFacts ==
  ASSUME NEW units \in Seq(Unit), NEW first \in Nat, NEW last \in first..Len(units)
  PROVE  /\ SubSeq(units, first + 1, last) \in Seq(Unit)
         /\ Len(SubSeq(units, first + 1, last)) = last - first
         /\ \A k \in 1..last - first : /\ SubSeq(units, first + 1, last)[k] = units[first + k]
                                      /\ first + k \in 1..Len(units)
<1>1. Len(units) \in Nat /\ last \in Nat /\ first <= last /\ last <= Len(units)
  OBVIOUS
<1>2. /\ Len(SubSeq(units, first + 1, last)) = last - first
      /\ \A k \in 1..last - first : /\ SubSeq(units, first + 1, last)[k] = units[first + k]
                                   /\ first + k \in 1..Len(units)
  BY <1>1
<1>3. SubSeq(units, first + 1, last) \in Seq(Unit)
  BY <1>1
<1> QED BY <1>2, <1>3

(* What parse_response() finds when the buffer begins with a whole message.   *)
LEMMA FirstMessage ==
  ASSUME StreamIInv, response # << >>, response[1].head, Len(response) >= response[1].length
  PROVE  /\ response[1] \in HeaderUnit /\ Buffered[1] = response[1]
         /\ response[1].length \in 1..Len(response)
         /\ response[1].length \in 1..Len(Buffered)
         /\ MessageAt(payload_length, Room, Buffered, 1)
         /\ \A k \in 2..response[1].length : ~Buffered[k].head
         /\ ValidateInternal(response[1]) => /\ SentHeader(payload_length, Room, response[1])
                                             /\ PayloadAt(payload_length, Room, Buffered, 1)
         /\ ~ValidateInternal(response[1]) => response[1].id = 0 /\ invalids # 0
<1> DEFINE header == response[1]
<1>1. /\ response \in Seq(Unit) /\ channel \in Seq(Unit) /\ Buffered \in Seq(Unit)
      /\ Len(response) \in Nat /\ Len(channel) \in Nat
      /\ Len(Buffered) = Len(response) + Len(channel)
      /\ \A j \in 1..Len(response) : Buffered[j] = response[j]
      /\ Room \in Nat \ {0}
      /\ \A m \in Sent : payload_length[m] \in Nat /\ payload_length[m] <= MaxPayload
  BY StateFacts DEF StreamIInv
<1>2. Len(response) > 0 /\ 1 \in 1..Len(response) /\ 1 \in 1..Len(Buffered)
  BY <1>1
<1>3. header \in Unit /\ Buffered[1] = header
  BY <1>1, <1>2
<1>4. header \in HeaderUnit /\ header.length \in Nat
  BY <1>3, HeaderFields
<1>5. MessageAt(payload_length, Room, Buffered, 1)
  BY <1>2, <1>3 DEF StreamIInv, FramingInv, Framed
<1>6. header.length > 0 /\ \A k \in 1 + 1 .. 1 + header.length - 1 : ~Buffered[k].head
  BY <1>3, <1>4, <1>5 DEF MessageAt
<1>7. InvalidHeader(header) \/ (SentHeader(payload_length, Room, header)
                                  /\ PayloadAt(payload_length, Room, Buffered, 1))
  BY <1>3, <1>5 DEF MessageAt
<1>8. ValidateInternal(header) => /\ SentHeader(payload_length, Room, header)
                                  /\ PayloadAt(payload_length, Room, Buffered, 1)
  BY <1>7 DEF InvalidHeader
<1>9. ASSUME ~ValidateInternal(header)
      PROVE  header.id = 0 /\ invalids # 0
  <2>1. ~SentHeader(payload_length, Room, header)
    <3> SUFFICES ASSUME SentHeader(payload_length, Room, header) PROVE FALSE
      OBVIOUS
    <3>1. payload_length[header.id] \in Nat
      BY <1>1 DEF SentHeader, Sent
    <3> QED BY <3>1, <1>1, <1>4, <1>9, SentIsValid
  <2>2. header.id = 0
    BY <2>1, <1>7 DEF InvalidHeader
  <2>3. invalids # 0
    BY <2>2, <1>2, <1>3 DEF StreamIInv, FramingInv
  <2> QED BY <2>2, <2>3
<1>10. header.length \in 1..Len(response) /\ header.length \in 1..Len(Buffered)
  BY <1>1, <1>4, <1>6
<1>11. \A k \in 2..header.length : ~Buffered[k].head
  BY <1>4, <1>6
<1> QED BY <1>3, <1>4, <1>5, <1>8, <1>9, <1>10, <1>11

(* What process_message() takes from a message is the part of the payload     *)
(* that the fragment number stands for.                                       *)
LEMMA FragmentData ==
  ASSUME StreamIInv, response # << >>, response[1].head, Len(response) >= response[1].length,
         ValidateInternal(response[1]),
         NEW header, header = response[1]
  PROVE  LET n == payload_length[header.id]
             data == SubSeq(response, FragmentHeader + 1, header.length)
         IN /\ header.id \in Sent /\ header.current \in 0..Total(Room, n) - 1
            /\ header.total = Total(Room, n)
            /\ header.type = "single" => n = 0
            /\ Payload(header.id, Start(Room, n, header.current)) \o data
                 = Payload(header.id, Start(Room, n, header.current + 1))
            /\ header.current = 0 => data = Payload(header.id, Start(Room, n, 0 + 1))
<1> DEFINE m == header.id
           current == header.current
           data == SubSeq(response, FragmentHeader + 1, header.length)
           n == payload_length[m]
           start == Start(Room, n, current)
           end == Start(Room, n, current + 1)
           length == header.length
<1>1. /\ response[1] \in HeaderUnit /\ Buffered[1] = response[1]
      /\ length \in 1..Len(response)
      /\ SentHeader(payload_length, Room, response[1])
      /\ PayloadAt(payload_length, Room, Buffered, 1)
  BY FirstMessage
<1>2. /\ response \in Seq(Unit) /\ Len(response) \in Nat /\ Room \in Nat \ {0}
      /\ \A j \in 1..Len(response) : Buffered[j] = response[j]
  BY StateFacts DEF StreamIInv
<1>3. /\ m \in Sent
      /\ response[1].type = "single" => n = 0
      /\ response[1].total = Total(Room, n) /\ current < Total(Room, n)
      /\ length = FragmentHeader + end - start
  BY <1>1 DEF SentHeader, Sent
<1> HIDE DEF data
<1>4. n \in Nat /\ m \in Message
  BY <1>3, StateFacts DEF StreamIInv, StreamTypes
<1>5. Total(Room, n) \in Nat \ {0} /\ current \in Nat /\ length \in Nat
  BY <1>1, <1>2, <1>4, TotalFacts DEF HeaderUnit
<1>6. current \in 0..Total(Room, n) - 1
  BY <1>3, <1>5
<1>7. start \in Nat /\ end \in Nat /\ start <= end
  <2>1. current + 1 \in Nat
    BY <1>5
  <2> QED BY <2>1, <1>2, <1>4, <1>5, <1>6, StartFacts
<1>8. Start(Room, n, 0) = 0
  BY <1>2, <1>4, StartFacts
<1>9. \A k \in 1..length - FragmentHeader : Buffered[1 + 1 + k] = PayloadUnit(m, start + k)
  BY <1>1 DEF PayloadAt
<1> HIDE DEF n, start, end, length
<1>10. /\ data \in Seq(Unit) /\ Len(data) = end - start
       /\ \A k \in 1..Len(data) : data[k] = PayloadUnit(m, start + k)
  <2>1. data = SubSeq(response, 3, length) /\ length = 2 + end - start
    BY <1>3 DEF FragmentHeader, length, data
  <2>2. length >= 2 /\ length <= Len(response) /\ length - 2 = end - start
    BY <2>1, <1>1, <1>2, <1>5, <1>7
  <2>3. /\ Len(data) = length - 2
        /\ \A k \in 1..length - 2 : data[k] = response[2 + k] /\ 2 + k \in 1..Len(response)
        /\ data \in Seq(Unit)
    <3>1. data = SubSeq(response, 2 + 1, length) /\ 2 \in Nat /\ length \in 2..Len(response)
      BY <2>1, <2>2, <1>2, <1>5
    <3> QED BY <3>1, <1>2, SliceFacts
  <2>4. \A k \in 1..length - 2 : Buffered[2 + k] = PayloadUnit(m, start + k)
    BY <1>5, <1>9 DEF FragmentHeader
  <2> QED BY <2>2, <2>3, <2>4, <1>2
<1>11. Payload(m, start) \o data = Payload(m, end)
  <2>1. start + Len(data) = end
    BY <1>7, <1>10
  <2> QED BY <2>1, <1>4, <1>7, <1>10, PayloadGathered
<1>12. ASSUME current = 0
       PROVE  data = Payload(m, end)
  <2>1. start = 0
    BY <1>8, <1>12 DEF start, n
  <2>2. Payload(m, 0) = << >>
    <3>1. Payload(m, 0) \in Seq(Unit) /\ Len(Payload(m, 0)) = 0
      BY <1>4, PayloadFacts
    <3> QED BY <3>1
  <2>3. << >> \o data = data
    BY <1>10
  <2> QED BY <2>1, <2>2, <2>3, <1>11
<1> QED BY <1>3, <1>6, <1>11, <1>12 DEF n, start, end, length, data

(* process_message() touches no other transaction than that of the id.        *)
LEMMA ProcessMessageTouches ==
  ASSUME StreamIInv, NEW header, header.id \in Message, NEW data, ProcessMessage(header, data)
  PROVE  /\ outcome' \in [Message -> {"waiting", "out_of_sequence", "whole"}]
         /\ collector' = [x \in Message |-> collector'[x]]
         /\ \A x \in Message \ {header.id} :
              outcome'[x] = outcome[x] /\ collector'[x] = collector[x]
<1>1. /\ collector = [x \in Message |-> collector[x]]
      /\ outcome \in [Message -> {"waiting", "out_of_sequence", "whole"}]
  BY DEF StreamIInv, StreamTypes, CollectorInv
<1>2. CASE UNCHANGED <<collector, outcome>>
  BY <1>1, <1>2
<1>3. CASE /\ \E fragments : collector' = [collector EXCEPT ![header.id] = fragments]
           /\ \E result \in {"waiting", "out_of_sequence", "whole"} :
                outcome' = [outcome EXCEPT ![header.id] = result]
  <2>1. PICK fragments : collector' = [collector EXCEPT ![header.id] = fragments]
    BY <1>3
  <2>2. PICK result \in {"waiting", "out_of_sequence", "whole"} :
          outcome' = [outcome EXCEPT ![header.id] = result]
    BY <1>3
  <2>3. collector' = [x \in Message |-> IF x = header.id THEN fragments ELSE collector[x]]
    BY <2>1, <1>1
  <2> QED BY <2>2, <2>3, <1>1
<1> QED BY <1>2, <1>3 DEF ProcessMessage

(* process_message() keeps the collector right, and a message that comes when *)
(* it should is collected.                                                    *)
LEMMA ProcessMessageKeeps ==
  ASSUME StreamIInv, UNCHANGED <<max_fragment_size, payload_length, misread>>,
         response # << >>, response[1].head, Len(response) >= response[1].length,
         ValidateInternal(response[1]),
         NEW header, header = response[1],
         ProcessMessage(header, SubSeq(response, FragmentHeader + 1, header.length))
  PROVE  /\ CollectorInv'
         /\ outcome' \in [Message -> {"waiting", "out_of_sequence", "whole"}]
         /\ \A x \in Message \ {header.id} :
              outcome'[x] = outcome[x] /\ collector'[x] = collector[x]
         /\ /\ header.id \notin misread
            /\ outcome[header.id] = "waiting" /\ header.current = Collected(header.id)
            => /\ outcome'[header.id] # "out_of_sequence"
               /\ Collected(header.id)' = Collected(header.id) + 1
<1> DEFINE m == header.id
           data == SubSeq(response, FragmentHeader + 1, header.length)
           total == Total(Room, payload_length[m])
           fragments == IF header.type = "single"
                        THEN [total |-> 1, current |-> 0, payload |-> data]
                        ELSE IF collector[m] = NoFragments THEN CollectorInit(header, data)
                        ELSE CollectorAdd(collector[m], header, data)
<1>1. /\ m \in Sent /\ header.current \in 0..total - 1
      /\ header.total = total
      /\ header.type = "single" => payload_length[m] = 0
      /\ Payload(m, Start(Room, payload_length[m], header.current)) \o data
           = Payload(m, Start(Room, payload_length[m], header.current + 1))
      /\ header.current = 0 => data = Payload(m, Start(Room, payload_length[m], 0 + 1))
  BY FragmentData
<1>2. m \in Message /\ total \in Nat \ {0} /\ Room \in Nat \ {0} /\ header.current \in Nat
  <2>1. Room \in Nat \ {0} /\ payload_length[m] \in Nat
    BY <1>1, StateFacts DEF StreamIInv
  <2>2. total \in Nat \ {0}
    BY <2>1, TotalFacts
  <2> HIDE DEF total
  <2> QED BY <2>1, <2>2, <1>1 DEF StreamIInv, StreamTypes
<1>3. Sent' = Sent /\ Room' = Room /\ \A x, last : Collection(x, last)' = Collection(x, last)
  BY DEF Sent, Room, FragmentHeader, Collection, Payload
<1>4. IF outcome[m] # "waiting" THEN UNCHANGED <<collector, outcome>>
      ELSE /\ collector' = [collector EXCEPT ![m] = fragments]
           /\ outcome' = [outcome EXCEPT ![m] =
                            IF fragments = NoFragments THEN "out_of_sequence"
                            ELSE IF CollectorComplete(fragments) THEN "whole" ELSE "waiting"]
  BY DEF ProcessMessage
<1>5. /\ collector = [x \in Message |-> collector[x]]
      /\ outcome \in [Message -> {"waiting", "out_of_sequence", "whole"}]
      /\ \A x \in Message : CollectedInv(x)
  BY DEF StreamIInv, StreamTypes, CollectorInv
<1>6. \A last \in 0..total - 1 :
        /\ Collection(m, last) # NoFragments
        /\ Collection(m, last).current = last /\ Collection(m, last).total = total
        /\ CollectorComplete(Collection(m, last)) <=> last = total - 1
  BY <1>2 DEF Collection, NoFragments, CollectorComplete
<1>9. CASE m \in misread
  <2>1. /\ outcome' \in [Message -> {"waiting", "out_of_sequence", "whole"}]
        /\ collector' = [x \in Message |-> collector'[x]]
        /\ \A x \in Message \ {m} : outcome'[x] = outcome[x] /\ collector'[x] = collector[x]
    BY <1>2, ProcessMessageTouches
  <2>2. ASSUME NEW x \in Message PROVE CollectedInv(x)'
    BY <2>1, <1>3, <1>5, <1>9 DEF CollectedInv
  <2>3. CollectorInv'
    BY <2>1, <2>2 DEF CollectorInv
  <2> QED BY <2>1, <2>3, <1>9
<1>7. CASE m \notin misread /\ outcome[m] # "waiting"
  <2>1. UNCHANGED readerVars
    BY <1>4, <1>7 DEF readerVars
  <2>2. CollectorInv'
    BY <2>1, <1>3, <1>5 DEF CollectorInv, CollectedInv, readerVars
  <2> QED BY <2>1, <2>2, <1>5, <1>7 DEF readerVars
<1>8. CASE m \notin misread /\ outcome[m] = "waiting"
  <2>1. /\ collector' = [collector EXCEPT ![m] = fragments]
        /\ outcome' = [outcome EXCEPT ![m] =
                         IF fragments = NoFragments THEN "out_of_sequence"
                         ELSE IF CollectorComplete(fragments) THEN "whole" ELSE "waiting"]
    BY <1>4, <1>8
  <2>2. collector[m] = NoFragments
          \/ \E last \in 0..total - 1 : collector[m] = Collection(m, last)
    BY <1>2, <1>5, <1>8 DEF CollectedInv
  <2>3. \/ fragments = NoFragments /\ header.current # Collected(m)
        \/ \E last \in 0..total - 1 :
             /\ fragments = Collection(m, last)
             /\ header.current = Collected(m) => last = header.current
    <3>1. CASE header.type = "single"
      <4>1. total = 1
        BY <1>1, <1>2, <3>1 DEF Total
      <4>2. header.current = 0
        BY <1>1, <1>2, <4>1
      <4>3. fragments = Collection(m, 0)
        BY <3>1, <4>1, <4>2, <1>1 DEF Collection
      <4> HIDE DEF fragments, total
      <4>4. 0 \in 0..total - 1
        BY <4>1
      <4> QED BY <4>2, <4>3, <4>4
    <3>2. CASE header.type # "single" /\ collector[m] = NoFragments
      <4>1. Collected(m) = 0
        BY <3>2 DEF Collected
      <4>2. CASE header.current # 0
        BY <3>2, <4>1, <4>2 DEF CollectorInit
      <4>3. CASE header.current = 0
        <5>1. fragments = [total |-> total, current |-> 0, payload |-> data]
          BY <3>2, <4>3, <1>1 DEF CollectorInit
        <5>2. fragments = Collection(m, 0)
          BY <5>1, <4>3, <1>1 DEF Collection
        <5> HIDE DEF fragments, total
        <5>3. 0 \in 0..total - 1
          BY <1>2
        <5> QED BY <4>3, <5>2, <5>3
      <4> QED BY <4>2, <4>3
    <3>3. CASE header.type # "single" /\ collector[m] # NoFragments
      <4>1. PICK last \in 0..total - 1 : collector[m] = Collection(m, last)
        BY <3>3, <2>2
      <4>2. collector[m].current = last /\ Collected(m) = last + 1 /\ last \in Nat
        BY <3>3, <4>1, <1>2, <1>6 DEF Collected
      <4>3. fragments = CollectorAdd(collector[m], header, data)
        BY <3>3
      <4>4. CASE last # header.current - 1
        <5>1. fragments = NoFragments
          BY <4>2, <4>3, <4>4 DEF CollectorAdd
        <5>2. header.current # Collected(m)
          BY <4>2, <4>4, <1>2
        <5> QED BY <5>1, <5>2
      <4>5. CASE last = header.current - 1
        <5>1. header.current = last + 1
          BY <4>2, <4>5, <1>2
        <5>2. fragments = [total |-> collector[m].total, current |-> header.current,
                           payload |-> collector[m].payload \o data]
          BY <4>2, <4>3, <4>5 DEF CollectorAdd
        <5> DEFINE front == Payload(m, Start(Room, payload_length[m], header.current))
        <5>3. collector[m].total = total /\ collector[m].payload = front
          BY <4>1, <5>1 DEF Collection
        <5> HIDE DEF fragments, total, data, front
        <5>4. fragments = [total |-> total, current |-> header.current, payload |-> front \o data]
          BY <5>2, <5>3
        <5>5. fragments = Collection(m, header.current)
          BY <5>4, <1>1 DEF Collection, total, front, data
        <5> QED BY <5>5, <1>1
      <4> QED BY <4>4, <4>5
    <3> QED BY <3>1, <3>2, <3>3
  <2> HIDE DEF fragments
  <2>4. collector' = [x \in Message |-> IF x = m THEN fragments ELSE collector[x]]
    BY <2>1, <1>5
  <2>5. /\ outcome' \in [Message -> {"waiting", "out_of_sequence", "whole"}]
        /\ \A x \in Message \ {m} : outcome'[x] = outcome[x] /\ collector'[x] = collector[x]
        /\ outcome'[m] = IF fragments = NoFragments THEN "out_of_sequence"
                         ELSE IF CollectorComplete(fragments) THEN "whole" ELSE "waiting"
        /\ collector'[m] = fragments
    BY <2>1, <2>4, <1>2, <1>5
  <2>6. CollectedInv(m)'
    <3>1. CASE fragments = NoFragments
      BY <3>1, <2>5, <1>1, <1>3 DEF CollectedInv
    <3>2. CASE fragments # NoFragments
      <4>1. PICK last \in 0..total - 1 : fragments = Collection(m, last)
        BY <3>2, <2>3
      <4>2. outcome'[m] = IF last = total - 1 THEN "whole" ELSE "waiting"
        BY <3>2, <4>1, <2>5, <1>6
      <4> QED BY <4>1, <4>2, <2>5, <1>1, <1>3 DEF CollectedInv
    <3> QED BY <3>1, <3>2
  <2>7. CollectorInv'
    <3>1. ASSUME NEW x \in Message \ {m} PROVE CollectedInv(x)'
      BY <2>5, <1>3, <1>5 DEF CollectedInv
    <3>2. collector' = [x \in Message |-> collector'[x]]
      BY <2>4
    <3> QED BY <2>6, <3>1, <3>2 DEF CollectorInv
  <2>8. ASSUME header.current = Collected(m)
        PROVE  outcome'[m] # "out_of_sequence" /\ Collected(m)' = Collected(m) + 1
    <3>1. fragments = Collection(m, header.current) /\ header.current \in 0..total - 1
      BY <2>3, <2>8
    <3>2. fragments # NoFragments /\ fragments.current = header.current
      BY <3>1, <1>6
    <3>3. outcome'[m] # "out_of_sequence"
      BY <3>2, <2>5
    <3>4. Collected(m)' = header.current + 1
      BY <3>2, <2>5 DEF Collected
    <3> QED BY <3>3, <3>4, <2>8
  <2> QED BY <2>5, <2>7, <2>8
<1> QED BY <1>7, <1>8, <1>9

(* After the first message comes the next one, and nothing of a message that  *)
(* the first one is not part of has gone.                                     *)
LEMMA FirstMessageDropped ==
  ASSUME StreamIInv, Faultless, response # << >>, response[1].head,
         Len(response) >= response[1].length,
         Buffered' = Rest(Buffered, response[1].length)
  PROVE  /\ Buffered' # << >> => Buffered'[1].head
         /\ \A m \in Sent \ cut :
              LET rest == Rest(Buffered, response[1].length)
              IN IF HeadOf(response[1], m)
                 THEN /\ response[1].current = Collected(m)
                      /\ outcome[m] = "waiting"
                      /\ InOrder(rest, m, Collected(m) + 1, Written(m))
                 ELSE InOrder(rest, m, Collected(m), Written(m))
<1> DEFINE n == response[1].length
           rest == Rest(Buffered, n)
<1>1. /\ Buffered \in Seq(Unit) /\ Len(Buffered) \in Nat
      /\ \A m \in Sent : payload_length[m] \in Nat
      /\ Room \in Nat \ {0}
  BY StateFacts DEF StreamIInv
<1>2. /\ Buffered[1] = response[1] /\ n \in 1..Len(Buffered)
      /\ MessageAt(payload_length, Room, Buffered, 1)
      /\ \A k \in 2..n : ~Buffered[k].head
  BY FirstMessage
<1>3. /\ rest \in Seq(Unit) /\ Len(rest) = Len(Buffered) - n
      /\ \A j \in 1..Len(Buffered) - n : rest[j] = Buffered[n + j]
  <2>1. n \in 0..Len(Buffered)
    BY <1>2
  <2> HIDE DEF n
  <2> QED BY <1>1, <2>1, RestUnits
<1>4. rest # << >> => rest[1].head
  <2> SUFFICES ASSUME rest # << >> PROVE rest[1].head
    OBVIOUS
  <2>1. n \in Nat /\ 1 \in 1..Len(Buffered) - n /\ 1 + n <= Len(Buffered) /\ n + 1 = 1 + n
    <3> HIDE DEF n, rest
    <3>1. Len(rest) > 0
      BY <1>3
    <3> QED BY <3>1, <1>1, <1>2, <1>3
  <2>2. Buffered[1 + n].head
    BY <2>1, <1>2 DEF MessageAt
  <2> HIDE DEF n, rest
  <2>3. rest[1] = Buffered[n + 1]
    BY <2>1, <1>3
  <2> QED BY <2>1, <2>2, <2>3
<1>5. ASSUME NEW m \in Sent \ cut
      PROVE  IF HeadOf(response[1], m)
             THEN /\ response[1].current = Collected(m)
                  /\ outcome[m] = "waiting"
                  /\ InOrder(rest, m, Collected(m) + 1, Written(m))
             ELSE InOrder(rest, m, Collected(m), Written(m))
  <2>1. InTransit(m)
    BY <1>5 DEF StreamIInv, OrderInv
  <2>2. /\ Collected(m) \in Nat /\ Written(m) \in Nat /\ Written(m) <= Total(Room, payload_length[m])
        /\ outcome[m] = "whole" => Collected(m) = Total(Room, payload_length[m])
    BY NothingMisread, TransitBounds
  <2>3. InOrder(Buffered, m, Collected(m), Written(m))
    BY <2>1 DEF InTransit
  <2> HIDE DEF n, rest
  <2>4. IF HeadOf(Buffered[1], m)
        THEN Buffered[1].current = Collected(m) /\ InOrder(Rest(Buffered, n), m, Collected(m) + 1, Written(m))
        ELSE InOrder(Rest(Buffered, n), m, Collected(m), Written(m))
    BY <1>1, <1>2, <2>2, <2>3, InOrderRest
  <2>5. ASSUME HeadOf(response[1], m)
        PROVE  outcome[m] = "waiting"
    <3>1. Collected(m) + 1 <= Written(m)
      BY <2>4, <2>5, <1>2 DEF InOrder
    <3>2. Total(Room, payload_length[m]) \in Nat
      BY <1>1, TotalFacts
    <3>3. outcome[m] # "whole"
      BY <3>1, <3>2, <2>2
    <3>4. outcome[m] # "out_of_sequence"
      BY <2>1 DEF InTransit
    <3>5. outcome[m] \in {"waiting", "out_of_sequence", "whole"}
      BY DEF StreamIInv, StreamTypes
    <3> QED BY <3>3, <3>4, <3>5
  <2> QED BY <1>2, <2>4, <2>5 DEF rest
<1> QED BY <1>4, <1>5

(* An invalid message takes what was read with it: on a port only itself.     *)
LEMMA ParseDiscardsStep ==
  ASSUME StreamIInv, ParseDiscards
  PROVE  StreamIInv'
<1>1. /\ parsing /\ MayBeInvalid(response) /\ parsing' = FALSE /\ response' = << >>
      /\ UNCHANGED <<fixedVars, peerVars, readerVars, channel, open, read_errors>>
  BY DEF ParseDiscards
<1>2. Sent' = Sent /\ Room' = Room
  BY <1>1 DEF Sent, Room, fixedVars, peerVars, FragmentHeader
<1>3. /\ response # << >>
      /\ response[1].head => Len(response) >= response[1].length /\ ~ValidateInternal(response[1])
  BY <1>1 DEF MayBeInvalid, Whole
<1>4. StreamTypes'
  <2>1. << >> \in Seq(Unit)
    OBVIOUS
  <2> QED BY <2>1, <1>1, <1>2 DEF StreamIInv, StreamTypes, fixedVars, readerVars, peerVars
<1>5. PortInv'
  BY <1>1 DEF StreamIInv, PortInv, fixedVars
<1>6. SendingInv'
  BY <1>1, <1>2 DEF StreamIInv, SendingInv, Sender, peerVars
<1>7. FramingInv' /\ Buffered' = channel
  BY <1>1, FramingThrownAway DEF fixedVars, peerVars
<1>8. CollectorInv'
  BY <1>1, <1>2 DEF StreamIInv, CollectorInv, CollectedInv, Collection, Payload, readerVars, peerVars
<1>9. OrderInv'
  <2> SUFFICES ASSUME Faultless' PROVE OrderInv'
    BY DEF OrderInv
  <2>1. Faultless
    BY <1>1 DEF Faultless, fixedVars, peerVars
  <2>2. response[1].head
    <3>1. Buffered # << >> /\ Buffered[1] = response[1]
      <4>1. /\ Len(Buffered) = Len(response) + Len(channel) /\ Len(channel) \in Nat
            /\ Len(response) \in Nat /\ response \in Seq(Unit)
            /\ \A j \in 1..Len(response) : Buffered[j] = response[j]
            /\ Buffered \in Seq(Unit)
        BY StateFacts DEF StreamIInv
      <4>2. Len(response) > 0
        BY <4>1, <1>3
      <4> QED BY <4>1, <4>2
    <3> QED BY <2>1, <3>1 DEF StreamIInv, OrderInv
  <2>3. response[1].id = 0 /\ invalids # 0
    BY <1>3, <2>2, FirstMessage
  <2>4. packets
    BY <2>1, <2>3 DEF Faultless
  <2>5. Len(response) = response[1].length
    BY <2>4, <1>1 DEF StreamIInv, PortInv
  <2>6. Buffered' = Rest(Buffered, response[1].length)
    BY <2>5, <1>7, StateFacts DEF StreamIInv
  <2>7. Buffered' # << >> => Buffered'[1].head
    BY <2>1, <2>2, <2>6, <1>3, FirstMessageDropped
  <2>8. ASSUME NEW x \in Sent \ cut PROVE InTransit(x)'
    <3>1. x # 0
      BY StreamAssumption DEF StreamIInv, StreamTypes
    <3>2. ~HeadOf(response[1], x)
      BY <3>1, <2>3 DEF HeadOf
    <3>3. InOrder(Buffered', x, Collected(x), Written(x))
      BY <2>1, <2>2, <2>6, <1>3, <3>2, FirstMessageDropped
    <3>4. Written(x)' = Written(x) /\ Collected(x)' = Collected(x)
      BY <1>1, <1>2 DEF Written, Collected, Sender, readerVars, peerVars
    <3>5. outcome'[x] # "out_of_sequence"
      BY <2>1, <1>1 DEF StreamIInv, OrderInv, InTransit, readerVars
    <3> QED BY <3>3, <3>4, <3>5 DEF InTransit
  <2> QED BY <2>4, <2>7, <2>8, <1>1, <1>2 DEF OrderInv, fixedVars, peerVars
<1> QED BY <1>4, <1>5, <1>6, <1>7, <1>8, <1>9 DEF StreamIInv

(* What is processed leaves the buffer.                                       *)
LEMMA FrontRemoved ==
  ASSUME StreamIInv, NEW n \in 1..Len(response),
         response' = Rest(response, n), channel' = channel
  PROVE  /\ response' \in Seq(Unit) /\ Len(response') = Len(response) - n
         /\ n \in 0..Len(Buffered) /\ Buffered' = Rest(Buffered, n)
<1>1. /\ response \in Seq(Unit) /\ channel \in Seq(Unit)
      /\ Len(response) \in Nat /\ Len(channel) \in Nat
      /\ Len(Buffered) = Len(response) + Len(channel)
  BY StateFacts DEF StreamIInv
<1>2. n \in 0..Len(response) /\ n \in 0..Len(Buffered)
  BY <1>1
<1>3. response' \in Seq(Unit) /\ Len(response') = Len(response) - n
  BY <1>1, <1>2, RestUnits
<1>4. Buffered' = Rest(Buffered, n)
  BY <1>1, <1>2, RestJoined DEF Buffered
<1> QED BY <1>2, <1>3, <1>4

(* What was read begins with a message as long as nothing has gone wrong.     *)
LEMMA ReadBeginsWithHeader ==
  ASSUME StreamIInv, Faultless, response # << >>
  PROVE  response[1].head
<1>1. /\ Len(Buffered) = Len(response) + Len(channel) /\ Len(channel) \in Nat
      /\ Len(response) \in Nat /\ response \in Seq(Unit)
      /\ \A j \in 1..Len(response) : Buffered[j] = response[j]
      /\ Buffered \in Seq(Unit)
  BY StateFacts DEF StreamIInv
<1>2. Len(response) > 0
  BY <1>1
<1>3. Buffered # << >> /\ Buffered[1] = response[1]
  BY <1>1, <1>2
<1> QED BY <1>3 DEF StreamIInv, OrderInv

(* A valid message is collected and leaves the buffer, and what is taken for  *)
(* one touches the transaction of its id at most.                             *)
LEMMA ParseProcessesStep ==
  ASSUME StreamIInv, ParseProcesses
  PROVE  StreamIInv'
<1>1. /\ parsing /\ MayBeValid(response)
      /\ UNCHANGED <<fixedVars, peerVars, channel, read_errors>>
  BY DEF ParseProcesses
<1>2. PICK length \in IF response[1].head THEN {response[1].length} ELSE 1..Len(response) :
        /\ IF response[1].head
           THEN /\ ProcessMessage(response[1], SubSeq(response, FragmentHeader + 1, length))
                /\ UNCHANGED misread
           ELSE ProcessMisread(length)
        /\ \/ /\ response' = Rest(response, length)
              /\ parsing' = (response' # << >>)
              /\ UNCHANGED open
           \/ /\ open' = FALSE
              /\ response' = << >>
              /\ parsing' = FALSE
  BY DEF ParseProcesses, Rest
<1>3. Sent' = Sent /\ Room' = Room
  BY <1>1 DEF Sent, Room, fixedVars, peerVars, FragmentHeader
<1>4. /\ response # << >>
      /\ response[1].head => Len(response) >= response[1].length /\ ValidateInternal(response[1])
  BY <1>1 DEF MayBeValid, Whole
<1>5. length \in 1..Len(response)
  BY <1>2, <1>4, FirstMessage
<1>6. open
  BY <1>1 DEF StreamIInv, StreamTypes
<1>7. /\ CollectorInv'
      /\ outcome' \in [Message -> {"waiting", "out_of_sequence", "whole"}]
      /\ misread' \subseteq Message
      /\ misread' # {} => ~packets /\ ~(invalids = 0 /\ read_errors = 0)
  <2>1. CASE response[1].head
    <3>1. PICK header : header = response[1]
      OBVIOUS
    <3>2. ProcessMessage(header, SubSeq(response, FragmentHeader + 1, header.length))
      BY <2>1, <3>1, <1>2
    <3>3. misread' = misread
      BY <2>1, <1>2
    <3>4. misread' \subseteq Message /\ (misread' # {} => ~packets /\ ~(invalids = 0 /\ read_errors = 0))
      BY <3>3 DEF StreamIInv, StreamTypes
    <3> QED BY <2>1, <3>1, <3>2, <3>3, <3>4, <1>1, <1>4, ProcessMessageKeeps DEF fixedVars, peerVars
  <2>2. CASE ~response[1].head
    <3>1. ~packets /\ ~(invalids = 0 /\ read_errors = 0)
      BY <2>2, <1>4, <1>6, ReadBeginsWithHeader DEF Faultless
    <3>2. CASE UNCHANGED readerVars
      BY <3>1, <3>2, <1>1, <1>3
         DEF StreamIInv, StreamTypes, CollectorInv, CollectedInv, Collection, Payload, readerVars, peerVars
    <3>3. CASE \E header \in MisreadHeaders(length) :
                 /\ ProcessMessage(header, << >>)
                 /\ misread' = misread \cup {header.id}
      <4>1. PICK header \in MisreadHeaders(length) :
              /\ ProcessMessage(header, << >>)
              /\ misread' = misread \cup {header.id}
        BY <3>3
      <4>2. header.id \in Message
        <5>1. PICK total \in Totals :
                header \in [head : {TRUE}, id : Message, type : Types \ {"bare"}, length : {length},
                            total : {total}, current : 0..(total - 1), needs : {0}]
          BY DEF MisreadHeaders
        <5> QED BY <5>1
      <4>3. /\ outcome' \in [Message -> {"waiting", "out_of_sequence", "whole"}]
            /\ collector' = [x \in Message |-> collector'[x]]
            /\ \A x \in Message \ {header.id} :
                 outcome'[x] = outcome[x] /\ collector'[x] = collector[x]
        BY <4>1, <4>2, ProcessMessageTouches
      <4>4. ASSUME NEW x \in Message PROVE CollectedInv(x)'
        <5>1. CASE x = header.id
          BY <5>1, <4>1 DEF CollectedInv
        <5>2. CASE x # header.id
          BY <5>2, <4>1, <4>3, <1>1, <1>3
             DEF StreamIInv, CollectorInv, CollectedInv, Collection, Payload, peerVars
        <5> QED BY <5>1, <5>2
      <4>5. CollectorInv'
        BY <4>3, <4>4 DEF CollectorInv
      <4> QED BY <3>1, <4>1, <4>2, <4>3, <4>5 DEF StreamIInv, StreamTypes
    <3> QED BY <2>2, <3>2, <3>3, <1>2 DEF ProcessMisread
  <2> QED BY <2>1, <2>2
<1>8. SendingInv'
  BY <1>1, <1>3 DEF StreamIInv, SendingInv, Sender, peerVars
<1>9. CASE open' = FALSE /\ response' = << >> /\ parsing' = FALSE
  <2>1. StreamTypes'
    <3>1. << >> \in Seq(Unit)
      OBVIOUS
    <3> QED BY <3>1, <1>1, <1>3, <1>7, <1>9 DEF StreamIInv, StreamTypes, fixedVars, peerVars
  <2>2. PortInv'
    BY <1>1, <1>9 DEF StreamIInv, PortInv, fixedVars
  <2>3. FramingInv'
    BY <1>1, <1>9, FramingThrownAway DEF fixedVars, peerVars
  <2>4. OrderInv'
    BY <1>9 DEF OrderInv, Faultless
  <2> QED BY <2>1, <2>2, <2>3, <2>4, <1>7, <1>8 DEF StreamIInv
<1>10. CASE response' = Rest(response, length) /\ parsing' = (response' # << >>) /\ UNCHANGED open
  <2>1. /\ response' \in Seq(Unit) /\ Len(response') = Len(response) - length
        /\ length \in 0..Len(Buffered) /\ Buffered' = Rest(Buffered, length)
    BY <1>1, <1>5, <1>10, FrontRemoved
  <2>2. StreamTypes'
    BY <2>1, <1>1, <1>3, <1>6, <1>7, <1>10 DEF StreamIInv, StreamTypes, fixedVars, peerVars
  <2>3. packets => response' = << >>
    <3> SUFFICES ASSUME packets PROVE response' = << >>
      OBVIOUS
    <3>1. length = Len(response)
      BY <1>1, <1>2 DEF StreamIInv, PortInv
    <3>2. Len(response') = 0
      BY <2>1, <3>1, StateFacts DEF StreamIInv
    <3> QED BY <2>1, <3>2
  <2>4. PortInv'
    BY <2>3, <1>1, <1>10 DEF StreamIInv, PortInv, fixedVars
  <2>5. FramingInv'
    BY <2>1, <1>1, FramingDropped DEF fixedVars, peerVars
  <2>6. OrderInv'
    <3> SUFFICES ASSUME Faultless' PROVE OrderInv'
      BY DEF OrderInv
    <3>1. Faultless
      BY <1>1, <1>6 DEF Faultless, fixedVars, peerVars
    <3>2. response[1].head
      BY <3>1, <1>4, ReadBeginsWithHeader
    <3>3. PICK header : header = response[1]
      OBVIOUS
    <3>4. /\ ProcessMessage(header, SubSeq(response, FragmentHeader + 1, header.length))
          /\ length = header.length /\ UNCHANGED misread /\ misread = {}
      BY <3>1, <3>2, <3>3, <1>2, NothingMisread
    <3>5. /\ \A x \in Message \ {header.id} :
               outcome'[x] = outcome[x] /\ collector'[x] = collector[x]
          /\ outcome[header.id] = "waiting" /\ header.current = Collected(header.id) =>
               /\ outcome'[header.id] # "out_of_sequence"
               /\ Collected(header.id)' = Collected(header.id) + 1
      BY <3>2, <3>3, <3>4, <1>1, <1>4, ProcessMessageKeeps DEF fixedVars, peerVars
    <3>6. Buffered' = Rest(Buffered, response[1].length)
      BY <2>1, <3>3, <3>4
    <3>7. Buffered' # << >> => Buffered'[1].head
      BY <3>1, <3>2, <3>6, <1>4, FirstMessageDropped
    <3>8. ASSUME NEW x \in Sent \ cut
          PROVE  InTransit(x)'
      <4>1. x \in Message
        BY DEF StreamIInv, StreamTypes
      <4>2. IF HeadOf(header, x)
            THEN /\ header.current = Collected(x) /\ outcome[x] = "waiting"
                 /\ InOrder(Buffered', x, Collected(x) + 1, Written(x))
            ELSE InOrder(Buffered', x, Collected(x), Written(x))
        BY <3>1, <3>2, <3>3, <3>6, <1>4, FirstMessageDropped
      <4>3. Written(x)' = Written(x)
        BY <1>1, <1>3 DEF Written, Sender, peerVars
      <4>4. CASE x = header.id
        <5>1. HeadOf(header, x)
          BY <4>4, <3>2, <3>3 DEF HeadOf
        <5>2. header.current = Collected(x) /\ outcome[x] = "waiting"
              /\ InOrder(Buffered', x, Collected(x) + 1, Written(x))
          BY <4>2, <5>1
        <5>3. outcome'[x] # "out_of_sequence" /\ Collected(x)' = Collected(x) + 1
          BY <3>5, <4>4, <5>2
        <5> QED BY <4>3, <5>2, <5>3 DEF InTransit
      <4>5. CASE x # header.id
        <5>1. InOrder(Buffered', x, Collected(x), Written(x))
          BY <4>2, <4>5 DEF HeadOf
        <5>2. outcome'[x] = outcome[x] /\ collector'[x] = collector[x]
          BY <3>5, <4>1, <4>5
        <5>3. Collected(x)' = Collected(x)
          BY <5>2 DEF Collected
        <5>4. outcome[x] # "out_of_sequence"
          BY <3>1, <3>8 DEF StreamIInv, OrderInv, InTransit
        <5> QED BY <4>3, <5>1, <5>2, <5>3, <5>4 DEF InTransit
      <4> QED BY <4>4, <4>5
    <3>9. ~packets' /\ ~parsing' => response' = << >>
      BY <1>10
    <3> QED BY <3>7, <3>8, <3>9, <1>1, <1>3 DEF OrderInv, peerVars
  <2> QED BY <2>2, <2>4, <2>5, <2>6, <1>7, <1>8 DEF StreamIInv
<1> QED BY <1>2, <1>9, <1>10

(* The inductive invariant holds throughout.                                  *)
THEOREM StreamIInvHolds == StreamSpec => []StreamIInv
<1>1. StreamInit => StreamIInv
  BY InitStream
<1>2. StreamIInv /\ [StreamNext]_streamVars => StreamIInv'
  <2> SUFFICES ASSUME StreamIInv, [StreamNext]_streamVars
               PROVE  StreamIInv'
    OBVIOUS
  <2>1. CASE StreamNext
    BY <2>1, DeviceSendStep, DeviceWriteStep, WriteFailsStep, SendSingleStep, PeerSendsInvalidStep,
       DataAvailableStep, DataErrorStep, HangupStep,
       ParseWaitsStep, ParseDiscardsStep, ParseProcessesStep DEF StreamNext
  <2>2. CASE UNCHANGED streamVars
    <3>1. /\ UNCHANGED <<fixedVars, peerVars, readerVars, channel, response, parsing, open, read_errors>>
          /\ Sent' = Sent /\ Room' = Room /\ Buffered' = Buffered /\ Faultless' = Faultless
      BY <2>2 DEF streamVars, fixedVars, peerVars, Sent, Room, FragmentHeader, Buffered, Faultless
    <3>2. StreamTypes' /\ PortInv' /\ SendingInv' /\ FramingInv'
      BY <3>1 DEF StreamIInv, StreamTypes, PortInv, SendingInv, Sender, FramingInv,
                  fixedVars, peerVars, readerVars
    <3>3. CollectorInv'
      BY <3>1 DEF StreamIInv, CollectorInv, CollectedInv, Collection, Payload, readerVars, peerVars
    <3>4. \A x : Written(x)' = Written(x) /\ Collected(x)' = Collected(x)
      BY <3>1 DEF Written, Collected, Sender, readerVars, peerVars
    <3>5. \A x : InTransit(x) => InTransit(x)'
      BY <3>1, <3>4 DEF InTransit, readerVars
    <3>6. OrderInv'
      BY <3>1, <3>5 DEF StreamIInv, OrderInv, fixedVars, peerVars
    <3> QED BY <3>2, <3>3, <3>6 DEF StreamIInv
  <2> QED BY <2>1, <2>2
<1> QED BY <1>1, <1>2, PTL DEF StreamSpec

(* The variables have their types: the loop of parse_response() has a buffer  *)
(* to look at and a channel that is open, every write of device_send() is one *)
(* message that a read can take, and a port is at the beginning of a message  *)
(* whenever it is read.                                                       *)
THEOREM StreamTypeOKHolds == StreamSpec => []StreamTypeOK
<1>1. StreamIInv => StreamTypeOK
  <2> SUFFICES ASSUME StreamIInv PROVE StreamTypeOK
    OBVIOUS
  <2>1. ASSUME NEW i \in DOMAIN sending
        PROVE  OneMessage(sending[i])
    <3>1. sending \in Seq(Seq(Unit))
      BY DEF StreamIInv, StreamTypes
    <3>2. i \in 1..Len(sending) /\ sending[i] \in Seq(Unit)
      BY <3>1
    <3>3. FramedWrite(payload_length, Room, sending[i])
      BY <3>2 DEF StreamIInv, SendingInv
    <3>4. max_fragment_size = Room + FragmentHeader
          /\ max_fragment_size \in Nat /\ max_control_transfer \in Nat
      BY StateFacts, StreamAssumption DEF StreamIInv, StreamTypes
    <3>5. Len(sending[i]) \in Nat /\ Len(sending[i]) <= max_fragment_size
      BY <3>2, <3>3, <3>4 DEF FramedWrite, MessageAt
    <3>6. packets => Len(sending[i]) <= max_control_transfer
      BY <3>4, <3>5 DEF StreamIInv, StreamTypes
    <3> QED BY <3>3, <3>5, <3>6 DEF OneMessage, FramedWrite
  <2>2. ASSUME packets, channel # << >>
        PROVE  channel[1].head /\ OneMessage(SubSeq(channel, 1, channel[1].length))
    <3>1. /\ channel \in Seq(Unit) /\ Buffered \in Seq(Unit)
          /\ Len(response) \in 0..Len(Buffered) /\ Len(channel) \in Nat
          /\ Rest(Buffered, Len(response)) = channel /\ Room \in Nat \ {0}
          /\ max_fragment_size = Room + FragmentHeader
      BY StateFacts DEF StreamIInv
    <3>2. channel[1].head
      BY <2>2 DEF StreamIInv, PortInv
    <3>3. Framed(payload_length, Room, channel)
      <4>1. Framed(payload_length, Room, Rest(Buffered, Len(response)))
        BY <3>1, FramedRest DEF StreamIInv, FramingInv
      <4> QED BY <3>1, <4>1
    <3>4. 1 \in 1..Len(channel) /\ channel[1] \in Unit
      <4>1. Len(channel) > 0
        BY <3>1, <2>2
      <4> QED BY <4>1, <3>1
    <3>5. MessageAt(payload_length, Room, channel, 1)
      BY <3>2, <3>3, <3>4 DEF Framed
    <3> DEFINE n == channel[1].length
               write == SubSeq(channel, 1, n)
    <3>6. n \in Nat /\ n > 0 /\ 1 + n - 1 <= Len(channel) /\ n <= max_fragment_size
      BY <3>1, <3>2, <3>4, <3>5, HeaderFields DEF MessageAt
    <3> HIDE DEF n
    <3>7. n \in 1..Len(channel)
      BY <3>1, <3>6
    <3>8. write \in Seq(Unit) /\ Len(write) = n /\ write[1] = channel[1]
      BY <3>1, <3>7, CutAndJoined
    <3>9. write # << >>
      BY <3>6, <3>8
    <3>10. packets => n <= max_control_transfer
      BY <3>6, StreamAssumption DEF StreamIInv, StreamTypes
    <3>11. n = channel[1].length
      BY DEF n
    <3> QED BY <3>2, <3>6, <3>8, <3>9, <3>10, <3>11 DEF OneMessage
  <2> QED BY <2>1, <2>2, StateFacts DEF StreamIInv, StreamTypes, StreamTypeOK
<1> QED BY <1>1, StreamIInvHolds, PTL

(* A complete collection is the whole payload.                                *)
LEMMA WholeHasArrived ==
  ASSUME StreamIInv, NEW m \in Message \ misread, outcome[m] = "whole"
  PROVE  Arrived(m)
<1>1. m \in Sent
      /\ \E last \in 0..Total(Room, payload_length[m]) - 1 :
           /\ collector[m] = Collection(m, last)
           /\ last = Total(Room, payload_length[m]) - 1
  BY DEF StreamIInv, CollectorInv, CollectedInv
<1>2. /\ Room \in Nat \ {0} /\ payload_length[m] \in Nat
      /\ Total(Room, payload_length[m]) \in Nat \ {0}
  BY <1>1, StateFacts, TotalFacts DEF StreamIInv
<1>3. collector[m].payload
        = Payload(m, Start(Room, payload_length[m], Total(Room, payload_length[m])))
  <2>1. PICK last \in 0..Total(Room, payload_length[m]) - 1 :
          /\ collector[m] = Collection(m, last)
          /\ last = Total(Room, payload_length[m]) - 1
    BY <1>1
  <2>2. last + 1 = Total(Room, payload_length[m])
    BY <2>1, <1>2
  <2> QED BY <2>1, <2>2 DEF Collection
<1>4. collector[m].payload = Payload(m, payload_length[m])
  BY <1>2, <1>3, StartFacts
<1> QED BY <1>1, <1>4 DEF Arrived

(* A message that the collector declares complete is the message that was     *)
(* sent, whatever was lost or thrown away between its fragments, unless bytes *)
(* from the middle of a message were taken for one of its transaction id; and *)
(* that never happens on a port, nor in a stream before parse_response() or a *)
(* read error has thrown away what was read.                                  *)
THEOREM WholeOrNothingHolds == StreamSpec => []WholeOrNothing
<1>1. StreamIInv => WholeOrNothing
  <2> SUFFICES ASSUME StreamIInv PROVE WholeOrNothing
    OBVIOUS
  <2>1. \A m \in Message \ misread : outcome[m] = "whole" => Arrived(m)
    BY WholeHasArrived
  <2>2. misread # {} => ~packets /\ invalids + read_errors > 0
    BY StreamAssumption DEF StreamIInv, StreamTypes
  <2> QED BY <2>1, <2>2 DEF WholeOrNothing
<1> QED BY <1>1, StreamIInvHolds, PTL

(* When everything has been read, every message none of whose writes failed   *)
(* has arrived and nothing is left over: on a port whatever went wrong, in a  *)
(* stream unless something did, however the reads cut it.                     *)
THEOREM NothingLostHolds == StreamSpec => []NothingLost
<1>1. StreamIInv => NothingLost
  <2> SUFFICES ASSUME StreamIInv, Quiet, packets \/ (invalids = 0 /\ read_errors = 0)
               PROVE  response = << >> /\ \A m \in Sent \ cut : Arrived(m)
    BY DEF NothingLost
  <2>1. open /\ ~parsing /\ channel = << >> /\ sending = << >> /\ Faultless
    BY DEF Quiet, Faultless
  <2>2. /\ response \in Seq(Unit) /\ Len(response) \in Nat /\ Len(channel) = 0
        /\ Len(Buffered) = Len(response) /\ Buffered \in Seq(Unit)
        /\ \A j \in 1..Len(response) : Buffered[j] = response[j]
    BY <2>1, StateFacts DEF StreamIInv
  <2>3. response = << >>
    <3> SUFFICES ASSUME response # << >> PROVE FALSE
      OBVIOUS
    <3>1. ~packets
      BY <2>1 DEF StreamIInv, PortInv
    <3>2. Len(response) < response[1].length
      BY <2>1, <3>1 DEF StreamIInv, OrderInv
    <3>3. Len(response) > 0 /\ 1 \in 1..Len(Buffered) /\ Buffered[1] = response[1] /\ Buffered # << >>
      BY <2>2
    <3>4. Buffered[1].head
      BY <2>1, <3>3 DEF StreamIInv, OrderInv
    <3>5. MessageAt(payload_length, Room, Buffered, 1)
      BY <3>3, <3>4 DEF StreamIInv, FramingInv, Framed
    <3>6. Buffered[1] \in Unit
      BY <2>2, <3>3
    <3>7. Buffered[1].length \in Nat /\ 1 + Buffered[1].length - 1 <= Len(Buffered)
      BY <3>4, <3>5, <3>6, HeaderFields DEF MessageAt
    <3> QED BY <2>2, <3>2, <3>3, <3>7
  <2>4. ASSUME NEW m \in Sent \ cut
        PROVE  Arrived(m)
    <3> DEFINE total == Total(Room, payload_length[m])
    <3> misread = {}
      BY <2>1, NothingMisread
    <3>1. total \in Nat \ {0} /\ Collected(m) \in Nat /\ Collected(m) <= total
      BY TransitBounds
    <3>2. Written(m) = total
      BY <2>1, <3>1 DEF Written
    <3>3. Len(Buffered) = 0
      BY <2>2, <2>3
    <3>4. InOrder(Buffered, m, Collected(m), Written(m))
      BY <2>1 DEF StreamIInv, OrderInv, InTransit
    <3> HIDE DEF total
    <3>5. Collected(m) = total
      <4>1. \A i \in Collected(m)..total - 1 : FALSE
        BY <3>2, <3>3, <3>4 DEF InOrder
      <4> QED BY <4>1, <3>1
    <3>6. m \in Message /\ outcome[m] # "out_of_sequence"
      BY <2>1 DEF StreamIInv, StreamTypes, OrderInv, InTransit
    <3>7. outcome[m] = "whole"
      <4>1. collector[m] # NoFragments
        BY <3>1, <3>5 DEF Collected
      <4>2. PICK last \in 0..total - 1 :
              /\ collector[m] = Collection(m, last)
              /\ outcome[m] = IF last = total - 1 THEN "whole" ELSE "waiting"
        BY <4>1, <3>6 DEF StreamIInv, CollectorInv, CollectedInv, total
      <4>3. collector[m].current = last
        BY <4>2 DEF Collection
      <4>4. Collected(m) = last + 1
        BY <4>1, <4>3 DEF Collected
      <4> QED BY <4>2, <4>4, <3>1, <3>5
    <3> QED BY <3>6, <3>7, WholeHasArrived
  <2> QED BY <2>3, <2>4
<1> QED BY <1>1, StreamIInvHolds, PTL

=============================================================================
