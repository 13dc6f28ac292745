----------------------- MODULE MbimCliArgumentsProofs -----------------------
(***************************************************************************)
(* An argument that mbimcli accepts is used as it was given, for arguments *)
(* of every length.                                                        *)
(*                                                                         *)
(* ArgumentsIInv is the inductive invariant: what UsedAsGiven says of an   *)
(* accepted argument, said of the part that was read.  It names the last   *)
(* place of a key instead of choosing it, and counts the parts that wait   *)
(* for their item to be complete.                                          *)
(***************************************************************************)
EXTENDS MbimCliArguments, FiniteSetTheorems, SequenceTheorems, TLAPS

(***************************************************************************)
(* The inductive invariant.                                                *)

\* No later pair has the key of the pair at i
Last(i) == \A j \in 1..Len(argument) : Kept(argument[j][1]) = Kept(argument[i][1]) => j <= i

PairsSoFar ==
  /\ argument \in Seq((DOMAIN Handlers[option]) \X Values)
  /\ \A i \in 1..Len(argument) :
       /\ Kept(argument[i][1]) \in DOMAIN props
       /\ argument[i][2] \in Handlers[option][argument[i][1]]
       /\ Last(i) => props[Kept(argument[i][1])] = argument[i][2]
       /\ option = "link_add" => Last(i) \/ argument[i] = <<"session_id", "max">>
  /\ \A k \in DOMAIN props : \E i \in 1..Len(argument) : Kept(argument[i][1]) = k /\ Last(i)

PairsInv ==
  option \in KeyValueOptions =>
    /\ outcome # "rejected" => PairsSoFar
    /\ outcome = "accepted" => PairsComplete

Size == Cardinality(Parts[option])

Item == UNION {[keys -> PartValues] : keys \in SUBSET ItemKeys(option)}

\* The parts are those given from the first place to the last
Holds(parts, first, last) == Given(first, last) = {<<k, parts[k]>> : k \in DOMAIN parts}

Gathered ==
  \A i \in 1..Len(items) : Holds(items[i], Size * (i - 1) + 1, Size * i)

Count == Cardinality(PartPlaces)

SessionSoFar ==
  LET sessions == DOMAIN argument \ PartPlaces
  IN  \/ sessions = {} /\ session = "0"
      \/ \E j \in sessions : (\A k \in sessions : k <= j) /\ session = argument[j][2]

ItemsSoFar ==
  /\ argument \in Seq((ItemKeys(option) \cup {"session_id"}) \X PartValues)
  /\ items \in Seq(Item) /\ props \in Item
  /\ Count = Size * Len(items) + Cardinality(DOMAIN props)
  /\ Holds(props, Size * Len(items) + 1, Count)
  /\ Gathered
  /\ SessionSoFar

ItemsInv ==
  option \in ItemOptions =>
    /\ outcome = "reading" => ItemsSoFar
    /\ outcome = "accepted" => ItemsAsGiven

PinsInv ==
  option \in PinOptions =>
    /\ outcome = "reading" => argument = << >>
    /\ outcome = "accepted" => PinsAsGiven

ArgumentsIInv ==
  /\ option \in Options /\ outcome \in Outcomes
  /\ PairsInv /\ ItemsInv /\ PinsInv

(***************************************************************************)
(* Pairs.                                                                  *)

\* A value added to a function under a key
LEMMA ValueAdded ==
  ASSUME NEW f, NEW k, NEW v
  PROVE  /\ DOMAIN WithValue(f, k, v) = DOMAIN f \cup {k}
         /\ WithValue(f, k, v)[k] = v
         /\ \A x \in DOMAIN f \ {k} : WithValue(f, k, v)[x] = f[x]
  BY DEF WithValue

\* The keys of a link are kept under their own names
LEMMA LinkKeys ==
  ASSUME NEW k \in DOMAIN Handlers["link_add"]
  PROVE  Kept(k) = k
<1>1. Handlers["link_add"] = add_link_properties_handle
  BY DEF Handlers
<1>2. DOMAIN Handlers["link_add"] = {"session_id", "iface", "prefix"}
  BY <1>1 DEF add_link_properties_handle
<1> QED BY <1>2 DEF Kept

\* The four kinds of options are different
LEMMA OptionKinds ==
  /\ KeyValueOptions = {"connect_activate", "register_state", "provisioned_contexts", "signal_state",
                        "registration_parameters", "lte_attach", "read_record", "read_binary",
                        "file_status", "open_channel", "close_channel", "apdu", "link_add",
                        "ms_provisioned_contexts"}
  /\ ItemOptions = {"packet_filters", "packet_filters_v3", "terminal_capability"}
  /\ FieldOptions = {"connect_positional", "phonebook_write", "dss", "slot_mappings"}
  /\ PinOptions = {"pin_enter", "pin_change", "pin_enable", "pin_disable", "pin_enter_puk"}
<1>1. KeyValueOptions = {"connect_activate", "register_state", "provisioned_contexts", "signal_state",
                        "registration_parameters", "lte_attach", "read_record", "read_binary",
                        "file_status", "open_channel", "close_channel", "apdu", "link_add",
                        "ms_provisioned_contexts"}
  BY DEF KeyValueOptions, Handlers
<1>2. ItemOptions = {"packet_filters", "packet_filters_v3", "terminal_capability"}
  BY DEF ItemOptions, Parts
<1>3. FieldOptions = {"connect_positional", "phonebook_write", "dss", "slot_mappings"}
  BY DEF FieldOptions, FieldReads
<1>4. PinOptions = {"pin_enter", "pin_change", "pin_enable", "pin_disable", "pin_enter_puk"}
  BY DEF PinOptions, PinCommands
<1> QED BY <1>1, <1>2, <1>3, <1>4

\* One more pair or part was read
LEMMA OneMore ==
  ASSUME NEW S, NEW s \in Seq(S), NEW e \in S
  PROVE  /\ s \o <<e>> \in Seq(S) /\ Len(s \o <<e>>) = Len(s) + 1 /\ Len(s) \in Nat
         /\ \A i \in 1..Len(s) : (s \o <<e>>)[i] = s[i]
         /\ (s \o <<e>>)[Len(s) + 1] = e
  OBVIOUS

\* The callback of a pair keeps the last value of each key
LEMMA HandlePairStep ==
  ASSUME ArgumentsIInv, HandlePair
  PROVE  ArgumentsIInv'
<1>1. option \in KeyValueOptions /\ outcome = "reading" /\ UNCHANGED option
  BY DEF HandlePair, Reads
<1>2. ItemsInv' /\ PinsInv' /\ option' \in Options
  BY <1>1, OptionKinds DEF ArgumentsIInv, ItemsInv, PinsInv
<1>3. PICK key \in DOMAIN Handlers[option] \cup {Unknown}, value \in Values :
        /\ argument' = argument \o <<<<key, value>>>>
        /\ \/ ~Understood(key, value) /\ Reject
           \/ /\ Understood(key, value)
              /\ props' = WithValue(props, Kept(key), value)
              /\ UNCHANGED <<items, outcome>>
  BY DEF HandlePair, Reads
<1>4. CASE Reject
  <2>1. outcome' = "rejected"
    BY <1>4 DEF Reject
  <2> QED BY <2>1, <1>2 DEF ArgumentsIInv, PairsInv, Outcomes
<1>5. CASE /\ Understood(key, value)
           /\ props' = WithValue(props, Kept(key), value)
           /\ UNCHANGED <<items, outcome>>
  <2> DEFINE new == Kept(key)
  <2>0. PICK n : n = Len(argument)
    OBVIOUS
  <2>1. PairsSoFar
    BY <1>1 DEF ArgumentsIInv, PairsInv
  <2>2. key \in DOMAIN Handlers[option] /\ value \in Handlers[option][key] /\ ~Repeated(key)
    BY <1>5 DEF Understood
  <2>3. /\ argument' \in Seq((DOMAIN Handlers[option]) \X Values)
        /\ Len(argument') = n + 1 /\ n \in Nat
        /\ \A i \in 1..n : argument'[i] = argument[i]
        /\ argument'[n + 1] = <<key, value>>
    <3> DEFINE S == (DOMAIN Handlers[option]) \X Values
    <3>1. argument \in Seq(S) /\ <<key, value>> \in S
      BY <2>1, <2>2 DEF PairsSoFar
    <3> HIDE DEF S
    <3>2. /\ argument \o <<<<key, value>>>> \in Seq(S)
          /\ Len(argument \o <<<<key, value>>>>) = n + 1 /\ n \in Nat
          /\ \A i \in 1..n : (argument \o <<<<key, value>>>>)[i] = argument[i]
          /\ (argument \o <<<<key, value>>>>)[n + 1] = <<key, value>>
      BY <3>1, <2>0, OneMore
    <3> QED BY <3>2, <1>3 DEF S
  <2>4. /\ DOMAIN props' = DOMAIN props \cup {new} /\ props'[new] = value
        /\ \A x \in DOMAIN props \ {new} : props'[x] = props[x]
    <3> HIDE DEF new
    <3>1. props' = [k \in DOMAIN props \cup {new} |-> IF k = new THEN value ELSE props[k]]
      <4>1. props' = WithValue(props, new, value)
        BY <1>5 DEF new
      <4> QED BY <4>1 DEF WithValue
    <3> QED BY <3>1
  <2> HIDE DEF new
  <2>5. \A i \in 1..n + 1 : i \in 1..n \/ i = n + 1
    BY <2>3
  <2>6. \A i \in 1..n : i \in 1..n + 1 /\ i # n + 1 /\ i <= n + 1
    BY <2>3
  <2>7. Last(n + 1)' /\ n + 1 \in 1..n + 1
    BY <2>3 DEF Last
  <2>8. ASSUME NEW i \in 1..n
        PROVE  Last(i)' <=> Last(i) /\ Kept(argument[i][1]) # new
    <3>1. argument'[i] = argument[i] /\ argument'[n + 1][1] = key
      BY <2>3
    <3>2. Last(i)' <=> \A j \in 1..n + 1 : Kept(argument'[j][1]) = Kept(argument[i][1]) => j <= i
      BY <2>3, <3>1 DEF Last
    <3>3. Last(i) <=> \A j \in 1..n : Kept(argument'[j][1]) = Kept(argument[i][1]) => j <= i
      BY <2>0, <2>3 DEF Last
    <3>4. ~(n + 1 <= i)
      BY <2>3
    <3> QED BY <2>5, <2>6, <2>7, <3>1, <3>2, <3>3, <3>4 DEF new
  <2>9. ASSUME NEW i \in 1..n + 1
        PROVE  /\ Kept(argument'[i][1]) \in DOMAIN props'
               /\ argument'[i][2] \in Handlers[option][argument'[i][1]]
               /\ Last(i)' => props'[Kept(argument'[i][1])] = argument'[i][2]
               /\ option = "link_add" => Last(i)' \/ argument'[i] = <<"session_id", "max">>
    <3>1. CASE i = n + 1
      BY <3>1, <2>2, <2>3, <2>4, <2>7 DEF new
    <3>2. CASE i \in 1..n
      <4>1. /\ argument'[i] = argument[i]
            /\ Kept(argument[i][1]) \in DOMAIN props
            /\ argument[i][2] \in Handlers[option][argument[i][1]]
            /\ Last(i) => props[Kept(argument[i][1])] = argument[i][2]
            /\ option = "link_add" => Last(i) \/ argument[i] = <<"session_id", "max">>
        BY <3>2, <2>0, <2>1, <2>3 DEF PairsSoFar
      <4>2. ASSUME option = "link_add", ~Last(i)', argument[i] # <<"session_id", "max">>
            PROVE  FALSE
        <5>1. Last(i) /\ Kept(argument[i][1]) = new
          BY <3>2, <4>1, <4>2, <2>8
        <5>2. argument[i] \in (DOMAIN Handlers["link_add"]) \X Values
          BY <3>2, <4>2, <2>0, <2>1 DEF PairsSoFar
        <5>3. argument[i] = <<argument[i][1], argument[i][2]>> /\ argument[i][1] \in DOMAIN Handlers["link_add"]
          BY <5>2
        <5>4. argument[i][1] = key /\ key \in DOMAIN props
          BY <5>1, <5>3, <4>1, <4>2, <2>2, LinkKeys DEF new
        <5>5. key = "session_id" /\ props[key] = "max"
          BY <5>4, <4>2, <2>2 DEF Repeated
        <5>6. argument[i][2] = "max"
          BY <5>1, <5>4, <5>5, <4>1, <4>2, <2>2, LinkKeys
        <5> QED BY <5>3, <5>4, <5>5, <5>6, <4>2
      <4> QED BY <3>2, <4>1, <4>2, <2>4, <2>8
    <3> QED BY <3>1, <3>2, <2>5
  <2>10. ASSUME NEW k \in DOMAIN props'
         PROVE  \E i \in 1..n + 1 : Kept(argument'[i][1]) = k /\ Last(i)'
    <3>1. CASE k = new
      <4>1. Kept(argument'[n + 1][1]) = k
        BY <3>1, <2>3 DEF new
      <4> QED BY <4>1, <2>7
    <3>2. CASE k # new
      <4>1. PICK i \in 1..n : Kept(argument[i][1]) = k /\ Last(i)
        BY <3>2, <2>0, <2>1, <2>4 DEF PairsSoFar
      <4>2. Kept(argument'[i][1]) = k /\ Last(i)' /\ i \in 1..n + 1
        BY <4>1, <3>2, <2>3, <2>6, <2>8
      <4> QED BY <4>2
    <3> QED BY <3>1, <3>2
  <2>11. PairsSoFar'
    BY <2>3, <2>9, <2>10, <1>1 DEF PairsSoFar
  <2> QED BY <2>11, <1>1, <1>2, <1>5 DEF ArgumentsIInv, PairsInv, Outcomes
<1> QED BY <1>3, <1>4, <1>5

\* The last pair was read
LEMMA FinishPairsStep ==
  ASSUME ArgumentsIInv, FinishPairs
  PROVE  ArgumentsIInv'
<1>1. option \in KeyValueOptions /\ outcome = "reading" /\ UNCHANGED option
      /\ argument' = argument \o << >>
  BY DEF FinishPairs, Reads
<1>2. ItemsInv' /\ PinsInv' /\ option' \in Options
  BY <1>1, OptionKinds DEF ArgumentsIInv, ItemsInv, PinsInv
<1>3. PairsSoFar
  BY <1>1 DEF ArgumentsIInv, PairsInv
<1>4. argument' = argument
  <2>1. argument \in Seq((DOMAIN Handlers[option]) \X Values)
    BY <1>3 DEF PairsSoFar
  <2> QED BY <2>1, <1>1
<1>5. CASE PairsComplete
  <2>1. outcome' = "accepted" /\ props' = props
    BY <1>5 DEF FinishPairs, Accept
  <2>2. \A i : Last(i)' <=> Last(i)
    BY <1>4 DEF Last
  <2>3. PairsSoFar'
    BY <2>1, <2>2, <1>1, <1>3, <1>4 DEF PairsSoFar
  <2>4. PairsComplete'
    BY <2>1, <1>1, <1>5 DEF PairsComplete
  <2> QED BY <2>1, <2>3, <2>4, <1>2 DEF ArgumentsIInv, PairsInv, Outcomes
<1>6. CASE ~PairsComplete
  <2>1. outcome' = "rejected"
    BY <1>6 DEF FinishPairs, Reject
  <2> QED BY <2>1, <1>2 DEF ArgumentsIInv, PairsInv, Outcomes
<1> QED BY <1>5, <1>6

(***************************************************************************)
(* Items.                                                                  *)

\* An item has one, two or three parts
LEMMA Sizes ==
  ASSUME option \in ItemOptions
  PROVE  /\ Size \in 1..3 /\ IsFiniteSet(Parts[option])
         /\ Parts[option] \subseteq ItemKeys(option) /\ IsFiniteSet(ItemKeys(option))
<1>1. ASSUME NEW x, NEW y, NEW z
      PROVE  /\ IsFiniteSet({x}) /\ Cardinality({x}) = 1
             /\ IsFiniteSet({x, y}) /\ (x # y => Cardinality({x, y}) = 2)
             /\ IsFiniteSet({x, y, z})
  <2>1. IsFiniteSet({x}) /\ Cardinality({x}) = 1
    BY FS_Singleton
  <2>2. /\ IsFiniteSet({x} \cup {y})
        /\ Cardinality({x} \cup {y}) = IF y \in {x} THEN 1 ELSE 2
    BY <2>1, FS_AddElement
  <2>3. {x, y} = {x} \cup {y} /\ {x, y, z} = {x, y} \cup {z}
    OBVIOUS
  <2>4. /\ IsFiniteSet({x, y} \cup {z})
        /\ Cardinality({x, y} \cup {z}) = IF z \in {x, y} THEN Cardinality({x, y}) ELSE Cardinality({x, y}) + 1
    BY <2>2, <2>3, FS_AddElement
  <2> QED BY <2>1, <2>2, <2>3, <2>4
<1>2. Parts[option] = IF option = "packet_filters" THEN {"packet_filter", "packet_mask"}
                      ELSE IF option = "packet_filters_v3"
                           THEN {"packet_filter", "packet_mask", "filter_id"}
                           ELSE {"terminal_capability"}
  BY OptionKinds DEF Parts
<1>3. IsFiniteSet(Parts[option]) /\ Size \in 1..3
  <2>1. CASE option = "packet_filters"
    <3>1. Parts[option] = {"packet_filter", "packet_mask"}
      BY <1>2, <2>1
    <3>2. "packet_filter" # "packet_mask"
      OBVIOUS
    <3>3. IsFiniteSet({"packet_filter", "packet_mask"}) /\ Cardinality({"packet_filter", "packet_mask"}) = 2
      BY <1>1, <3>2, Zenon
    <3> QED BY <3>1, <3>3 DEF Size
  <2>2. CASE option = "packet_filters_v3"
    <3>1. Parts[option] = {"packet_filter", "packet_mask", "filter_id"}
      BY <1>2, <2>2
    <3>2. PICK x, y, z : x = "packet_filter" /\ y = "packet_mask" /\ z = "filter_id"
      OBVIOUS
    <3>3. x # y /\ x # z /\ y # z
      BY <3>2
    <3>4. IsFiniteSet({x, y, z}) /\ Cardinality({x, y, z}) = 3
      <4>1. IsFiniteSet({x, y}) /\ Cardinality({x, y}) = 2 /\ z \notin {x, y}
        BY <1>1, <3>3
      <4>2. IsFiniteSet({x, y} \cup {z}) /\ Cardinality({x, y} \cup {z}) = 3
        BY <4>1, FS_AddElement
      <4>3. {x, y, z} = {x, y} \cup {z}
        OBVIOUS
      <4> QED BY <4>2, <4>3
    <3> QED BY <3>1, <3>2, <3>4 DEF Size
  <2>3. CASE option \notin {"packet_filters", "packet_filters_v3"}
    <3>1. IsFiniteSet(Parts[option]) /\ Cardinality(Parts[option]) = 1
      BY <1>1, <1>2, <2>3
    <3> QED BY <3>1 DEF Size
  <2> QED BY <2>1, <2>2, <2>3
<1>4. IsFiniteSet(ItemKeys(option))
  BY <1>1 DEF ItemKeys
<1>5. Parts[option] \subseteq ItemKeys(option)
  BY <1>2, OptionKinds DEF ItemKeys
<1> QED BY <1>3, <1>4, <1>5

\* An item with one more key has one more part
LEMMA OnePart ==
  ASSUME NEW S, IsFiniteSet(S), NEW T, T \subseteq S, NEW key, key \notin T
  PROVE  Cardinality(T) \in Nat /\ Cardinality(T \cup {key}) = Cardinality(T) + 1
<1>1. IsFiniteSet(T)
  BY FS_Subset
<1>2. Cardinality(T) \in Nat
  BY <1>1, FS_CardinalityType
<1> QED BY <1>1, <1>2, FS_AddElement

\* The places of the item at i are among those of the first m items
LEMMA Places ==
  ASSUME NEW z \in 1..3, NEW m \in Nat, NEW i \in 1..m
  PROVE  /\ z * (i - 1) + 1 \in Int /\ z * i \in Int
         /\ 1 <= z * (i - 1) + 1 /\ z * i <= z * m
         /\ z * (m + 1) = z * m + z /\ z * m \in Nat
<1>1. z = 1 \/ z = 2 \/ z = 3
  OBVIOUS
<1> QED BY <1>1

\* The parts are finitely many, and each has a rank among them
LEMMA Ranks ==
  ASSUME NEW S, argument \in Seq(S)
  PROVE  /\ DOMAIN argument = 1..Len(argument) /\ Len(argument) \in Nat
         /\ PartPlaces \subseteq 1..Len(argument) /\ IsFiniteSet(PartPlaces) /\ Count \in Nat
         /\ \A j \in PartPlaces : Rank(j) \in Nat /\ Rank(j) <= Count
<1>1. DOMAIN argument = 1..Len(argument) /\ Len(argument) \in Nat
  OBVIOUS
<1>2. PartPlaces \subseteq 1..Len(argument)
  BY <1>1 DEF PartPlaces
<1>3. IsFiniteSet(PartPlaces)
  <2>1. IsFiniteSet(1..Len(argument))
    BY <1>1, FS_Interval
  <2> QED BY <2>1, <1>2, FS_Subset
<1>4. Count \in Nat
  BY <1>3, FS_CardinalityType DEF Count
<1>5. ASSUME NEW j \in PartPlaces
      PROVE  Rank(j) \in Nat /\ Rank(j) <= Count
  <2>1. {k \in PartPlaces : k <= j} \subseteq PartPlaces
    OBVIOUS
  <2>2. /\ IsFiniteSet({k \in PartPlaces : k <= j})
        /\ Cardinality({k \in PartPlaces : k <= j}) <= Cardinality(PartPlaces)
    BY <2>1, <1>3, FS_Subset
  <2>3. Cardinality({k \in PartPlaces : k <= j}) \in Nat
    BY <2>2, FS_CardinalityType
  <2> QED BY <2>2, <2>3 DEF Rank, Count
<1> QED BY <1>1, <1>2, <1>3, <1>4, <1>5

\* One more place adds the value it holds to the values of the others
LEMMA OneMoreValue ==
  ASSUME NEW f, NEW g, NEW T, NEW m, \A j \in T : g[j] = f[j]
  PROVE  {g[j] : j \in T \cup {m}} = {f[j] : j \in T} \cup {g[m]}
<1>1. \A x : x \in {g[j] : j \in T \cup {m}} <=> x \in {f[j] : j \in T} \cup {g[m]}
  OBVIOUS
<1> QED BY <1>1

\* One more part is the last one, and the others keep their ranks
LEMMA PartRead ==
  ASSUME NEW S, argument \in Seq(S), NEW e \in S, e[1] # "session_id",
         argument' = argument \o <<e>>, NEW c, c = Count
  PROVE  /\ c \in Nat /\ Count' = c + 1
         /\ \A first \in Int, last \in Int : last <= c => Given(first, last)' = Given(first, last)
         /\ \A first \in Int : first <= c + 1 => Given(first, c + 1)' = Given(first, c) \cup {e}
         /\ DOMAIN argument' \ PartPlaces' = DOMAIN argument \ PartPlaces
         /\ \A j \in DOMAIN argument : argument'[j] = argument[j]
<1>1. PICK n : n = Len(argument)
  OBVIOUS
<1>2. /\ argument' \in Seq(S) /\ Len(argument') = n + 1 /\ n \in Nat
      /\ \A i \in 1..n : argument'[i] = argument[i]
      /\ argument'[n + 1] = e
  BY <1>1, OneMore
<1>3. /\ DOMAIN argument = 1..n /\ DOMAIN argument' = 1..n + 1
      /\ PartPlaces \subseteq 1..n /\ IsFiniteSet(PartPlaces) /\ c \in Nat
      /\ \A j \in PartPlaces : Rank(j) \in Nat /\ Rank(j) <= c
  BY <1>1, <1>2, Ranks
<1>4. 1..n + 1 = (1..n) \cup {n + 1} /\ n + 1 \notin 1..n
  BY <1>2
<1>5. PartPlaces' = PartPlaces \cup {n + 1} /\ n + 1 \notin PartPlaces
  <2>1. \A j \in 1..n + 1 : j \in PartPlaces' <=> j \in PartPlaces \/ j = n + 1
    BY <1>2, <1>3, <1>4 DEF PartPlaces
  <2> QED BY <2>1, <1>3, <1>4 DEF PartPlaces
<1>6. Count' = c + 1
  <2>1. Cardinality(PartPlaces \cup {n + 1}) = Cardinality(PartPlaces) + 1
    BY <1>3, <1>5, FS_AddElement
  <2> QED BY <2>1, <1>5 DEF Count
<1>7. \A j \in PartPlaces : Rank(j)' = Rank(j)
  <2> SUFFICES ASSUME NEW j \in PartPlaces PROVE Rank(j)' = Rank(j)
    OBVIOUS
  <2>1. ~(n + 1 <= j)
    BY <1>2, <1>3
  <2>2. {k \in PartPlaces' : k <= j} = {k \in PartPlaces : k <= j}
    BY <2>1, <1>5
  <2> QED BY <2>2 DEF Rank
<1>8. Rank(n + 1)' = c + 1
  <2>1. \A k \in PartPlaces' : k <= n + 1
    BY <1>2, <1>3, <1>5
  <2>2. {k \in PartPlaces' : k <= n + 1} = PartPlaces'
    BY <2>1
  <2>3. \A x : x = n + 1 => Rank(x)' = Cardinality({k \in PartPlaces' : k <= x})
    BY DEF Rank
  <2> QED BY <2>2, <2>3, <1>6 DEF Count
<1>9. ASSUME NEW first \in Int, NEW last \in Int, last <= c
      PROVE  Given(first, last)' = Given(first, last)
  <2>1. c + 1 \notin first..last
    BY <1>3, <1>9
  <2>2. {k \in PartPlaces' : Rank(k)' \in first..last} = {k \in PartPlaces : Rank(k) \in first..last}
    BY <2>1, <1>5, <1>7, <1>8
  <2>3. \A j \in PartPlaces : argument'[j] = argument[j]
    BY <1>2, <1>3
  <2> QED BY <2>2, <2>3 DEF Given
<1>10. ASSUME NEW first \in Int, first <= c + 1
       PROVE  Given(first, c + 1)' = Given(first, c) \cup {e}
  <2>1. /\ c + 1 \in first..c + 1
        /\ \A j \in PartPlaces : Rank(j) \in first..c + 1 <=> Rank(j) \in first..c
    BY <1>3, <1>10
  <2>2. {k \in PartPlaces' : Rank(k)' \in first..c + 1}
          = {k \in PartPlaces : Rank(k) \in first..c} \cup {n + 1}
    BY <2>1, <1>5, <1>7, <1>8
  <2>3. \A j \in PartPlaces : argument'[j] = argument[j]
    BY <1>2, <1>3
  <2>4. Given(first, c + 1)' = {argument'[j] : j \in {k \in PartPlaces : Rank(k) \in first..c} \cup {n + 1}}
    BY <2>2 DEF Given
  <2>5. PICK T : T = {k \in PartPlaces : Rank(k) \in first..c}
    OBVIOUS
  <2>6. Given(first, c) = {argument[j] : j \in T}
    BY <2>5 DEF Given
  <2>7. \A j \in T : argument'[j] = argument[j]
    BY <2>3, <2>5
  <2>8. Given(first, c + 1)' = {argument'[j] : j \in T \cup {n + 1}}
    BY <2>4, <2>5
  <2>9. {argument'[j] : j \in T \cup {n + 1}} = {argument[j] : j \in T} \cup {argument'[n + 1]}
    <3>1. PICK f, g : f = argument /\ g = argument'
      OBVIOUS
    <3>2. \A j \in T : g[j] = f[j]
      BY <2>7, <3>1
    <3>3. {g[j] : j \in T \cup {n + 1}} = {f[j] : j \in T} \cup {g[n + 1]}
      BY <3>2, OneMoreValue
    <3> QED BY <3>1, <3>3
  <2>10. argument'[n + 1] = e
    BY <1>2
  <2> QED BY <2>6, <2>8, <2>9, <2>10
<1>11. DOMAIN argument' \ PartPlaces' = DOMAIN argument \ PartPlaces
  BY <1>3, <1>4, <1>5
<1> QED BY <1>2, <1>3, <1>6, <1>9, <1>10, <1>11

\* One more session id leaves the parts alone
LEMMA SessionRead ==
  ASSUME NEW S, argument \in Seq(S), NEW e \in S, e[1] = "session_id",
         argument' = argument \o <<e>>
  PROVE  /\ Count' = Count
         /\ \A first, last : Given(first, last)' = Given(first, last)
         /\ \E j \in DOMAIN argument' \ PartPlaces' :
              /\ \A k \in DOMAIN argument' : k <= j
              /\ argument'[j] = e
<1>1. PICK n : n = Len(argument)
  OBVIOUS
<1>2. /\ argument' \in Seq(S) /\ Len(argument') = n + 1 /\ n \in Nat
      /\ \A i \in 1..n : argument'[i] = argument[i]
      /\ argument'[n + 1] = e
  BY <1>1, OneMore
<1>3. DOMAIN argument = 1..n /\ DOMAIN argument' = 1..n + 1
  BY <1>1, <1>2, Ranks
<1>4. 1..n + 1 = (1..n) \cup {n + 1} /\ n + 1 \notin 1..n /\ n + 1 \in 1..n + 1
  BY <1>2
<1>5. PartPlaces' = PartPlaces
  <2>1. \A j \in 1..n + 1 : j \in PartPlaces' <=> j \in PartPlaces
    BY <1>2, <1>3, <1>4 DEF PartPlaces
  <2> QED BY <2>1, <1>3, <1>4 DEF PartPlaces
<1>6. \A j \in PartPlaces : argument'[j] = argument[j]
  BY <1>2, <1>3 DEF PartPlaces
<1>7. n + 1 \in DOMAIN argument' \ PartPlaces' /\ \A k \in 1..n + 1 : k <= n + 1
  BY <1>2, <1>3, <1>4 DEF PartPlaces
<1>8. \A j : Rank(j)' = Rank(j)
  BY <1>5 DEF Rank
<1>9. \A first, last : Given(first, last)' = Given(first, last)
  BY <1>5, <1>6, <1>8 DEF Given
<1> QED BY <1>2, <1>3, <1>5, <1>7, <1>9 DEF Count

\* The parts given for an item before another one was read
LEMMA Earlier ==
  ASSUME NEW z \in 1..3, NEW m \in Nat, NEW c \in Nat, z * m <= c, NEW i \in 1..m,
         \A first \in Int, last \in Int : last <= c => Given(first, last)' = Given(first, last)
  PROVE  Given(z * (i - 1) + 1, z * i)' = Given(z * (i - 1) + 1, z * i)
<1>1. PICK first, last : first = z * (i - 1) + 1 /\ last = z * i
  OBVIOUS
<1>2. first \in Int /\ last \in Int /\ last <= c
  BY <1>1, Places
<1>3. Given(first, last)' = Given(first, last)
  BY <1>2
<1> QED BY <1>1, <1>3

\* A part is read: it is added to those of its item, or begins the next item
LEMMA HandlePartStep ==
  ASSUME ArgumentsIInv, HandlePart
  PROVE  ArgumentsIInv'
<1>1. option \in ItemOptions /\ outcome = "reading" /\ UNCHANGED <<option, session>>
  BY DEF HandlePart, Reads
<1>2. PairsInv' /\ PinsInv' /\ option' \in Options
  BY <1>1, OptionKinds DEF ArgumentsIInv, PairsInv, PinsInv
<1>3. PICK key \in ItemKeys(option) \cup {Unknown}, value \in PartValues :
        /\ argument' = argument \o <<<<key, value>>>>
        /\ \/ /\ key = Unknown \/ (key \in DOMAIN props /\ ~Complete(props))
              /\ Reject
           \/ /\ key \in ItemKeys(option) \ DOMAIN props
              /\ props' = WithValue(props, key, value)
              /\ UNCHANGED <<items, outcome>>
           \/ /\ key \in DOMAIN props /\ Complete(props)
              /\ props' = WithValue(None, key, value)
              /\ items' = Append(items, props)
              /\ UNCHANGED outcome
  BY DEF HandlePart, Reads
<1>4. CASE Reject
  <2>1. outcome' = "rejected"
    BY <1>4 DEF Reject
  <2> QED BY <2>1, <1>2 DEF ArgumentsIInv, ItemsInv, Outcomes
<1>5. PICK c, m, z, parts, list, O :
        /\ c = Count /\ m = Len(items) /\ z = Size /\ parts = props
        /\ list = items /\ O = option
  OBVIOUS
<1>6. ItemsSoFar
  BY <1>1 DEF ArgumentsIInv, ItemsInv
<1>7. z \in 1..3 /\ IsFiniteSet(ItemKeys(O)) /\ Size' = z
  BY <1>1, <1>5, Sizes DEF Size
<1>8. /\ list \in Seq(Item) /\ m \in Nat /\ parts \in Item
      /\ DOMAIN parts \subseteq ItemKeys(O) /\ \A k \in DOMAIN parts : parts[k] \in PartValues
  BY <1>5, <1>6 DEF ItemsSoFar, Item
<1>9. Item' = Item
  BY <1>1 DEF Item
<1>10. ASSUME key \in ItemKeys(O)
       PROVE  /\ argument' \in Seq((ItemKeys(option) \cup {"session_id"}) \X PartValues)'
              /\ c \in Nat /\ Count' = c + 1
              /\ \A first \in Int, last \in Int : last <= c => Given(first, last)' = Given(first, last)
              /\ \A first \in Int : first <= c + 1 =>
                   Given(first, c + 1)' = Given(first, c) \cup {<<key, value>>}
              /\ SessionSoFar'
  <2> DEFINE S == (ItemKeys(O) \cup {"session_id"}) \X PartValues
  <2>1. argument \in Seq(S) /\ <<key, value>> \in S
    BY <1>5, <1>6, <1>10 DEF ItemsSoFar
  <2>2. <<key, value>>[1] # "session_id"
    BY <1>10 DEF ItemKeys
  <2> HIDE DEF S
  <2>3. argument' \in Seq(S)
    BY <2>1, <1>3, OneMore
  <2>4. /\ c \in Nat /\ Count' = c + 1
        /\ \A first \in Int, last \in Int : last <= c => Given(first, last)' = Given(first, last)
        /\ \A first \in Int : first <= c + 1 =>
             Given(first, c + 1)' = Given(first, c) \cup {<<key, value>>}
        /\ DOMAIN argument' \ PartPlaces' = DOMAIN argument \ PartPlaces
        /\ \A j \in DOMAIN argument : argument'[j] = argument[j]
    BY <2>1, <2>2, <1>3, <1>5, PartRead
  <2>5. SessionSoFar'
    BY <2>4, <1>1, <1>6 DEF ItemsSoFar, SessionSoFar
  <2> QED BY <2>3, <2>4, <2>5, <1>1, <1>5 DEF S
<1>11. /\ c = z * m + Cardinality(DOMAIN parts) /\ z * m \in Nat
       /\ Given(z * m + 1, c) = {<<k, parts[k]>> : k \in DOMAIN parts}
       /\ \A i \in 1..m : Given(z * (i - 1) + 1, z * i) = {<<k, list[i][k]>> : k \in DOMAIN list[i]}
  <2>1. z * m \in Nat
    BY <1>7, <1>8
  <2> QED BY <2>1, <1>5, <1>6 DEF ItemsSoFar, Holds, Gathered
<1>12. CASE /\ key \in ItemKeys(option) \ DOMAIN props
            /\ props' = WithValue(props, key, value)
            /\ UNCHANGED <<items, outcome>>
  <2>1. key \in ItemKeys(O) \ DOMAIN parts /\ props' = WithValue(parts, key, value)
    BY <1>5, <1>12
  <2>2. /\ DOMAIN props' = DOMAIN parts \cup {key}
        /\ Cardinality(DOMAIN parts) \in Nat
        /\ Cardinality(DOMAIN props') = Cardinality(DOMAIN parts) + 1
        /\ {<<k, props'[k]>> : k \in DOMAIN props'}
             = {<<k, parts[k]>> : k \in DOMAIN parts} \cup {<<key, value>>}
    <3>1. props' = [k \in DOMAIN parts \cup {key} |-> IF k = key THEN value ELSE parts[k]]
      BY <2>1 DEF WithValue
    <3>2. /\ Cardinality(DOMAIN parts) \in Nat
          /\ Cardinality(DOMAIN parts \cup {key}) = Cardinality(DOMAIN parts) + 1
      <4>1. DOMAIN parts \subseteq ItemKeys(O) /\ key \notin DOMAIN parts /\ IsFiniteSet(ItemKeys(O))
        BY <2>1, <1>7, <1>8
      <4> QED BY <4>1, OnePart
    <3> QED BY <3>1, <3>2, <2>1
  <2>3. Count' = z * m + Cardinality(DOMAIN props') /\ c \in Nat /\ z * m <= c /\ Count' = c + 1
    BY <2>1, <2>2, <1>10, <1>11
  <2>4. ASSUME NEW first, first = z * m + 1, NEW last, last = c + 1
        PROVE  Given(first, last)' = {<<k, props'[k]>> : k \in DOMAIN props'}
    <3>1. first \in Int /\ first <= c + 1
      BY <2>3, <2>4, <1>11
    <3>2. Given(first, c + 1)' = Given(first, c) \cup {<<key, value>>}
      BY <3>1, <2>1, <1>10
    <3> QED BY <3>2, <2>2, <2>4, <1>11
  <2>5. Gathered'
    <3> SUFFICES ASSUME NEW i \in 1..m
                 PROVE  Given(z * (i - 1) + 1, z * i)' = {<<k, list[i][k]>> : k \in DOMAIN list[i]}
      BY <1>5, <1>7, <1>12 DEF Gathered, Holds
    <3>1. Given(z * (i - 1) + 1, z * i)' = Given(z * (i - 1) + 1, z * i)
      BY <2>1, <2>3, <1>7, <1>8, <1>10, Earlier
    <3> QED BY <3>1, <1>11
  <2>6. props' \in Item /\ items' \in Seq(Item)
    <3>1. WithValue(parts, key, value) \in [DOMAIN parts \cup {key} -> PartValues]
      BY <1>8 DEF WithValue
    <3>2. DOMAIN parts \cup {key} \in SUBSET ItemKeys(O)
      BY <2>1, <1>8
    <3>3. WithValue(parts, key, value) \in Item
      BY <3>1, <3>2, <1>5 DEF Item
    <3> QED BY <3>3, <2>1, <1>5, <1>8, <1>12
  <2>7. Holds(props, Size * Len(items) + 1, Count)'
    <3>1. PICK first, last : first = z * m + 1 /\ last = c + 1
      OBVIOUS
    <3>2. Len(items') = m
      BY <1>5, <1>12
    <3> QED BY <3>1, <3>2, <2>3, <2>4, <1>7 DEF Holds
  <2>8. ItemsSoFar'
    <3>1. Len(items') = m
      BY <1>5, <1>12
    <3> QED BY <3>1, <2>1, <2>3, <2>5, <2>6, <2>7, <1>7, <1>9, <1>10 DEF ItemsSoFar
  <2> QED BY <2>8, <1>1, <1>2, <1>12 DEF ArgumentsIInv, ItemsInv, Outcomes
<1>13. CASE /\ key \in DOMAIN props /\ Complete(props)
            /\ props' = WithValue(None, key, value)
            /\ items' = Append(items, props)
            /\ UNCHANGED outcome
  <2>1. /\ key \in ItemKeys(O) /\ props' = WithValue(None, key, value)
        /\ items' = Append(list, parts) /\ DOMAIN parts = Parts[option]
    BY <1>5, <1>8, <1>13 DEF Complete
  <2>2. /\ Len(items') = m + 1 /\ items' \in Seq(Item)
        /\ \A i \in 1..m : items'[i] = list[i]
        /\ items'[m + 1] = parts
    BY <2>1, <1>5, <1>8
  <2>3. DOMAIN None = {}
    BY DEF None
  <2>4. /\ DOMAIN props' = {key} /\ Cardinality(DOMAIN props') = 1
        /\ {<<k, props'[k]>> : k \in DOMAIN props'} = {<<key, value>>}
    <3>1. DOMAIN WithValue(None, key, value) = {key} /\ WithValue(None, key, value)[key] = value
      BY <2>3 DEF WithValue
    <3>2. Cardinality({key}) = 1
      BY FS_Singleton
    <3> QED BY <3>1, <3>2, <2>1
  <2>5. c = z * (m + 1) /\ z * (m + 1) = z * m + z /\ c \in Nat /\ Count' = c + 1
    <3>1. z * (m + 1) = z * m + z
      BY <1>7, <1>8
    <3>2. Cardinality(DOMAIN parts) = z
      BY <2>1, <1>5 DEF Size
    <3> QED BY <3>1, <3>2, <2>1, <1>10, <1>11
  <2>6. Holds(props, Size * Len(items) + 1, Count)'
    <3>1. PICK first, last : first = c + 1 /\ last = c + 1
      OBVIOUS
    <3>2. Given(first, last)' = Given(first, c) \cup {<<key, value>>}
      BY <3>1, <2>1, <2>5, <1>10
    <3>3. Given(first, c) = {}
      <4>1. first..c = {}
        BY <3>1, <2>5
      <4> QED BY <4>1 DEF Given
    <3> QED BY <3>1, <3>2, <3>3, <2>2, <2>4, <2>5, <1>7 DEF Holds
  <2>7. Gathered'
    <3> SUFFICES ASSUME NEW i \in 1..m + 1
                 PROVE  Given(z * (i - 1) + 1, z * i)' = {<<k, items'[i][k]>> : k \in DOMAIN items'[i]}
      BY <2>2, <1>7 DEF Gathered, Holds
    <3>1. Given(z * (i - 1) + 1, z * i)' = Given(z * (i - 1) + 1, z * i)
      <4>1. m + 1 \in Nat /\ z * (m + 1) <= c
        BY <2>5, <1>8
      <4> QED BY <4>1, <2>1, <2>5, <1>7, <1>10, Earlier
    <3>2. CASE i \in 1..m
      BY <3>1, <3>2, <2>2, <1>11
    <3>3. CASE i = m + 1
      <4>1. z * (i - 1) + 1 = z * m + 1 /\ z * i = c
        BY <3>3, <2>5, <1>8
      <4> QED BY <4>1, <3>1, <3>3, <2>2, <1>11
    <3> QED BY <3>2, <3>3, <1>8
  <2>8. props' \in Item
    <3>1. WithValue(None, key, value) \in [{key} -> PartValues]
      BY <2>3 DEF WithValue
    <3> QED BY <3>1, <2>1, <1>5 DEF Item
  <2>9. ItemsSoFar'
    BY <2>1, <2>2, <2>4, <2>5, <2>6, <2>7, <2>8, <1>7, <1>9, <1>10 DEF ItemsSoFar
  <2> QED BY <2>9, <1>1, <1>2, <1>13 DEF ArgumentsIInv, ItemsInv, Outcomes
<1> QED BY <1>3, <1>4, <1>12, <1>13

\* A session id is read: it leaves the parts alone, wherever it is
LEMMA HandleSessionStep ==
  ASSUME ArgumentsIInv, HandleSession
  PROVE  ArgumentsIInv'
<1>1. option \in ItemOptions /\ outcome = "reading" /\ UNCHANGED option
  BY OptionKinds DEF HandleSession, SessionOptions
<1>2. PairsInv' /\ PinsInv' /\ option' \in Options
  BY <1>1, OptionKinds DEF ArgumentsIInv, PairsInv, PinsInv
<1>3. PICK value \in PartValues :
        /\ argument' = argument \o <<<<"session_id", value>>>>
        /\ \/ Reject
           \/ session' = value /\ UNCHANGED <<props, items, outcome>>
  BY DEF HandleSession
<1>4. CASE Reject
  <2>1. outcome' = "rejected"
    BY <1>4 DEF Reject
  <2> QED BY <2>1, <1>2 DEF ArgumentsIInv, ItemsInv, Outcomes
<1>5. CASE session' = value /\ UNCHANGED <<props, items, outcome>>
  <2>1. ItemsSoFar
    BY <1>1 DEF ArgumentsIInv, ItemsInv
  <2> DEFINE S == (ItemKeys(option) \cup {"session_id"}) \X PartValues
             e == <<"session_id", value>>
  <2>2. argument \in Seq(S) /\ e \in S /\ e[1] = "session_id" /\ e[2] = value
    BY <2>1 DEF ItemsSoFar
  <2>3. argument' = argument \o <<e>>
    BY <1>3
  <2>4. S' = S
    BY <1>1
  <2> HIDE DEF S, e
  <2>5. argument' \in Seq(S)
    BY <2>2, <2>3, OneMore
  <2>6. /\ Count' = Count
        /\ \A first, last : Given(first, last)' = Given(first, last)
        /\ \E j \in DOMAIN argument' \ PartPlaces' :
             /\ \A k \in DOMAIN argument' : k <= j
             /\ argument'[j] = e
    BY <2>2, <2>3, SessionRead
  <2>7. SessionSoFar'
    BY <2>2, <2>6, <1>5 DEF SessionSoFar
  <2>8. Size' = Size /\ Item' = Item
    BY <1>1 DEF Size, Item
  <2>9. \A parts, first, last : Holds(parts, first, last) => Holds(parts, first, last)'
    BY <2>6 DEF Holds
  <2>10. Gathered'
    BY <2>1, <2>8, <2>9, <1>5 DEF ItemsSoFar, Gathered
  <2>11. Holds(props, Size * Len(items) + 1, Count)'
    <3>1. PICK first, last, parts : first = Size * Len(items) + 1 /\ last = Count /\ parts = props
      OBVIOUS
    <3>2. Holds(parts, first, last)'
      BY <3>1, <2>1, <2>9 DEF ItemsSoFar
    <3> QED BY <3>1, <3>2, <2>6, <2>8, <1>5 DEF Holds
  <2>12. ItemsSoFar'
    BY <2>1, <2>4, <2>5, <2>6, <2>7, <2>8, <2>10, <2>11, <1>1, <1>5 DEF ItemsSoFar, S
  <2> QED BY <2>12, <1>1, <1>2, <1>5 DEF ArgumentsIInv, ItemsInv, Outcomes
<1> QED BY <1>3, <1>4, <1>5

\* The last part was read
LEMMA FinishItemsStep ==
  ASSUME ArgumentsIInv, FinishItems
  PROVE  ArgumentsIInv'
<1>1. /\ option \in ItemOptions /\ outcome = "reading" /\ UNCHANGED <<option, session>>
      /\ argument' = argument \o << >>
  BY DEF FinishItems, Reads
<1>2. PairsInv' /\ PinsInv' /\ option' \in Options
  BY <1>1, OptionKinds DEF ArgumentsIInv, PairsInv, PinsInv
<1>3. ItemsSoFar
  BY <1>1 DEF ArgumentsIInv, ItemsInv
<1>4. argument' = argument
  <2>1. argument \in Seq((ItemKeys(option) \cup {"session_id"}) \X PartValues)
    BY <1>3 DEF ItemsSoFar
  <2> QED BY <2>1, <1>1
<1>5. PICK c, m, z, parts, list : /\ c = Count /\ m = Len(items) /\ z = Size
                                  /\ parts = props /\ list = items
  OBVIOUS
<1>6. /\ z \in 1..3 /\ Cardinality(Parts[option]) = z /\ IsFiniteSet(DOMAIN parts)
      /\ list \in Seq(Item) /\ parts \in Item /\ m = Len(list) /\ m \in Nat /\ z * m \in Nat
  <2>1. z \in 1..3 /\ Cardinality(Parts[option]) = z /\ IsFiniteSet(ItemKeys(option))
    BY <1>1, <1>5, Sizes DEF Size
  <2>2. list \in Seq(Item) /\ parts \in Item /\ m = Len(list) /\ m \in Nat
    BY <1>3, <1>5 DEF ItemsSoFar
  <2>3. DOMAIN parts \subseteq ItemKeys(option)
    BY <2>2 DEF Item
  <2>4. IsFiniteSet(DOMAIN parts)
    BY <2>1, <2>3, FS_Subset
  <2>5. z * m \in Nat
    BY <2>1, <2>2
  <2> QED BY <2>1, <2>2, <2>4, <2>5
<1>7. /\ c = z * m + Cardinality(DOMAIN parts) /\ Cardinality(DOMAIN parts) \in Nat
      /\ Given(z * m + 1, c) = {<<k, parts[k]>> : k \in DOMAIN parts}
      /\ \A i \in 1..m : Given(z * (i - 1) + 1, z * i) = {<<k, list[i][k]>> : k \in DOMAIN list[i]}
      /\ SessionSoFar
  <2>1. Cardinality(DOMAIN parts) \in Nat
    BY <1>6, FS_CardinalityType
  <2> QED BY <2>1, <1>3, <1>5 DEF ItemsSoFar, Holds, Gathered
<1>8. /\ \A first, last : Given(first, last)' = Given(first, last)
      /\ PartPlaces' = PartPlaces /\ Cardinality(PartPlaces)' = c
  BY <1>4, <1>5 DEF Given, PartPlaces, Rank, Count
<1>9. ASSUME outcome' = "accepted",
             \A i \in DOMAIN items' :
               Given(z * (i - 1) + 1, z * i) = {<<k, items'[i][k]>> : k \in DOMAIN items'[i]},
             \/ c = z * Len(items')
             \/ c = z * Len(items') + 1 /\ \E part \in Given(c, c) : part[1] = "filter_id"
      PROVE  ArgumentsIInv'
  <2>1. Cardinality(Parts[option'])  = z
    BY <1>1, <1>6
  <2>2. \A i \in DOMAIN items' :
          Given(z * (i - 1) + 1, z * i)' = {<<k, items'[i][k]>> : k \in DOMAIN items'[i]}
    BY <1>8, <1>9
  <2>3. \/ c = z * Len(items')
        \/ c = z * Len(items') + 1 /\ \E part \in Given(c, c)' : part[1] = "filter_id"
    BY <1>8, <1>9
  <2>4. SessionSoFar'
    BY <1>1, <1>4, <1>7, <1>8 DEF SessionSoFar
  <2>5. ItemsAsGiven'
    BY <2>1, <2>2, <2>3, <2>4, <1>8 DEF ItemsAsGiven, SessionSoFar
  <2> QED BY <2>5, <1>2, <1>9 DEF ArgumentsIInv, ItemsInv, Outcomes
<1>10. CASE DOMAIN props \ {"filter_id"} = {}
  <2>1. outcome' = "accepted" /\ items' = list /\ DOMAIN parts \subseteq {"filter_id"}
    BY <1>5, <1>10 DEF FinishItems, Accept
  <2>2. DOMAIN items' = 1..m /\ Len(items') = m
    BY <2>1, <1>6
  <2>3. c = z * m \/ (c = z * m + 1 /\ \E part \in Given(c, c) : part[1] = "filter_id")
    <3>1. CASE DOMAIN parts = {}
      BY <3>1, <1>6, <1>7, FS_EmptySet
    <3>2. CASE DOMAIN parts = {"filter_id"}
      <4>1. c = z * m + 1
        <5>1. Cardinality({"filter_id"}) = 1
          BY FS_Singleton
        <5> QED BY <5>1, <3>2, <1>7
      <4>2. <<"filter_id", parts["filter_id"]>> \in Given(c, c)
        BY <4>1, <3>2, <1>7
      <4> QED BY <4>1, <4>2
    <3> QED BY <3>1, <3>2, <2>1
  <2> QED BY <2>1, <2>2, <2>3, <1>7, <1>9
<1>11. CASE DOMAIN props \ {"filter_id"} # {} /\ Complete(props)
  <2>1. outcome' = "accepted" /\ items' = Append(list, parts) /\ DOMAIN parts = Parts[option]
    BY <1>5, <1>11 DEF FinishItems, Accept, Complete
  <2>2. /\ DOMAIN items' = 1..m + 1 /\ Len(items') = m + 1
        /\ \A i \in 1..m : items'[i] = list[i]
        /\ items'[m + 1] = parts
    BY <2>1, <1>6
  <2>3. c = z * (m + 1)
    <3>1. c = z * m + z
      BY <2>1, <1>6, <1>7
    <3>2. z * (m + 1) = z * m + z
      BY <1>6, Places
    <3> QED BY <3>1, <3>2, <1>6
  <2>4. ASSUME NEW i \in 1..m + 1
        PROVE  Given(z * (i - 1) + 1, z * i) = {<<k, items'[i][k]>> : k \in DOMAIN items'[i]}
    <3>1. CASE i \in 1..m
      BY <3>1, <2>2, <1>7
    <3>2. CASE i = m + 1
      <4>1. z * (i - 1) + 1 = z * m + 1 /\ z * i = c
        BY <3>2, <2>3, <1>6
      <4> QED BY <4>1, <3>2, <2>2, <1>7
    <3> QED BY <3>1, <3>2, <1>6
  <2> QED BY <2>1, <2>2, <2>3, <2>4, <1>9
<1>12. CASE DOMAIN props \ {"filter_id"} # {} /\ ~Complete(props)
  <2>1. outcome' = "rejected"
    BY <1>12 DEF FinishItems, Reject
  <2> QED BY <2>1, <1>2 DEF ArgumentsIInv, ItemsInv, Outcomes
<1> QED BY <1>10, <1>11, <1>12

(***************************************************************************)
(* Fields and PINs.                                                        *)

\* The fields of an option are checked one by one: no other list is touched
LEMMA ReadFieldsStep ==
  ASSUME ArgumentsIInv, ReadFields
  PROVE  ArgumentsIInv'
<1>1. option \in FieldOptions /\ UNCHANGED option /\ outcome' \in Outcomes
  BY DEF ReadFields, Reads, Accept, Reject, Outcomes
<1> QED BY <1>1, OptionKinds DEF ArgumentsIInv, PairsInv, ItemsInv, PinsInv

\* The least number of fields, the type and whether it may be given
LEMMA PinKinds ==
  ASSUME NEW o \in PinOptions
  PROVE  /\ PinCommands[o].new <=> o \in {"pin_change", "pin_enter_puk"}
         /\ PinCommands[o].type = IF o = "pin_enter_puk" THEN "puk1" ELSE "pin1"
  BY OptionKinds DEF PinCommands

\* A type that fits the default one is of its kind
LEMMA FittingTypes ==
  ASSUME NEW given, NEW default \in {"pin1", "puk1"}, PinFits(given, default)
  PROVE  default = "puk1" <=> given \in {"puk1", "puk2", "adm"}
<1>1. DOMAIN PinTypes = {"unknown", "pin1", "pin2", "puk1", "puk2", "adm"}
  BY DEF PinTypes
<1>2. given \in {"pin1", "pin2", "puk1", "puk2", "adm"}
  BY <1>1 DEF PinFits
<1>3. PinTypes[given] >= 11 <=> PinTypes[default] >= 11
  BY DEF PinFits, PinTypes
<1>4. /\ PinTypes["pin1"] = 2 /\ PinTypes["pin2"] = 3 /\ PinTypes["puk1"] = 11
      /\ PinTypes["puk2"] = 12 /\ PinTypes["adm"] = 19
  BY DEF PinTypes
<1> QED BY <1>2, <1>3, <1>4

\* The secrets are the last fields, and the type is of the right kind
LEMMA ReadPinStep ==
  ASSUME ArgumentsIInv, ReadPin
  PROVE  ArgumentsIInv'
<1>1. option \in PinOptions /\ outcome = "reading" /\ UNCHANGED option /\ argument = << >>
  BY DEF ReadPin, Reads, ArgumentsIInv, PinsInv
<1>2. PairsInv' /\ ItemsInv' /\ option' \in Options
  BY <1>1, OptionKinds DEF ArgumentsIInv, PairsInv, ItemsInv
<1> DEFINE command == PinCommands[option]
           least == IF command.new THEN 2 ELSE 1
           Typed(n) == command.typed /\ n = least + 1
<1>3. PICK n \in 0..MaxPairs : \E fields \in [1..n -> PinFields] :
        /\ Reads(fields)
        /\ IF /\ n = least \/ Typed(n)
              /\ Typed(n) => PinFits(fields[1], command.type)
           THEN Accept([type |-> IF Typed(n) THEN fields[1] ELSE command.type,
                        secrets |-> IF Typed(n) THEN Tail(fields) ELSE fields], items)
           ELSE Reject
  BY DEF ReadPin
<1>4. PICK fields \in [1..n -> PinFields] :
        /\ argument' = argument \o fields
        /\ \/ outcome' = "rejected"
           \/ /\ n = least \/ Typed(n)
              /\ Typed(n) => PinFits(fields[1], command.type)
              /\ outcome' = "accepted"
              /\ props' = [type |-> IF Typed(n) THEN fields[1] ELSE command.type,
                           secrets |-> IF Typed(n) THEN Tail(fields) ELSE fields]
  BY <1>3 DEF Reads, Accept, Reject
<1>5. CASE outcome' = "rejected"
  BY <1>5, <1>2 DEF ArgumentsIInv, PinsInv, Outcomes
<1>6. CASE /\ n = least \/ Typed(n)
           /\ Typed(n) => PinFits(fields[1], command.type)
           /\ outcome' = "accepted"
           /\ props' = [type |-> IF Typed(n) THEN fields[1] ELSE command.type,
                        secrets |-> IF Typed(n) THEN Tail(fields) ELSE fields]
  <2>1. n \in Nat /\ fields \in Seq(PinFields) /\ Len(fields) = n
    <3>1. n \in Nat
      BY MaxPairsAssumption
    <3> QED BY <3>1, SeqDef, LenProperties
  <2>2. argument' = fields
    BY <2>1, <1>1, <1>4
  <2>3. /\ command.new <=> option \in {"pin_change", "pin_enter_puk"}
        /\ command.type = IF option = "pin_enter_puk" THEN "puk1" ELSE "pin1"
    BY <1>1, PinKinds
  <2>4. least \in {1, 2} /\ (least = 2 <=> option \in {"pin_change", "pin_enter_puk"})
    BY <2>3
  <2> HIDE DEF command, least
  <2>5. CASE Typed(n)
    <3>1. props'.type = fields[1] /\ props'.secrets = Tail(fields) /\ n = least + 1
      BY <1>6, <2>5
    <3>2. /\ Len(Tail(fields)) = least /\ DOMAIN Tail(fields) = 1..least
          /\ \A i \in 1..least : Tail(fields)[i] = fields[n - least + i]
      BY <3>1, <2>1, <2>4
    <3>3. option = "pin_enter_puk" <=> fields[1] \in {"puk1", "puk2", "adm"}
      BY <1>6, <2>3, <2>5, FittingTypes
    <3>4. PinsAsGiven'
      BY <3>1, <3>2, <3>3, <2>1, <2>2, <2>4, <1>1 DEF PinsAsGiven
    <3> QED BY <3>4, <1>2, <1>6 DEF ArgumentsIInv, PinsInv, Outcomes
  <2>6. CASE ~Typed(n)
    <3>1. props'.type = command.type /\ props'.secrets = fields /\ n = least
      BY <1>6, <2>6
    <3>2. DOMAIN fields = 1..n /\ \A i \in 1..n : n - n + i = i
      BY <2>1
    <3>3. option = "pin_enter_puk" <=> command.type \in {"puk1", "puk2", "adm"}
      BY <2>3
    <3>4. PinsAsGiven'
      BY <3>1, <3>2, <3>3, <2>1, <2>2, <2>4, <1>1 DEF PinsAsGiven
    <3> QED BY <3>4, <1>2, <1>6 DEF ArgumentsIInv, PinsInv, Outcomes
  <2> QED BY <2>5, <2>6
<1> QED BY <1>4, <1>5, <1>6

(***************************************************************************)
(* The theorem.                                                            *)

\* An empty argument was read, and nothing is kept
LEMMA ArgumentsInit == Init => ArgumentsIInv
<1> SUFFICES ASSUME Init PROVE ArgumentsIInv
  OBVIOUS
<1>1. /\ option \in Options /\ outcome = "reading" /\ argument = << >> /\ items = << >>
      /\ props = << >> /\ DOMAIN props = {} /\ 1..0 = {} /\ session = "0"
  BY DEF Init, None
<1>2. PairsInv
  <2>1. PairsSoFar
    BY <1>1 DEF PairsSoFar
  <2> QED BY <2>1, <1>1 DEF PairsInv
<1>3. ItemsInv
  <2> SUFFICES ASSUME option \in ItemOptions PROVE ItemsSoFar
    BY <1>1 DEF ItemsInv
  <2>1. Size \in Nat
    BY Sizes
  <2>2. Size * 0 = 0 /\ Len(items) = 0 /\ DOMAIN argument = {}
    BY <2>1, <1>1
  <2>3. PartPlaces = {} /\ Count = 0 /\ Cardinality(DOMAIN props) = 0
    BY <2>2, <1>1, FS_EmptySet DEF PartPlaces, Count
  <2>4. props \in Item
    <3>1. props \in [{} -> PartValues]
      BY <1>1
    <3> QED BY <3>1 DEF Item
  <2>5. Holds(props, Size * Len(items) + 1, Count)
    BY <2>3, <1>1 DEF Holds, Given
  <2>6. Gathered
    BY <2>2 DEF Gathered
  <2>7. SessionSoFar
    BY <2>2, <1>1 DEF SessionSoFar
  <2> QED BY <2>2, <2>3, <2>4, <2>5, <2>6, <2>7, <1>1 DEF ItemsSoFar
<1> QED BY <1>1, <1>2, <1>3 DEF ArgumentsIInv, PinsInv, Outcomes

LEMMA ArgumentsStep == ArgumentsIInv /\ [Next]_vars => ArgumentsIInv'
<1> SUFFICES ASSUME ArgumentsIInv, [Next]_vars PROVE ArgumentsIInv'
  OBVIOUS
<1>1. CASE HandlePair
  BY <1>1, HandlePairStep
<1>2. CASE FinishPairs
  BY <1>2, FinishPairsStep
<1>3. CASE HandlePart
  BY <1>3, HandlePartStep
<1>4. CASE FinishItems
  BY <1>4, FinishItemsStep
<1>5. CASE ReadFields
  BY <1>5, ReadFieldsStep
<1>6. CASE ReadPin
  BY <1>6, ReadPinStep
<1>8. CASE HandleSession
  BY <1>8, HandleSessionStep
<1>7. CASE UNCHANGED vars
  <2>1. UNCHANGED <<option, argument, props, items, session, outcome>>
    BY <1>7 DEF vars
  <2>2. PairsInv'
    BY <2>1 DEF ArgumentsIInv, PairsInv, PairsSoFar, PairsComplete, Last
  <2>3. ItemsInv'
    <3>1. PartPlaces' = PartPlaces
      BY <2>1 DEF PartPlaces
    <3>2. \A first, last : Given(first, last)' = Given(first, last)
      BY <2>1, <3>1 DEF Given, Rank
    <3>3. Count' = Count /\ Size' = Size /\ Item' = Item
      BY <2>1, <3>1 DEF Count, Size, Item
    <3>4. SessionSoFar' = SessionSoFar
      BY <2>1, <3>1 DEF SessionSoFar
    <3>5. ItemsSoFar => ItemsSoFar'
      BY <2>1, <3>2, <3>3, <3>4 DEF ItemsSoFar, Gathered, Holds
    <3>6. ItemsAsGiven => ItemsAsGiven'
      BY <2>1, <3>1, <3>2 DEF ItemsAsGiven, Read
    <3> QED BY <2>1, <3>5, <3>6 DEF ArgumentsIInv, ItemsInv
  <2>4. PinsInv'
    BY <2>1 DEF ArgumentsIInv, PinsInv, PinsAsGiven, Read
  <2> QED BY <2>1, <2>2, <2>3, <2>4 DEF ArgumentsIInv
<1> QED BY <1>1, <1>2, <1>3, <1>4, <1>5, <1>6, <1>7, <1>8 DEF Next

\* What was read of an argument is kept, in every reachable state: the last
\* value of each key of mbimcli_parse_key_value_string(), the parts of the
\* items so far
THEOREM ArgumentsIInvHolds == Spec => []ArgumentsIInv
  BY ArgumentsInit, ArgumentsStep, PTL DEF Spec

\* The last place of a key is the one that PairsAsGiven chooses
LEMMA PairsSoFarAsGiven ==
  ASSUME ArgumentsIInv
  PROVE  PairsAsGiven
<1> SUFFICES ASSUME Read, option \in KeyValueOptions
             PROVE  PairsAsGiven
  BY DEF PairsAsGiven
<1> DEFINE places(k) == {i \in DOMAIN argument : Kept(argument[i][1]) = k}
           last(k) == CHOOSE i \in places(k) : \A j \in places(k) : j <= i
<1>1. PairsSoFar /\ PairsComplete
  BY DEF ArgumentsIInv, PairsInv, Read
<1>2. argument \in Seq((DOMAIN Handlers[option]) \X Values)
  BY <1>1 DEF PairsSoFar
<1>3. DOMAIN argument = 1..Len(argument) /\ Len(argument) \in Nat
  BY <1>2
<1>4. ASSUME NEW i \in DOMAIN argument
      PROVE  /\ Kept(argument[i][1]) \in DOMAIN props
             /\ argument[i][2] \in Handlers[option][argument[i][1]]
             /\ Last(i) => props[Kept(argument[i][1])] = argument[i][2]
             /\ option = "link_add" => Last(i) \/ argument[i] = <<"session_id", "max">>
  BY <1>1, <1>3 DEF PairsSoFar
<1>5. ASSUME NEW i \in DOMAIN argument, Last(i)
      PROVE  last(Kept(argument[i][1])) = i
  <2>1. i \in places(Kept(argument[i][1])) /\ \A j \in places(Kept(argument[i][1])) : j <= i
    BY <1>3, <1>5 DEF Last
  <2>2. \A h \in places(Kept(argument[i][1])) : i <= h /\ h <= i => h = i
    BY <1>3
  <2> HIDE DEF places
  <2> QED BY <2>1, <2>2
<1>6. ASSUME NEW k \in DOMAIN props
      PROVE  \E i \in DOMAIN argument : Kept(argument[i][1]) = k /\ Last(i)
  BY <1>1, <1>3 DEF PairsSoFar
<1>7. DOMAIN props = {Kept(argument[i][1]) : i \in DOMAIN argument}
  BY <1>4, <1>6
<1>8. ASSUME NEW k \in DOMAIN props
      PROVE  props[k] = argument[last(k)][2]
  <2>1. PICK i \in DOMAIN argument : Kept(argument[i][1]) = k /\ Last(i)
    BY <1>6
  <2>2. last(k) = i
    BY <2>1, <1>5
  <2> HIDE DEF last
  <2> QED BY <2>1, <2>2, <1>4
<1>9. ASSUME option = "link_add", NEW k \in DOMAIN props, NEW i \in places(k)
      PROVE  i = last(k) \/ argument[i] = <<"session_id", "max">>
  <2>1. i \in DOMAIN argument /\ Kept(argument[i][1]) = k
    OBVIOUS
  <2>2. Last(i) => last(k) = i
    BY <2>1, <1>5
  <2> HIDE DEF last
  <2> QED BY <2>1, <2>2, <1>4, <1>9
<1> QED BY <1>1, <1>4, <1>7, <1>8, <1>9 DEF PairsAsGiven

\* An argument that mbimcli accepts is used exactly as it was given: the last
\* value of each key, the parts of each item with none of another item between
\* them and the last session id wherever it was, the secrets of a PIN
\* in their order and never as one of the other kind
THEOREM UsedAsGivenHolds == Spec => []UsedAsGiven
<1>1. ArgumentsIInv => UsedAsGiven
  <2> SUFFICES ASSUME ArgumentsIInv PROVE UsedAsGiven
    OBVIOUS
  <2>1. PairsAsGiven
    BY PairsSoFarAsGiven
  <2>2. ItemsAsGiven
    BY DEF ArgumentsIInv, ItemsInv, ItemsAsGiven, Read
  <2>3. PinsAsGiven
    BY DEF ArgumentsIInv, PinsInv, PinsAsGiven, Read
  <2> QED BY <2>1, <2>2, <2>3 DEF UsedAsGiven
<1> QED BY <1>1, ArgumentsIInvHolds, PTL
=============================================================================
