-------------------------- MODULE MbimSubscriptions --------------------------
(* The lists of events that the clients of MbimProxy subscribe to, the list   *)
(* merged from them for the modem, and the indications that reach a client:   *)
(* mbim-proxy-helpers.c and the functions of mbim-proxy.c that use it.  In    *)
(* MbimProxy a list is the set of its events; here it is the array of entries *)
(* that the code searches and compares.                                       *)
EXTENDS Naturals, FiniteSets, SequencesExt

CONSTANTS Subscriber,   \* the clients of one device
          Standard,     \* the services MBIM_SERVICE_BASIC_CONNECT..MBIM_SERVICE_DSS
          Other,        \* services that are not
          Cid,
          StandardList, \* _mbim_proxy_helper_service_subscribe_list_new_standard()
          Lists,        \* the lists a client may ask for
          MaxRequests   \* bound: requests of the clients

Service == Standard \cup Other
Entry == [service : Service, cids : Seq(Cid)]    \* no cids: all of them
Event == Service \X Cid

ASSUME SubscriptionsAssumption ==
  /\ Standard \cap Other = {}
  /\ StandardList \in Seq(Entry) /\ \A i \in DOMAIN StandardList : StandardList[i].service \in Standard
  /\ Lists \subseteq Seq(Entry)
  /\ MaxRequests \in Nat

VARIABLES
  clients,      \* the clients in the order they came in
  subscribed,   \* each client's mbim_event_entry_array
  merged,       \* the DeviceContext's mbim_event_entry_array
  enabled,      \* the list the modem has
  confirmed,    \* the last request for a list did not fail
  made          \* requests made

subscriptionVars == <<clients, subscribed, merged, enabled, confirmed, made>>

-----------------------------------------------------------------------------
(* Lists                                                                      *)

Wildcard(entry) == entry.cids = << >>
EventsOf(entry) == {entry.service} \X (IF Wildcard(entry) THEN Cid ELSE Range(entry.cids))
Events(list) == UNION {EventsOf(list[i]) : i \in DOMAIN list}

(* The entry a search for a service finds, if there is one.                   *)
Find(list, service) == SelectInSeq(list, LAMBDA entry : entry.service = service)

(* cmp_event_entry_contents(): the same number of cids, each in the other.    *)
SameContents(in, out) ==
  /\ Len(in.cids) = Len(out.cids)
  /\ Range(in.cids) \subseteq Range(out.cids)

CmpMutant(a, b) == Len(a) = Len(b)

(* _mbim_proxy_helper_service_subscribe_list_cmp()                            *)
Cmp(a, b) ==
  /\ Len(a) = Len(b)
  /\ \A i \in DOMAIN a : LET o == Find(b, a[i].service)
                         IN o # 0 /\ SameContents(a[i], b[o])

AddCidsMutant(cids, more) ==
  IF more = << >> THEN cids ELSE cids \o SelectSeq(more, LAMBDA cid : cid \notin Range(cids))

(* The cids that are not there yet are added one by one; a wildcard stays,    *)
(* or becomes, one.                                                           *)
AddCids(cids, more) ==
  IF cids = << >> \/ more = << >> THEN << >>
  ELSE FoldLeft(LAMBDA all, cid : IF cid \in Range(all) THEN all ELSE Append(all, cid), cids, more)

(* One turn of _mbim_proxy_helper_service_subscribe_list_merge(): the entry   *)
(* is looked for among the first in_size of the list, those that were there   *)
(* at the beginning.                                                          *)
MergeEntry(list, in_size, entry) ==
  LET i == Find(SubSeq(list, 1, in_size), entry.service)
  IN IF entry.service \in Standard THEN list
     ELSE IF i = 0 THEN Append(list, entry)
     ELSE [list EXCEPT ![i].cids = AddCids(@, entry.cids)]

Merge(list, more) == FoldLeft(LAMBDA all, entry : MergeEntry(all, Len(list), entry), list, more)

(* client_indication_cb(): is an indication sent on to the client?  Only the  *)
(* first entry of its service counts.                                         *)
Forwards(list, event) ==
  LET i == Find(list, event[1])
  IN i # 0 /\ (Wildcard(list[i]) \/ event[2] \in Range(list[i].cids))

-----------------------------------------------------------------------------
(* Requests                                                                   *)

(* The lists of the clients are merged in the order the clients came in.      *)
AllMerged(lists) ==
  FoldLeft(LAMBDA list, c : Merge(list, lists[c]), StandardList, clients)

(* merge_client_service_subscribe_lists(): a list that compares equal to the  *)
(* one stored with the device is not sent; otherwise it is stored before the  *)
(* device has answered.  It is taken over by the modem or not: the modem gets *)
(* lists in the order they are sent, so it does no harm to do it here.        *)
Updated == AllMerged(subscribed')
NotUpdated == Cmp(Updated, merged)

MergeClientLists(taken) ==
  IF NotUpdated THEN UNCHANGED <<merged, enabled, confirmed>>
  ELSE /\ merged' = Updated
       /\ enabled' = IF taken THEN Updated ELSE enabled
       /\ confirmed' = taken

Asked == made < MaxRequests /\ made' = made + 1

(* process_device_service_subscribe_list()                                    *)
SubscribeList(c, list, taken) ==
  /\ Asked
  /\ subscribed' = [subscribed EXCEPT ![c] = list]
  /\ MergeClientLists(taken)
  /\ UNCHANGED clients

(* A request that cannot be parsed changes no list; it is answered like any.  *)
SubscribeInvalid(taken) ==
  /\ Asked
  /\ UNCHANGED <<clients, subscribed>>
  /\ MergeClientLists(taken)

(* A client goes: its list goes with it, and no list is merged; another one   *)
(* comes, after those that stay, and is given its name.                       *)
ClientReplaced(i) ==
  /\ Asked
  /\ clients' = Append(RemoveAt(clients, i), clients[i])
  /\ subscribed' = [subscribed EXCEPT ![clients[i]] = StandardList]
  /\ UNCHANGED <<merged, enabled, confirmed>>

(* reset_client_service_subscribe_lists(), when the modem is found closed; it *)
(* is opened again with the standard list.                                    *)
ResetLists ==
  /\ subscribed' = [c \in Subscriber |-> StandardList]
  /\ merged' = StandardList
  /\ enabled' = StandardList
  /\ confirmed' = TRUE
  /\ UNCHANGED <<clients, made>>

-----------------------------------------------------------------------------
SubscriptionsInit ==
  /\ clients \in SetToSeqs(Subscriber)
  /\ subscribed = [c \in Subscriber |-> StandardList]
  /\ merged = StandardList
  /\ enabled = StandardList
  /\ confirmed = TRUE

-----------------------------------------------------------------------------
(* Properties                                                                 *)

(* The lists of clients are ones they asked for, and the list the proxy has   *)
(* stored is the modem's unless a request for one failed.                     *)
SubscriptionsTypes ==
  /\ \A c \in Subscriber : subscribed[c] \in Lists \cup {StandardList}
  /\ \A list \in {merged, enabled} : Events(StandardList) \subseteq Events(list)
  /\ confirmed => enabled = merged

(* The merged list is the union: whatever the order, wildcards, repeated cids *)
(* and repeated services of the lists, it has the events of every client, and *)
(* of services that are not standard no others.                               *)
MergeIsUnion ==
  LET others == {event \in UNION {Events(subscribed[c]) : c \in Subscriber} : event[1] \in Other}
  IN Events(AllMerged(subscribed)) = Events(StandardList) \cup others

(* When the last list that was sent did not fail, the modem has enabled       *)
(* every event that would be sent on to a client: not sending a list that     *)
(* compares equal never loses one.                                            *)
WantedIsEnabled ==
  confirmed =>
    \A c \in Subscriber : \A event \in Event :
      Forwards(subscribed[c], event) /\ event[1] \in Other => event \in Events(enabled)

=============================================================================
