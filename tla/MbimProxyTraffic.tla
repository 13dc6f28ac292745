-------------------------- MODULE MbimProxyTraffic --------------------------
(* What MbimProxy and one device of its clients exchange: the commands of the *)
(* clients and the proxy's own requests for the merged list of events, which  *)
(* take their transaction ids from one counter and meet in one table.         *)
EXTENDS MbimForwarding, MbimSubscriptions

CONSTANT Loads   \* bound: commands of each client, requests for lists, the next id

ASSUME TrafficAssumption ==
  /\ Subscriber = Client
  /\ \A load \in Loads : /\ load.commands \in [Client -> Seq(Nat \ {0})]
                         /\ load.requests \in 0..MaxRequests
                         /\ load.id \in Id

trafficVars == <<forwardingVars, subscriptionVars>>

TrafficInit ==
  /\ \E load \in Loads : /\ commands = load.commands
                         /\ made = MaxRequests - load.requests
                         /\ transaction_id = load.id
  /\ ForwardingInit
  /\ SubscriptionsInit

(* The request for the merged list, when there is one, is a message of one    *)
(* fragment; the modem may refuse it, or it may be lost.                      *)
ListSent(taken) ==
  IF NotUpdated THEN UNCHANGED forwardingVars
  ELSE /\ \E reaches \in BOOLEAN : /\ taken => open /\ reaches
                                   /\ CommandSent(Message(Proxy, transaction_id, 1)[1], reaches)
       /\ UNCHANGED <<unread, delivered>>

Subscribe ==
  \E taken \in BOOLEAN :
    /\ \/ \E c \in Client, list \in Lists : SubscribeList(c, list, taken)
       \/ SubscribeInvalid(taken)
    /\ ListSent(taken)

(* A client that sends no commands goes and another one comes.                *)
Replace ==
  /\ \E i \in DOMAIN clients : commands[clients[i]] = << >> /\ ClientReplaced(i)
  /\ UNCHANGED forwardingVars

Forward ==
  /\ ProcessCommand \/ DeviceCommandReady \/ RequestTimedOut \/ DeviceReopens
  /\ UNCHANGED subscriptionVars

(* proxy_device_error_cb(), internal_device_open_caps_query_ready()           *)
NotOpened == DeviceCloses /\ ResetLists

TrafficNext == Forward \/ Subscribe \/ Replace \/ NotOpened

TrafficSpec == TrafficInit /\ [][TrafficNext]_trafficVars

-----------------------------------------------------------------------------
(* Tasks, ids and lists are what they may be (see the parts): every task in   *)
(* the table can still be timed out, and a list the proxy believes the modem  *)
(* has is the modem's unless a request for it failed.                         *)
TrafficTypeOK == ForwardingTypes /\ SubscriptionsTypes

=============================================================================
