---------------------------- MODULE MbimProxyMain ----------------------------
(***************************************************************************)
(* The mbim-proxy daemon (src/mbim-proxy/mbim-proxy.c): it runs MbimProxy, *)
(* is notified of each change of its number of clients and of devices, and *)
(* stops the main loop when its timer fires.  Run without --no-exit.       *)
(* (Operators named ...Mutant are wrong on purpose.)                       *)
(***************************************************************************)
EXTENDS MbimProxy

VARIABLES
  timeout_id,             \* the timer is armed
  client_connected_once,
  stopped,                \* the main loop has quit
  asserted                \* g_assert (timeout_id == 0) failed

mainVars == <<timeout_id, client_connected_once, stopped, asserted>>
allVars  == <<proxyVars, mainVars>>

MainTypeOK == /\ ProxyTypeOK
              /\ timeout_id \in BOOLEAN /\ client_connected_once \in BOOLEAN
              /\ stopped \in BOOLEAN /\ asserted \in BOOLEAN

NoClients == \A c \in Client : ~Tracked(World, c)         \* mbim_proxy_get_n_clients
NoDevices == \A d \in Device : ~devices[d].tracked        \* mbim_proxy_get_n_devices

\* main: the first call of proxy_n_clients_changed arms the timer
MainInit ==
  /\ ProxyInit
  /\ timeout_id = TRUE
  /\ client_connected_once = FALSE
  /\ stopped = FALSE
  /\ asserted = FALSE

ClientsChanged == \E c \in Client : Tracked(World, c) # Tracked(World, c)'
DevicesChanged == \E d \in Device : devices[d].tracked # devices[d].tracked'

\* proxy_n_clients_changed and proxy_n_devices_changed, called in this order by
\* every handler that changes both.  Counting clients stops with the first one,
\* so nothing is armed by a client that leaves.
NotifiedMutant ==
  LET first == ClientsChanged /\ ~client_connected_once
  IN /\ client_connected_once' = (client_connected_once \/ first)
     /\ timeout_id' = ((timeout_id /\ ~first) \/ (DevicesChanged /\ NoDevices'))
     /\ asserted' = (asserted \/ (timeout_id /\ ~first /\ DevicesChanged /\ NoDevices'))
     /\ UNCHANGED stopped

NotifiedKeepsTimerMutant ==
  LET first == ClientsChanged /\ ~client_connected_once
  IN /\ client_connected_once' = (client_connected_once \/ first)
     /\ timeout_id' = (timeout_id \/ (DevicesChanged /\ NoDevices'))
     /\ UNCHANGED <<stopped, asserted>>

Notified ==
  LET first == ClientsChanged /\ ~client_connected_once
  IN /\ client_connected_once' = (client_connected_once \/ first)
     /\ timeout_id' = IF DevicesChanged THEN NoDevices' ELSE timeout_id /\ ~first
     /\ asserted' = (asserted \/ (timeout_id /\ ~first /\ DevicesChanged /\ NoDevices'))
     /\ UNCHANGED stopped

\* stop_loop_cb
StopLoop ==
  /\ ~stopped
  /\ timeout_id
  /\ timeout_id' = FALSE
  /\ stopped' = TRUE
  /\ UNCHANGED <<proxyVars, client_connected_once, asserted>>

Runs(A) == ~stopped /\ A /\ Notified

MainNext == Runs(ProxyNext) \/ StopLoop

MainSpec == MainInit /\ [][MainNext]_allVars

\* GLib dispatches what stays ready: the end of a connection, the callback of a
\* request or of an open operation, which a timer ends at the latest
MainFairness ==
  /\ \A c \in Client : WF_allVars(Runs(ClientHangup(c)))
  /\ \A r \in Request : /\ WF_allVars(Runs(DeviceNewReady(r)))
                        /\ WF_allVars(Runs(CapsQueryReady(r)))
                        /\ WF_allVars(Runs(CommandReady(r)))
  /\ \A d \in Device : WF_allVars(Runs(DeviceOpenReady(d)))
  /\ WF_allVars(StopLoop)

MainFairSpec == MainSpec /\ MainFairness

-----------------------------------------------------------------------------
(* Properties.                                                             *)

\* g_assert (timeout_id == 0) never fails: the timer is not armed twice, in
\* whatever order clients and devices come and go.
ArmedOnce == ~asserted

\* The daemon never quits on a device in use: its timer is disarmed by then.
ExitsWithoutDevices == [][stopped' /\ ~stopped => NoDevices]_allVars

\* Every configuration ends, unless the daemon does.
ConfigEndsOrExits ==
  \A r \in Request : requests[r].kind = "config" ~> (requests[r].kind # "config" \/ stopped)

=============================================================================
