------------------------------ MODULE MbimProxy ------------------------------
(***************************************************************************)
(* MbimProxy (src/libmbim-glib/mbim-proxy.c): clients connect to a socket, *)
(* configure the port they want, and then share one MbimDevice per port.   *)
(*                                                                         *)
(* Configuring a client may make a device, open it, wait in the queue of   *)
(* an open that another client asked for, or check with a query whether a  *)
(* device that says it is open really is.  In between, the port may hang   *)
(* up, the modem may forget everything, and clients may leave.             *)
(*                                                                         *)
(* Requests answered at once without changing anything (OPEN, CLOSE, the   *)
(* refused configurations) are stuttering steps.  The standard services    *)
(* are in every merged list and are left out of the lists.  (Operators     *)
(* named ...Mutant are wrong on purpose.)                                  *)
(***************************************************************************)
EXTENDS Naturals, FiniteSets

CONSTANTS Client, Device, Request,  \* bounds: slots of each, reused once freed
          Path,                     \* the ports
          Event,                    \* events of services that are not standard
          Version,                  \* versions of the MBIM extensions
          None

ASSUME ProxyAssumption == None \notin Client \cup Device \cup Request \cup Path \cup Version

VARIABLES
  clients,   \* each slot's Client, those no longer in priv->clients included
  devices,   \* each slot's MbimDevice with its OpeningDevice and DeviceContext
  requests,  \* each slot's Request
  modem      \* what is behind each port

proxyVars == <<clients, devices, requests, modem>>

\* conn is "lost" when the peer has closed and the proxy does not know yet, and
\* "gone" when the client was untracked, but a request still refers to it
ClientInfo == [conn           : {"none", "up", "lost", "gone"},
               device         : Device \cup {None},
               config_ongoing : BOOLEAN,
               events         : SUBSET Event,             \* mbim_event_entry_array
               told           : Version \cup {None}]      \* version notified last

\* opens counts the calls of mbim_device_open that did not return; handled says
\* that the modem did its OPEN; opening, that there is an OpeningDevice; unsure
\* is a history variable: the modem may not have the list since the last reset
DeviceInfo == [path    : Path \cup {None},
               tracked : BOOLEAN,                         \* in priv->devices
               status  : {"CLOSED", "OPENING", "OPEN"},
               channel : BOOLEAN,
               opens   : Nat,
               handled : BOOLEAN,
               opening : BOOLEAN,
               events  : SUBSET Event,                    \* DeviceContext
               version : Version \cup {None},             \* PROXY_CONTROL_VERSION
               unsure  : BOOLEAN]

\* stage is what the request waits for; fate, what the modem answers to the
\* message that was sent to the device for it (the answer may be lost)
RequestInfo == [client : Client \cup {None},
                kind   : {"none", "config", "subscribe", "command"},
                stage  : {"none", "device_new", "caps", "opening", "command"},
                path   : Path \cup {None},
                fate   : {"none", "unsent", "answer", "not_opened"}]

Modem == [open : BOOLEAN, events : SUBSET Event]

NoClient == [conn |-> "none", device |-> None, config_ongoing |-> FALSE,
             events |-> {}, told |-> None]

NoDevice == [path |-> None, tracked |-> FALSE, status |-> "CLOSED", channel |-> FALSE,
             opens |-> 0, handled |-> FALSE, opening |-> FALSE, events |-> {},
             version |-> None, unsure |-> FALSE]

NoRequest == [client |-> None, kind |-> "none", stage |-> "none", path |-> None,
              fate |-> "none"]

ProxyTypeOK ==
  /\ clients \in [Client -> ClientInfo]
  /\ devices \in [Device -> DeviceInfo]
  /\ requests \in [Request -> RequestInfo]
  /\ modem \in [Path -> Modem]

ProxyInit ==
  /\ clients = [c \in Client |-> NoClient]
  /\ devices = [d \in Device |-> NoDevice]
  /\ requests = [r \in Request |-> NoRequest]
  /\ modem = [p \in Path |-> [open |-> FALSE, events |-> {}]]

-----------------------------------------------------------------------------
(* The functions of the proxy, from a state S of it to the next one.       *)

World == [clients |-> clients, devices |-> devices, requests |-> requests, modem |-> modem]

\* A dispatch ends in S: clients and devices nobody refers to are freed
Become(S) ==
  LET C == [c \in Client |->
              IF S.clients[c].conn = "gone" /\ \A r \in Request : S.requests[r].client # c
              THEN NoClient ELSE S.clients[c]]
      Held(d) == \/ S.devices[d].tracked \/ S.devices[d].opening \/ S.devices[d].opens > 0
                 \/ \E c \in Client : C[c].device = d
  IN /\ clients' = C
     /\ devices' = [d \in Device |-> IF Held(d) THEN S.devices[d] ELSE NoDevice]
     /\ requests' = S.requests
     /\ modem' = S.modem

Tracked(S, c) == S.clients[c].conn \in {"up", "lost"}     \* in priv->clients

ClientsOf(S, R) == {S.requests[r].client : r \in R}

DeviceOf(S, r) == S.clients[S.requests[r].client].device

\* untrack_client and client_disconnect, for the clients in C
UntrackClients(S, C) ==
  [S EXCEPT !.clients = [c \in Client |->
     IF c \in C /\ Tracked(S, c)
     THEN [@[c] EXCEPT !.conn = "gone", !.events = {}, !.told = None] ELSE @[c]]]

Freed(S, R) ==
  [S EXCEPT !.requests = [r \in Request |-> IF r \in R THEN NoRequest ELSE @[r]]]

\* request_complete_and_free of requests with a response
Respond(S, R) ==
  Freed(UntrackClients(S, {c \in ClientsOf(S, R) : S.clients[c].conn = "lost"}), R)

ConfigReadySilentMutant(S, R, ok) ==
  IF ok
  THEN Respond([S EXCEPT !.clients = [c \in Client |->
                  IF c \in ClientsOf(S, R) THEN [@[c] EXCEPT !.config_ongoing = FALSE] ELSE @[c]]], R)
  ELSE Freed(UntrackClients(S, ClientsOf(S, R)), R)

ConfigReadyKeepsClientMutant(S, R, ok) ==
  IF ok
  THEN Respond([S EXCEPT !.clients = [c \in Client |->
                  IF c \in ClientsOf(S, R) THEN [@[c] EXCEPT !.config_ongoing = FALSE] ELSE @[c]]], R)
  ELSE Freed(S, R)

\* proxy_config_internal_device_open_ready, for the configurations in R
ConfigReady(S, R, ok) ==
  LET told(c) == LET v == S.devices[S.clients[c].device].version
                 IN IF v # None /\ S.clients[c].conn = "up" THEN v ELSE S.clients[c].told
  IN IF ok
     THEN Respond([S EXCEPT !.clients = [c \in Client |->
                     IF c \in ClientsOf(S, R)
                     THEN [@[c] EXCEPT !.config_ongoing = FALSE, !.told = told(c)] ELSE @[c]]], R)
     ELSE Freed(UntrackClients(S, ClientsOf(S, R)), R)

Waiting(S, d) == {r \in Request : S.requests[r].stage = "opening" /\ DeviceOf(S, r) = d}

CompleteOpeningMutant(S, d, ok) ==
  IF S.devices[d].opening
  THEN ConfigReady([S EXCEPT !.devices[d].opening = FALSE],
                   {r \in Waiting(S, d) : \A q \in Waiting(S, d) : S.requests[q].client = S.requests[r].client}, ok)
  ELSE S

\* complete_opening_device, and cancel_opening_device when ~ok
CompleteOpening(S, d, ok) ==
  IF S.devices[d].opening
  THEN ConfigReady([S EXCEPT !.devices[d].opening = FALSE], Waiting(S, d), ok)
  ELSE S

UntrackDeviceMutant(S, d) ==
  IF S.devices[d].tracked
  THEN [CompleteOpening(S, d, FALSE) EXCEPT !.devices[d].tracked = FALSE]
  ELSE S

\* untrack_device
UntrackDevice(S, d) ==
  IF S.devices[d].tracked
  THEN [UntrackClients(CompleteOpening(S, d, FALSE), {c \in Client : S.clients[c].device = d})
          EXCEPT !.devices[d].tracked = FALSE]
  ELSE S

\* mbim_device_close_force
CloseForce(S, d) == [S EXCEPT !.devices[d].status = "CLOSED", !.devices[d].channel = FALSE]

ResetListsMutant(S, d) ==
  [S EXCEPT !.devices[d].unsure = FALSE,
            !.clients = [c \in Client |->
               IF Tracked(S, c) /\ @[c].device = d THEN [@[c] EXCEPT !.events = {}] ELSE @[c]]]

\* reset_client_service_subscribe_lists
ResetLists(S, d) ==
  [S EXCEPT !.devices[d].events = {}, !.devices[d].unsure = FALSE,
            !.clients = [c \in Client |->
               IF Tracked(S, c) /\ @[c].device = d THEN [@[c] EXCEPT !.events = {}] ELSE @[c]]]

\* mbim_device_open: made says whether it got a channel.  It is never called on
\* a device that is open or being opened (OpenedOnce)
DeviceOpen(S, d, made) ==
  [S EXCEPT !.devices[d].status = "OPENING", !.devices[d].channel = made,
            !.devices[d].opens = @ + 1, !.devices[d].handled = FALSE]

InternalOpenMutant(S, r, made) ==
  LET d == DeviceOf(S, r)
  IN DeviceOpen([S EXCEPT !.requests[r].stage = "opening", !.requests[r].fate = "none",
                          !.requests[r].path = None, !.devices[d].opening = TRUE], d, made)

\* internal_open
InternalOpen(S, r, made) ==
  LET d == DeviceOf(S, r)
      T == [S EXCEPT !.requests[r].stage = "opening", !.requests[r].fate = "none",
                       !.requests[r].path = None]
  IN IF S.devices[d].opening THEN T
     ELSE DeviceOpen([T EXCEPT !.devices[d].opening = TRUE], d, made)

\* mbim_device_command: the modem answers what is written to the channel
Fate(S, d) ==
  IF ~S.devices[d].channel THEN "unsent"
  ELSE IF S.modem[S.devices[d].path].open THEN "answer" ELSE "not_opened"

\* internal_device_open
InternalDeviceOpen(S, r) ==
  LET d == DeviceOf(S, r)
  IN IF S.devices[d].status = "OPEN"
     THEN Become([S EXCEPT !.requests[r].stage = "caps", !.requests[r].fate = Fate(S, d),
                           !.requests[r].path = None])
     ELSE \E made \in BOOLEAN : Become(InternalOpen(S, r, made))

\* merge_client_service_subscribe_lists
Merged(S, d) == UNION {S.clients[c].events : c \in {k \in Client : Tracked(S, k) /\ S.clients[k].device = d}}

\* monitor_ms_basic_connect_extensions_version_response
VersionAgreed(S, d, v) ==
  [S EXCEPT !.devices[d].version = v,
            !.clients = [c \in Client |->
               IF @[c].conn = "up" /\ @[c].device = d THEN [@[c] EXCEPT !.told = v] ELSE @[c]]]

-----------------------------------------------------------------------------
(* Clients.                                                                *)

\* incoming_cb
Incoming(c) ==
  /\ clients[c] = NoClient
  /\ Become([World EXCEPT !.clients[c].conn = "up"])

PeerCloses(c) ==
  /\ clients[c].conn = "up"
  /\ Become([World EXCEPT !.clients[c].conn = "lost"])

\* connection_readable_cb with G_IO_HUP
ClientHangup(c) ==
  /\ clients[c].conn = "lost"
  /\ Become(UntrackClients(World, {c}))

Port(p) == {d \in Device : devices[d].tracked /\ devices[d].path = p}   \* peek_device_for_path

\* process_internal_proxy_config, when the request is not refused
Config(c, p) ==
  /\ clients[c].conn = "up"
  /\ ~clients[c].config_ongoing
  /\ clients[c].device = None
  /\ \E r \in Request :
       LET S == [World EXCEPT !.requests[r] =
                   [NoRequest EXCEPT !.client = c, !.kind = "config", !.stage = "device_new", !.path = p]]
       IN /\ requests[r] = NoRequest
          /\ \/ \E d \in Port(p) : InternalDeviceOpen([S EXCEPT !.clients[c].device = d], r)
             \/ /\ Port(p) = {}
                /\ Become([S EXCEPT !.clients[c].config_ongoing = TRUE])

DeviceNewReadyMutant(r) ==
  LET c == requests[r].client
      Made(d) == [World EXCEPT !.clients[c].device = d,
                               !.devices[d] = [NoDevice EXCEPT !.path = requests[r].path, !.tracked = TRUE]]
  IN /\ requests[r].stage = "device_new"
     /\ \/ Become(ConfigReady(World, {r}, FALSE))
        \/ \E d \in Device : devices[d] = NoDevice /\ InternalDeviceOpen(Made(d), r)

\* device_new_ready
DeviceNewReady(r) ==
  LET c == requests[r].client
      p == requests[r].path
      Made(d) == [World EXCEPT !.clients[c].device = d,
                               !.devices[d] = [NoDevice EXCEPT !.path = p, !.tracked = TRUE]]
  IN /\ requests[r].stage = "device_new"
     /\ \/ Become(ConfigReady(World, {r}, FALSE))
        \/ \E d \in Port(p) : InternalDeviceOpen([World EXCEPT !.clients[c].device = d], r)
        \/ /\ Port(p) = {}
           /\ \E d \in Device : devices[d] = NoDevice /\ InternalDeviceOpen(Made(d), r)

\* process_command.  A client sends commands once it has a device.
Command(c) ==
  /\ clients[c].conn = "up"
  /\ clients[c].device # None
  /\ \E r \in Request :
       /\ requests[r] = NoRequest
       /\ Become([World EXCEPT !.requests[r] =
                    [NoRequest EXCEPT !.client = c, !.kind = "command", !.stage = "command",
                                      !.fate = Fate(World, clients[c].device)]])

\* process_device_service_subscribe_list
Subscribe(c, events) ==
  LET S == [World EXCEPT !.clients[c].events = events]
      d == clients[c].device
      merged == Merged(S, d)
      Written(r, done) ==
        [S EXCEPT !.devices[d].events = merged,
                  !.devices[d].unsure = @ \/ ~done \/ devices[d].status # "OPEN",
                  !.modem = IF done THEN [@ EXCEPT ![devices[d].path].events = merged] ELSE @,
                  !.requests[r] = [NoRequest EXCEPT !.client = c, !.kind = "subscribe",
                                                    !.stage = "command", !.fate = Fate(S, d)]]
  IN /\ clients[c].conn = "up"
     /\ d # None
     /\ \/ merged = devices[d].events /\ Become(S)
        \/ /\ merged # devices[d].events
           /\ \E r \in Request : \E done \in BOOLEAN :
                /\ requests[r] = NoRequest
                /\ done => Fate(S, d) = "answer"
                /\ Become(Written(r, done))

-----------------------------------------------------------------------------
(* The devices.                                                            *)

DeviceOpenReadyMutant(d) ==
  LET D == devices[d]
      Ended(status) == [World EXCEPT !.devices[d].status = status,
                                     !.devices[d].opens = @ - 1, !.devices[d].handled = FALSE]
  IN \/ /\ D.handled /\ D.channel
        /\ Become(CompleteOpening(Ended("OPEN"), d, TRUE))
     \/ Become(UntrackDevice(CompleteOpening(Ended("CLOSED"), d, FALSE), d))

\* device_open_ready
DeviceOpenReady(d) ==
  LET D == devices[d]
      Ended(status) == [World EXCEPT !.devices[d].status = status,
                                     !.devices[d].opens = @ - 1, !.devices[d].handled = FALSE]
  IN /\ D.opens > 0
     /\ \/ /\ D.handled /\ D.channel
           /\ Become(CompleteOpening(Ended("OPEN"), d, TRUE))
        \/ Become(UntrackDevice(CompleteOpening(Ended("CLOSED"), d, FALSE), d))

\* internal_device_open_caps_query_ready
CapsQueryReady(r) ==
  LET d == DeviceOf(World, r)
      closed == CloseForce(ResetLists(World, d), d)
  IN /\ requests[r].stage = "caps"
     /\ \/ Become(ConfigReady(World, {r}, TRUE))          \* any other outcome
        \/ /\ requests[r].fate = "not_opened" /\ devices[d].channel
           /\ \E made \in BOOLEAN : Become(InternalOpen(closed, r, made))

\* A FUNCTION_ERROR NOT_OPENED ends its dispatch: proxy_device_error_cb
DeviceError(S, d) == IF S.devices[d].tracked THEN CloseForce(ResetLists(S, d), d) ELSE S

\* device_command_ready and device_service_subscribe_list_set_ready
CommandReady(r) ==
  LET R == requests[r]
      d == DeviceOf(World, r)
  IN /\ R.stage = "command"
     /\ \/ R.fate = "unsent" /\ Become(Respond(World, {r}))     \* proxy-generated NOT_OPENED
        \/ R.fate # "unsent" /\ Become(Freed(World, {r}))       \* timed out: no response
        \/ /\ R.fate = "answer" /\ devices[d].channel
           /\ \/ Become(Respond(World, {r}))
              \/ /\ R.kind = "command"                   \* the version was negotiated
                 /\ \E v \in Version : Become(Respond(VersionAgreed(World, d, v), {r}))
        \/ /\ R.fate = "not_opened" /\ devices[d].channel
           /\ Become(DeviceError(Respond(World, {r}), d))

\* proxy_device_error_cb, for a FUNCTION_ERROR NOT_OPENED that matches no request,
\* which the modem may have sent before it was opened again
ErrorReported(d) ==
  /\ devices[d].channel
  /\ Become(DeviceError(World, d))

\* The port hangs up: proxy_device_removed_cb
DeviceRemoved(d) ==
  /\ devices[d].channel
  /\ Become(UntrackDevice(CloseForce(World, d), d))

\* The modem does the OPEN of an open operation
ModemOpens(d) ==
  /\ devices[d].opens > 0 /\ devices[d].channel
  /\ Become([World EXCEPT
       !.devices = [e \in Device |->
          IF e = d THEN [@[e] EXCEPT !.handled = TRUE]
          ELSE [@[e] EXCEPT !.unsure = devices[e].unsure \/ devices[e].path = devices[d].path]],
       !.modem[devices[d].path] = [open |-> TRUE, events |-> {}]])

\* The modem restarts or is closed by somebody else
ModemResets(p) ==
  /\ modem[p].open
  /\ Become([World EXCEPT !.modem[p] = [open |-> FALSE, events |-> {}]])

-----------------------------------------------------------------------------
ProxyNext ==
  \/ \E c \in Client : \/ Incoming(c)
                       \/ PeerCloses(c)
                       \/ ClientHangup(c)
                       \/ \E p \in Path : Config(c, p)
                       \/ Command(c)
                       \/ \E events \in SUBSET Event : Subscribe(c, events)
  \/ \E r \in Request : DeviceNewReady(r) \/ CapsQueryReady(r) \/ CommandReady(r)
  \/ \E d \in Device : DeviceOpenReady(d) \/ ErrorReported(d) \/ DeviceRemoved(d) \/ ModemOpens(d)
  \/ \E p \in Path : ModemResets(p)

ProxySpec == ProxyInit /\ [][ProxyNext]_proxyVars

-----------------------------------------------------------------------------
(* Properties.                                                             *)

\* Two clients that create a device for one port at once end up sharing one:
\* the proxy never keeps two devices for a port.
OneDevicePerPort ==
  \A d, e \in Device : devices[d].tracked /\ devices[e].tracked /\ devices[d].path = devices[e].path => d = e

\* "We must make sure the proxy only does this once, even when multiple clients
\* request it": a device is not opened while it is being opened, and whoever
\* waits in its queue waits for an open that is under way.
OpenedOnce ==
  \A d \in Device : /\ devices[d].opens <= 1
                    /\ devices[d].opening => devices[d].opens = 1
                    /\ Waiting(World, d) # {} => devices[d].opening

\* A client that is connected is never left with a device that the proxy has
\* dropped, whichever of its requests were under way when that happened.
ServedByTracked ==
  \A c \in Client : Tracked(World, c) /\ clients[c].device # None => devices[clients[c].device].tracked

\* A client that the proxy calls busy has a configuration that will answer it.
BusyIsConfiguring ==
  \A c \in Client : Tracked(World, c) /\ clients[c].config_ongoing =>
    \E r \in Request : requests[r].client = c /\ requests[r].kind = "config"

\* The clients of an open device find all they subscribed to in the merged
\* list, and the modem has that list, unless a request to set it failed or was
\* made while the device was not open, or a dropped device opened the port too.
SubscribedInModem ==
  \A d \in Device :
    LET D == devices[d]
    IN D.tracked =>
         /\ Merged(World, d) \subseteq D.events
         /\ D.status = "OPEN" /\ ~D.unsure /\ modem[D.path].open => modem[D.path].events = D.events

\* "Current version support is propagated to all clients of the proxy" (NEWS): who
\* is configured knows the version agreed last, by whomever.
VersionKnown ==
  \A c \in Client :
    /\ clients[c].conn = "up" /\ clients[c].device # None
    /\ \A r \in Request : ~(requests[r].client = c /\ requests[r].kind = "config")
    => clients[c].told = devices[clients[c].device].version

=============================================================================
