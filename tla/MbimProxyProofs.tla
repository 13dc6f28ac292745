-------------------------- MODULE MbimProxyProofs --------------------------
(***************************************************************************)
(* The safety of MbimProxy and of the daemon that runs it, proved for any  *)
(* number of clients, devices, requests, ports, events and versions.       *)
(*                                                                         *)
(* The inductive invariant is stated of a World, so that it can be carried *)
(* through the functions of the proxy one after the other: WorldInv(S, X)  *)
(* holds between two of them while the devices in X still have to be       *)
(* settled.  There is a lemma for each function, then one for the end of a *)
(* dispatch (Become), then one for each action.                            *)
(***************************************************************************)
EXTENDS MbimProxyMain, TLAPS

Worlds == [clients  : [Client -> ClientInfo],
           devices  : [Device -> DeviceInfo],
           requests : [Request -> RequestInfo],
           modem    : [Path -> Modem]]

(* A request refers to a client, which has a device, but while the device is  *)
(* being made; a client has one configuration at a time.                      *)
RequestOK(S, r) ==
  LET R == S.requests[r]
      C == S.clients[R.client]
  IN /\ R.client = None => R = NoRequest
     /\ R.client # None =>
          /\ C.conn # "none"
          /\ R.stage # "none"
          /\ R.kind = "config" <=> R.stage \in {"device_new", "caps", "opening"}
          /\ R.stage = "device_new" => R.path # None /\ C.device = None /\ C.config_ongoing
          /\ R.stage # "device_new" => C.device # None

IsConfig(S, r, c) == S.requests[r].client = c /\ S.requests[r].kind = "config"
OneConfig(S) ==
  \A r, q \in Request : \A c \in Client : IsConfig(S, r, c) /\ IsConfig(S, q, c) => r = q

(* A client that is tracked has a tracked device, if it has one; it is told   *)
(* nothing but the version of its device, and that one when it is configured. *)
ClientOK(S, c) ==
  LET C == S.clients[c]
      Configuring == \E r \in Request : IsConfig(S, r, c)
  IN /\ C.conn = "none" => C = NoClient
     /\ C.device = None => C.events = {} /\ C.told = None
     /\ C.device # None => S.devices[C.device].path # None
     /\ Tracked(S, c) /\ C.device # None => S.devices[C.device].tracked
     /\ Tracked(S, c) /\ C.config_ongoing => Configuring
     /\ C.conn = "up" /\ C.device # None =>
          \/ C.told = S.devices[C.device].version
          \/ C.told = None /\ Configuring

(* The modem has the list, also while the device is opened again, from when   *)
(* it did the OPEN.                                                           *)
DeviceOK(S, d) ==
  LET D == S.devices[d]
  IN /\ D.path = None => D = NoDevice
     /\ D.tracked => Merged(S, d) \subseteq D.events
     /\ D.tracked /\ ~D.unsure /\ S.modem[D.path].open
        /\ (D.status = "OPEN" \/ (D.handled /\ D.channel))
        => S.modem[D.path].events = D.events
OnePerPort(S) ==
  \A d, e \in Device : S.devices[d].tracked /\ S.devices[e].tracked
                       /\ S.devices[d].path = S.devices[e].path => d = e

(* An open operation has its queue, or the device was dropped meanwhile.      *)
Settled(S, d) ==
  LET D == S.devices[d]
  IN /\ D.opens <= 1
     /\ D.opening => D.opens = 1
     /\ D.opens = 1 /\ ~D.opening => ~D.channel /\ ~D.tracked
     /\ Waiting(S, d) # {} => D.opening
     /\ D.opens = 1 => D.status # "OPEN"
     /\ D.tracked /\ D.status # "OPEN" => D.events = {} \/ D.unsure

(* A function of the code may leave the devices in X to be settled by another *)
WorldInv(S, X) == /\ S \in Worlds
                  /\ OneConfig(S) /\ OnePerPort(S)
                  /\ \A r \in Request : RequestOK(S, r)
                  /\ \A c \in Client : ClientOK(S, c)
                  /\ \A d \in Device : DeviceOK(S, d) /\ (d \notin X => Settled(S, d))
ProxyIInv == WorldInv(World, {})

-----------------------------------------------------------------------------
(* The functions of the proxy keep the invariant.                          *)

LEMMA Members ==
  ASSUME NEW S \in Worlds
  PROVE  /\ \A c \in Client : S.clients[c] \in ClientInfo
         /\ \A d \in Device : S.devices[d] \in DeviceInfo
         /\ \A r \in Request : S.requests[r] \in RequestInfo
         /\ \A p \in Path : S.modem[p] \in Modem
BY DEF Worlds

LEMMA RequestFields ==
  ASSUME NEW S, NEW X, WorldInv(S, X), NEW r \in Request
  PROVE  /\ S.requests[r].client \in Client \cup {None}
         /\ S.requests[r].stage # "none" => S.requests[r].client \in Client
         /\ S.requests[r].kind # "none" => S.requests[r].client \in Client
<1>1. S.requests[r] \in RequestInfo
  BY Members DEF WorldInv
<1>2. S.requests[r].client = None => S.requests[r] = NoRequest
  BY DEF WorldInv, RequestOK
<1> QED BY <1>1, <1>2 DEF RequestInfo, NoRequest

(* A step that changes nothing but the clients, and takes nothing from them   *)
(* that a request or a device relies on.                                      *)
LEMMA ClientsChange ==
  ASSUME NEW S, NEW X, WorldInv(S, X), NEW T \in Worlds,
         T.devices = S.devices, T.requests = S.requests, T.modem = S.modem,
         \A c \in Client : /\ T.clients[c].device = S.clients[c].device
                           /\ T.clients[c].events \subseteq S.clients[c].events
                           /\ S.clients[c].conn # "none" => T.clients[c].conn # "none"
                           /\ Tracked(T, c) => Tracked(S, c)
                           /\ ClientOK(T, c),
         \A r \in Request : S.requests[r].stage = "device_new" =>
           T.clients[S.requests[r].client].config_ongoing
             = S.clients[S.requests[r].client].config_ongoing
  PROVE  WorldInv(T, X)
<1>1. OneConfig(T) /\ OnePerPort(T)
  BY DEF WorldInv, OneConfig, OnePerPort, IsConfig
<1>2. ASSUME NEW r \in Request PROVE RequestOK(T, r)
  <2>1. RequestOK(S, r) /\ S.requests[r].client \in Client \cup {None}
    BY RequestFields DEF WorldInv
  <2> QED BY <2>1 DEF RequestOK
<1>3. ASSUME NEW d \in Device PROVE DeviceOK(T, d)
  <2>1. Merged(T, d) \subseteq Merged(S, d)
    BY DEF Merged
  <2> QED BY <2>1 DEF WorldInv, DeviceOK
<1>4. ASSUME NEW d \in Device PROVE Waiting(T, d) = Waiting(S, d)
  BY RequestFields DEF Waiting, DeviceOf
<1>5. ASSUME NEW d \in Device, d \notin X PROVE Settled(T, d)
  BY <1>4, <1>5 DEF WorldInv, Settled
<1> QED BY <1>1, <1>2, <1>3, <1>5 DEF WorldInv

LEMMA UntrackClientsKeeps ==
  ASSUME NEW S, NEW X, WorldInv(S, X), NEW C
  PROVE  LET T == UntrackClients(S, C)
         IN /\ WorldInv(T, X)
            /\ T.devices = S.devices /\ T.requests = S.requests /\ T.modem = S.modem
            /\ \A c \in Client : /\ T.clients[c].device = S.clients[c].device
                                 /\ Tracked(T, c) <=> Tracked(S, c) /\ c \notin C
                                 /\ Tracked(T, c) => T.clients[c] = S.clients[c]
<1> DEFINE T == UntrackClients(S, C)
           Gone(c) == [S.clients[c] EXCEPT !.conn = "gone", !.events = {}, !.told = None]
<1>1. S \in Worlds
  BY DEF WorldInv
<1>2. \A c \in Client : S.clients[c] \in ClientInfo
  BY <1>1, Members
<1>3. ASSUME NEW c \in Client
      PROVE  /\ Gone(c) \in ClientInfo /\ Gone(c).conn = "gone" /\ Gone(c).events = {}
             /\ Gone(c).told = None /\ Gone(c).device = S.clients[c].device
             /\ Gone(c).config_ongoing = S.clients[c].config_ongoing
  BY <1>2 DEF ClientInfo
<1>4. /\ T.clients = [c \in Client |-> IF c \in C /\ Tracked(S, c) THEN Gone(c) ELSE S.clients[c]]
      /\ T.devices = S.devices /\ T.requests = S.requests /\ T.modem = S.modem
  BY <1>1 DEF UntrackClients, Worlds
<1>5. T \in Worlds
  <2>1. T.clients \in [Client -> ClientInfo]
    BY <1>2, <1>3, <1>4
  <2> QED BY <1>1, <2>1 DEF UntrackClients, Worlds
<1> HIDE DEF T, Gone
<1>6. \A c \in Client : /\ T.clients[c].device = S.clients[c].device
                        /\ T.clients[c].events \subseteq S.clients[c].events
                        /\ S.clients[c].conn # "none" => T.clients[c].conn # "none"
                        /\ Tracked(T, c) <=> Tracked(S, c) /\ c \notin C
                        /\ Tracked(T, c) => T.clients[c] = S.clients[c]
                        /\ T.clients[c].config_ongoing = S.clients[c].config_ongoing
  BY <1>3, <1>4 DEF Tracked
<1>7. ASSUME NEW c \in Client PROVE ClientOK(T, c)
  <2>1. ClientOK(S, c)
    BY DEF WorldInv
  <2>2. CASE c \in C /\ Tracked(S, c)
    <3>1. T.clients[c] = Gone(c) /\ ~Tracked(T, c)
      BY <1>4, <1>6, <2>2
    <3> QED BY <1>3, <1>4, <2>1, <3>1 DEF ClientOK
  <2>3. CASE ~(c \in C /\ Tracked(S, c))
    <3>1. T.clients[c] = S.clients[c] /\ (Tracked(T, c) <=> Tracked(S, c))
      BY <1>4, <1>6, <2>3
    <3> QED BY <1>4, <2>1, <3>1 DEF ClientOK, IsConfig
  <2> QED BY <2>2, <2>3
<1>8. \A r \in Request : S.requests[r].stage = "device_new" =>
        T.clients[S.requests[r].client].config_ongoing
          = S.clients[S.requests[r].client].config_ongoing
  BY <1>6, RequestFields
<1>9. WorldInv(T, X)
  BY <1>4, <1>5, <1>6, <1>7, <1>8, ClientsChange
<1> QED BY <1>4, <1>6, <1>9 DEF T

(* From S to T, requests were answered: clients may have been dropped.        *)
Answered(S, T, R) ==
  /\ T.devices = S.devices /\ T.modem = S.modem
  /\ \A c \in Client : /\ T.clients[c].device = S.clients[c].device
                       /\ Tracked(T, c) => Tracked(S, c)
                       /\ Tracked(T, c) => T.clients[c].events = S.clients[c].events
  /\ \A r \in Request : T.requests[r] = IF r \in R THEN NoRequest ELSE S.requests[r]

(* A configuration may be freed when its client has been told of its end.     *)
MayFree(S, r) ==
  LET C == S.clients[S.requests[r].client]
  IN S.requests[r].kind = "config" =>
       /\ Tracked(S, S.requests[r].client) => ~C.config_ongoing
       /\ C.conn = "up" /\ C.device # None => C.told = S.devices[C.device].version

LEMMA NoRequestType == NoRequest \in RequestInfo
BY DEF NoRequest, RequestInfo

LEMMA FreedKeeps ==
  ASSUME NEW S, NEW X, WorldInv(S, X), NEW R \in SUBSET Request, \A r \in R : MayFree(S, r)
  PROVE  LET T == Freed(S, R)
         IN WorldInv(T, X) /\ Answered(S, T, R) /\ T.clients = S.clients
<1> DEFINE T == Freed(S, R)
<1>1. S \in Worlds
  BY DEF WorldInv
<1>2. /\ T.requests = [r \in Request |-> IF r \in R THEN NoRequest ELSE S.requests[r]]
      /\ T.clients = S.clients /\ T.devices = S.devices /\ T.modem = S.modem
  BY <1>1 DEF Freed, Worlds
<1>3. T \in Worlds
  <2>1. T.requests \in [Request -> RequestInfo]
    BY <1>1, <1>2, NoRequestType, Members
  <2> QED BY <1>1, <2>1 DEF Freed, Worlds
<1> HIDE DEF T
<1>4. \A c \in Client : Tracked(T, c) <=> Tracked(S, c)
  BY <1>2 DEF Tracked
<1>5. \A r \in Request : \/ r \in R /\ T.requests[r] = NoRequest
                         \/ r \notin R /\ T.requests[r] = S.requests[r]
  BY <1>2
<1>6. None \notin Client /\ NoRequest.client = None /\ NoRequest.kind = "none"
      /\ NoRequest.stage = "none"
  BY ProxyAssumption DEF NoRequest
<1>7. \A r \in Request, c \in Client : IsConfig(T, r, c) <=> IsConfig(S, r, c) /\ r \notin R
  BY <1>5, <1>6 DEF IsConfig
<1>8. OneConfig(T) /\ OnePerPort(T)
  BY <1>2, <1>7 DEF WorldInv, OneConfig, OnePerPort
<1>9. ASSUME NEW r \in Request PROVE RequestOK(T, r)
  BY <1>2, <1>5, <1>6 DEF WorldInv, RequestOK
<1>10. ASSUME NEW c \in Client PROVE ClientOK(T, c)
  <2>1. ClientOK(S, c)
    BY DEF WorldInv
  <2>2. ASSUME NEW r \in R, IsConfig(S, r, c)
        PROVE  /\ Tracked(S, c) => ~S.clients[c].config_ongoing
               /\ S.clients[c].conn = "up" /\ S.clients[c].device # None
                  => S.clients[c].told = S.devices[S.clients[c].device].version
    BY <2>2 DEF MayFree, IsConfig
  <2>3. \A r \in Request : IsConfig(S, r, c) => IsConfig(T, r, c) \/ r \in R
    BY <1>7
  <2> QED BY <1>2, <1>4, <2>1, <2>2, <2>3 DEF ClientOK
<1>11. ASSUME NEW d \in Device PROVE DeviceOK(T, d)
  <2>1. Merged(T, d) = Merged(S, d)
    BY <1>2, <1>4 DEF Merged
  <2> QED BY <1>2, <2>1 DEF WorldInv, DeviceOK
<1>12. ASSUME NEW d \in Device, d \notin X PROVE Settled(T, d)
  <2>1. Waiting(T, d) \subseteq Waiting(S, d)
    BY <1>2, <1>5, <1>6 DEF Waiting, DeviceOf
  <2> QED BY <1>2, <1>12, <2>1 DEF WorldInv, Settled
<1>13. Answered(S, T, R)
  BY <1>2, <1>4 DEF Answered
<1> QED BY <1>2, <1>3, <1>8, <1>9, <1>10, <1>11, <1>12, <1>13 DEF WorldInv, T

LEMMA RespondKeeps ==
  ASSUME NEW S, NEW X, WorldInv(S, X), NEW R \in SUBSET Request, \A r \in R : MayFree(S, r)
  PROVE  LET T == Respond(S, R) IN WorldInv(T, X) /\ Answered(S, T, R)
<1> DEFINE C == {c \in ClientsOf(S, R) : S.clients[c].conn = "lost"}
           U == UntrackClients(S, C)
           T == Freed(U, R)
<1>1. /\ WorldInv(U, X) /\ U.devices = S.devices /\ U.requests = S.requests /\ U.modem = S.modem
      /\ \A c \in Client : /\ U.clients[c].device = S.clients[c].device
                           /\ Tracked(U, c) <=> Tracked(S, c) /\ c \notin C
                           /\ Tracked(U, c) => U.clients[c] = S.clients[c]
  BY UntrackClientsKeeps
<1>2. T = Respond(S, R)
  BY DEF Respond
<1> HIDE DEF C, U, T
<1>3. ASSUME NEW r \in R PROVE MayFree(U, r)
  <2>1. MayFree(S, r)
    OBVIOUS
  <2>2. S.requests[r].kind = "config" => S.requests[r].client \in Client
    BY RequestFields
  <2>3. \A c \in Client : U.clients[c].conn = "up" => Tracked(U, c)
    BY DEF Tracked
  <2> QED BY <1>1, <2>1, <2>2, <2>3 DEF MayFree
<1>4. WorldInv(T, X) /\ Answered(U, T, R) /\ T.clients = U.clients
  BY <1>1, <1>3, FreedKeeps DEF T
<1>5. Answered(S, T, R)
  BY <1>1, <1>4 DEF Answered, Tracked
<1> QED BY <1>2, <1>4, <1>5

(* proxy_config_internal_device_open_ready(): all of them are answered.       *)
LEMMA ConfigReadyKeeps ==
  ASSUME NEW S, NEW X, WorldInv(S, X), NEW R \in SUBSET Request, NEW ok \in BOOLEAN,
         \A r \in R : /\ S.requests[r].kind = "config"
                      /\ ok => S.requests[r].stage # "device_new"
  PROVE  LET T == ConfigReady(S, R, ok) IN WorldInv(T, X) /\ Answered(S, T, R)
<1>1. S \in Worlds
  BY DEF WorldInv
<1>2. \A r \in R : S.requests[r].client \in Client
  BY RequestFields
<1>3. CASE ~ok
  <2> DEFINE U == UntrackClients(S, ClientsOf(S, R))
             T == Freed(U, R)
  <2>1. /\ WorldInv(U, X) /\ U.devices = S.devices /\ U.requests = S.requests /\ U.modem = S.modem
        /\ \A c \in Client : /\ U.clients[c].device = S.clients[c].device
                             /\ Tracked(U, c) <=> Tracked(S, c) /\ c \notin ClientsOf(S, R)
                             /\ Tracked(U, c) => U.clients[c] = S.clients[c]
    BY UntrackClientsKeeps
  <2>2. T = ConfigReady(S, R, ok)
    BY <1>3 DEF ConfigReady
  <2> HIDE DEF U, T
  <2>3. ASSUME NEW r \in R PROVE MayFree(U, r)
    <3>1. ~Tracked(U, S.requests[r].client)
      BY <1>2, <2>1 DEF ClientsOf
    <3> QED BY <2>1, <3>1 DEF MayFree, Tracked
  <2>4. WorldInv(T, X) /\ Answered(U, T, R) /\ T.clients = U.clients
    BY <2>1, <2>3, FreedKeeps DEF T
  <2>5. Answered(S, T, R)
    BY <2>1, <2>4 DEF Answered, Tracked
  <2> QED BY <2>2, <2>4, <2>5
<1>4. CASE ok
  <2> DEFINE version(c) == S.devices[S.clients[c].device].version
             told(c) == IF version(c) # None /\ S.clients[c].conn = "up" THEN version(c)
                        ELSE S.clients[c].told
             Done(c) == [S.clients[c] EXCEPT !.config_ongoing = FALSE, !.told = told(c)]
             U == [S EXCEPT !.clients = [c \in Client |->
                     IF c \in ClientsOf(S, R)
                     THEN [@[c] EXCEPT !.config_ongoing = FALSE, !.told = told(c)]
                     ELSE @[c]]]
             T == Respond(U, R)
  <2>1. T = ConfigReady(S, R, ok)
    BY <1>4 DEF ConfigReady
  <2>2. \A c \in ClientsOf(S, R) : \E r \in R : S.requests[r].client = c
    BY DEF ClientsOf
  <2>3. ASSUME NEW c \in ClientsOf(S, R)
        PROVE  /\ c \in Client /\ S.clients[c].conn # "none"
               /\ S.clients[c].device \in Device
               /\ told(c) \in Version \cup {None}
               /\ S.clients[c].conn = "up" => told(c) = version(c)
    <3>1. PICK r \in R : S.requests[r].client = c
      BY <2>2
    <3>2. c \in Client /\ c # None
      BY <1>2, <3>1, ProxyAssumption
    <3>3. /\ S.clients[c] \in ClientInfo
          /\ S.clients[c].conn # "none" /\ S.clients[c].device # None
      BY <1>1, <1>4, <3>1, <3>2, Members DEF WorldInv, RequestOK
    <3>4. S.clients[c].device \in Device /\ S.clients[c].told \in Version \cup {None}
      BY <3>3 DEF ClientInfo
    <3>5. version(c) \in Version \cup {None}
      BY <1>1, <3>4, Members DEF DeviceInfo
    <3>6. S.clients[c].conn = "up" => S.clients[c].told = version(c) \/ S.clients[c].told = None
      BY <3>2, <3>3 DEF WorldInv, ClientOK
    <3> QED BY <3>2, <3>3, <3>4, <3>5, <3>6
  <2>4. ASSUME NEW c \in ClientsOf(S, R)
        PROVE  /\ Done(c) \in ClientInfo /\ Done(c).conn = S.clients[c].conn
               /\ Done(c).device = S.clients[c].device /\ Done(c).events = S.clients[c].events
               /\ Done(c).config_ongoing = FALSE /\ Done(c).told = told(c)
    <3>1. S.clients[c] \in ClientInfo /\ told(c) \in Version \cup {None}
      BY <1>1, <2>3, Members
    <3> HIDE DEF told
    <3> QED BY <3>1 DEF ClientInfo
  <2>5. /\ U.clients = [c \in Client |-> IF c \in ClientsOf(S, R) THEN Done(c) ELSE S.clients[c]]
        /\ U.devices = S.devices /\ U.requests = S.requests /\ U.modem = S.modem
    BY <1>1 DEF Worlds
  <2>6. U \in Worlds
    <3>1. U.clients \in [Client -> ClientInfo]
      <4> HIDE DEF U, Done
      <4> QED BY <1>1, <2>4, <2>5, Members
    <3> QED BY <1>1, <3>1 DEF Worlds
  <2> HIDE DEF U, Done
  <2>7. \A c \in Client : /\ U.clients[c].device = S.clients[c].device
                          /\ U.clients[c].events = S.clients[c].events
                          /\ U.clients[c].conn = S.clients[c].conn
                          /\ Tracked(U, c) <=> Tracked(S, c)
    BY <2>4, <2>5 DEF Tracked
  <2>8. ASSUME NEW c \in Client PROVE ClientOK(U, c)
    <3>1. ClientOK(S, c)
      BY DEF WorldInv
    <3>2. CASE c \in ClientsOf(S, R)
      <4>1. /\ U.clients[c].config_ongoing = FALSE /\ U.clients[c].told = told(c)
            /\ S.clients[c].conn # "none" /\ S.clients[c].device \in Device
            /\ S.clients[c].conn = "up" => told(c) = version(c)
        BY <2>3, <2>4, <2>5, <3>2
      <4>2. S.clients[c].device # None
        BY <4>1, ProxyAssumption
      <4> HIDE DEF told
      <4> QED BY <2>5, <2>7, <3>1, <4>1, <4>2 DEF ClientOK
    <3>3. CASE c \notin ClientsOf(S, R)
      <4>1. U.clients[c] = S.clients[c]
        BY <2>5, <3>3
      <4> QED BY <2>5, <2>7, <3>1, <4>1 DEF ClientOK, IsConfig
    <3> QED BY <3>2, <3>3
  <2>9. ASSUME NEW r \in Request, S.requests[r].stage = "device_new"
        PROVE  U.clients[S.requests[r].client].config_ongoing
                 = S.clients[S.requests[r].client].config_ongoing
    <3> DEFINE c == S.requests[r].client
    <3>1. c \in Client /\ c # None
      BY <2>9, RequestFields, ProxyAssumption
    <3>2. S.clients[c].device = None
      BY <2>9, <3>1 DEF WorldInv, RequestOK
    <3>3. c \notin ClientsOf(S, R)
      BY <2>3, <3>2, ProxyAssumption
    <3> QED BY <2>5, <3>1, <3>3
  <2>10. WorldInv(U, X)
    BY <2>5, <2>6, <2>7, <2>8, <2>9, ClientsChange
  <2>11. ASSUME NEW r \in R PROVE MayFree(U, r)
    <3> DEFINE c == S.requests[r].client
    <3>1. c \in ClientsOf(S, R) /\ c \in Client
      BY <1>2 DEF ClientsOf
    <3>2. /\ U.clients[c].config_ongoing = FALSE /\ U.clients[c].told = told(c)
          /\ S.clients[c].conn = "up" => told(c) = version(c)
      BY <2>3, <2>4, <2>5, <3>1
    <3> HIDE DEF told
    <3> QED BY <2>5, <2>7, <3>1, <3>2 DEF MayFree
  <2>12. WorldInv(T, X) /\ Answered(U, T, R)
    BY <2>10, <2>11, RespondKeeps
  <2>13. Answered(S, T, R)
    BY <2>5, <2>7, <2>12 DEF Answered
  <2> QED BY <2>1, <2>12, <2>13
<1> QED BY <1>3, <1>4

(* A step that changes nothing but one device.                                *)
LEMMA DeviceChanges ==
  ASSUME NEW S, NEW X, WorldInv(S, X), NEW d \in Device, NEW T \in Worlds,
         T.clients = S.clients, T.requests = S.requests, T.modem = S.modem,
         \A e \in Device \ {d} : T.devices[e] = S.devices[e],
         T.devices[d].path = S.devices[d].path,
         T.devices[d].version = S.devices[d].version,
         T.devices[d].tracked => S.devices[d].tracked,
         S.devices[d].tracked /\ ~T.devices[d].tracked =>
           \A c \in Client : Tracked(S, c) => S.clients[c].device # d,
         DeviceOK(T, d)
  PROVE  WorldInv(T, X \cup {d}) /\ Waiting(T, d) = Waiting(S, d)
<1>1. S \in Worlds
  BY DEF WorldInv
<1>2. OneConfig(T)
  BY DEF WorldInv, OneConfig, IsConfig
<1>3. \A e \in Device : /\ T.devices[e].tracked => S.devices[e].tracked
                        /\ T.devices[e].path = S.devices[e].path
                        /\ T.devices[e].version = S.devices[e].version
  OBVIOUS
<1>4. OnePerPort(T)
  BY <1>3 DEF WorldInv, OnePerPort
<1>5. \A r \in Request : RequestOK(T, r)
  BY DEF WorldInv, RequestOK
<1>6. ASSUME NEW c \in Client PROVE ClientOK(T, c)
  <2>1. ClientOK(S, c) /\ S.clients[c].device \in Device \cup {None}
    BY <1>1, Members DEF WorldInv, ClientInfo
  <2>2. Tracked(T, c) <=> Tracked(S, c)
    BY DEF Tracked
  <2>3. \A q \in Request : IsConfig(T, q, c) <=> IsConfig(S, q, c)
    BY DEF IsConfig
  <2>4. Tracked(S, c) /\ S.clients[c].device # None
          => T.devices[S.clients[c].device].tracked
    BY <2>1 DEF ClientOK
  <2> QED BY <1>3, <2>1, <2>2, <2>3, <2>4 DEF ClientOK
<1>7. \A e \in Device : Waiting(T, e) = Waiting(S, e)
  BY DEF Waiting, DeviceOf
<1>8. ASSUME NEW e \in Device \ {d} PROVE DeviceOK(T, e) /\ (e \notin X => Settled(T, e))
  <2>1. Merged(T, e) = Merged(S, e)
    BY DEF Merged, Tracked
  <2> QED BY <1>7, <2>1 DEF WorldInv, DeviceOK, Settled
<1> QED BY <1>2, <1>4, <1>5, <1>6, <1>7, <1>8 DEF WorldInv

LEMMA Settles ==
  ASSUME NEW S, NEW d, WorldInv(S, {d}), d \in Device => Settled(S, d)
  PROVE  WorldInv(S, {})
BY DEF WorldInv

LEMMA Unsettles ==
  ASSUME NEW S, NEW X, WorldInv(S, {})
  PROVE  WorldInv(S, X)
BY DEF WorldInv

(* From S to T, the queue of d was emptied, and nothing else befell d.         *)
Completed(S, T, d) ==
  /\ Waiting(T, d) = {} /\ ~T.devices[d].opening
  /\ \A e \in Device \ {d} : T.devices[e] = S.devices[e]
  /\ T.devices[d].path = S.devices[d].path
  /\ T.devices[d].tracked = S.devices[d].tracked
  /\ T.devices[d].status = S.devices[d].status
  /\ T.devices[d].channel = S.devices[d].channel
  /\ T.devices[d].opens = S.devices[d].opens
  /\ T.devices[d].events = S.devices[d].events
  /\ T.devices[d].unsure = S.devices[d].unsure
  /\ \A c \in Client : T.clients[c].device = S.clients[c].device

(* complete_opening_device() and cancel_opening_device() leave no queue.      *)
LEMMA CompleteOpeningKeeps ==
  ASSUME NEW S, NEW d \in Device, WorldInv(S, {d}), NEW ok \in BOOLEAN,
         Waiting(S, d) # {} => S.devices[d].opening
  PROVE  LET T == CompleteOpening(S, d, ok) IN WorldInv(T, {d}) /\ Completed(S, T, d)
<1> DEFINE T == CompleteOpening(S, d, ok)
<1>1. S \in Worlds /\ S.devices[d] \in DeviceInfo
  BY Members DEF WorldInv
<1>2. CASE ~S.devices[d].opening
  <2>1. T = S
    BY <1>2 DEF CompleteOpening
  <2> HIDE DEF T
  <2> QED BY <1>2, <2>1 DEF T, Completed
<1>3. CASE S.devices[d].opening
  <2> DEFINE U == [S EXCEPT !.devices[d].opening = FALSE]
             W == Waiting(S, d)
  <2>1. T = ConfigReady(U, W, ok)
    BY <1>3 DEF CompleteOpening
  <2>2. /\ U \in Worlds
        /\ U.clients = S.clients /\ U.requests = S.requests /\ U.modem = S.modem
        /\ \A e \in Device \ {d} : U.devices[e] = S.devices[e]
    BY <1>1 DEF Worlds, DeviceInfo
  <2>3. /\ U.devices[d].path = S.devices[d].path
        /\ U.devices[d].tracked = S.devices[d].tracked
        /\ U.devices[d].status = S.devices[d].status
        /\ U.devices[d].channel = S.devices[d].channel
        /\ U.devices[d].opens = S.devices[d].opens
        /\ U.devices[d].handled = S.devices[d].handled
        /\ U.devices[d].events = S.devices[d].events
        /\ U.devices[d].unsure = S.devices[d].unsure
        /\ U.devices[d].version = S.devices[d].version
        /\ ~U.devices[d].opening
    BY <1>1 DEF Worlds, DeviceInfo
  <2> HIDE DEF U, T
  <2>4. DeviceOK(U, d)
    <3>1. DeviceOK(S, d) /\ S.devices[d].path # None
      BY <1>3 DEF WorldInv, DeviceOK, NoDevice
    <3>2. Merged(U, d) = Merged(S, d)
      BY <2>2 DEF Merged, Tracked
    <3> QED BY <2>2, <2>3, <3>1, <3>2 DEF DeviceOK
  <2>5. WorldInv(U, {d} \cup {d}) /\ Waiting(U, d) = W
    BY <2>2, <2>3, <2>4, DeviceChanges
  <2>6. WorldInv(U, {d})
    <3>1. {d} \cup {d} = {d}
      OBVIOUS
    <3> QED BY <2>5, <3>1
  <2>7. W \in SUBSET Request
        /\ \A r \in W : U.requests[r].kind = "config" /\ U.requests[r].stage # "device_new"
    <3>1. \A r \in W : r \in Request /\ U.requests[r].stage = "opening"
      BY <2>2 DEF Waiting
    <3>2. \A r \in W : U.requests[r].client # None
      BY <2>6, <3>1, RequestFields, ProxyAssumption
    <3> QED BY <2>6, <3>1, <3>2 DEF WorldInv, RequestOK
  <2> HIDE DEF W
  <2>8. WorldInv(T, {d}) /\ Answered(U, T, W)
    BY <2>1, <2>6, <2>7, ConfigReadyKeeps
  <2>9. Waiting(T, d) = {}
    <3>1. \A r \in Request : r \in W => T.requests[r].stage = "none"
      BY <2>8 DEF Answered, NoRequest
    <3>2. ASSUME NEW r \in Request, r \notin W PROVE r \notin Waiting(T, d)
      <4>1. T.requests[r] = U.requests[r]
        BY <2>8, <3>2 DEF Answered
      <4>2. r \notin Waiting(U, d)
        BY <2>5, <3>2
      <4>3. T.requests[r].stage = "opening" => DeviceOf(T, r) = DeviceOf(U, r)
        BY <2>6, <2>8, <4>1, RequestFields DEF DeviceOf, Answered
      <4> QED BY <4>1, <4>2, <4>3 DEF Waiting
    <3> QED BY <3>1, <3>2 DEF Waiting
  <2> QED BY <2>2, <2>3, <2>8, <2>9 DEF Answered, Completed, T
<1> QED BY <1>2, <1>3

(* untrack_device(), with the device's queue and its clients.                 *)
LEMMA UntrackDeviceKeeps ==
  ASSUME NEW S, NEW d \in Device, WorldInv(S, {d}),
         Waiting(S, d) # {} => S.devices[d].opening,
         S.devices[d].opens <= 1,
         S.devices[d].opens = 1 => ~S.devices[d].channel /\ S.devices[d].status # "OPEN",
         ~S.devices[d].tracked => Settled(S, d)
  PROVE  WorldInv(UntrackDevice(S, d), {})
<1> DEFINE T == UntrackDevice(S, d)
<1>1. CASE ~S.devices[d].tracked
  <2>1. T = S
    BY <1>1 DEF UntrackDevice
  <2> HIDE DEF T
  <2> QED BY <1>1, <2>1, Settles DEF T
<1>2. CASE S.devices[d].tracked
  <2> DEFINE U == CompleteOpening(S, d, FALSE)
             C == {c \in Client : S.clients[c].device = d}
             V == UntrackClients(U, C)
  <2>1. T = [V EXCEPT !.devices[d].tracked = FALSE]
    BY <1>2 DEF UntrackDevice
  <2>2. WorldInv(U, {d}) /\ Completed(S, U, d)
    BY CompleteOpeningKeeps
  <2> HIDE DEF U
  <2>3. /\ WorldInv(V, {d}) /\ V.devices = U.devices /\ V.requests = U.requests
        /\ \A c \in Client : /\ V.clients[c].device = U.clients[c].device
                             /\ Tracked(V, c) => c \notin C
    BY <2>2, UntrackClientsKeeps
  <2>4. Waiting(V, d) = {}
    <3>1. ASSUME NEW r \in Request, V.requests[r].stage = "opening"
          PROVE  V.requests[r] = U.requests[r] /\ DeviceOf(V, r) = DeviceOf(U, r)
      BY <2>3, <3>1, RequestFields DEF DeviceOf
    <3> QED BY <2>2, <3>1 DEF Waiting, Completed
  <2>5. \A c \in Client : Tracked(V, c) => V.clients[c].device # d
    BY <2>2, <2>3 DEF Completed
  <2>6. V \in Worlds /\ V.devices[d] \in DeviceInfo
    BY <2>3, Members DEF WorldInv
  <2> HIDE DEF V, C, T
  <2>7. /\ T \in Worlds
        /\ T.clients = V.clients /\ T.requests = V.requests /\ T.modem = V.modem
        /\ \A e \in Device \ {d} : T.devices[e] = V.devices[e]
    BY <2>1, <2>6 DEF Worlds, DeviceInfo
  <2>8. /\ T.devices[d].path = V.devices[d].path
        /\ T.devices[d].status = V.devices[d].status
        /\ T.devices[d].channel = V.devices[d].channel
        /\ T.devices[d].opens = V.devices[d].opens
        /\ T.devices[d].opening = V.devices[d].opening
        /\ T.devices[d].version = V.devices[d].version
        /\ ~T.devices[d].tracked
    BY <2>1, <2>6 DEF Worlds, DeviceInfo
  <2> HIDE DEF T
  <2>9. DeviceOK(T, d)
    <3>1. V.devices[d].path # None
      BY <1>2, <2>2, <2>3 DEF WorldInv, DeviceOK, NoDevice, Completed
    <3> QED BY <2>8, <3>1 DEF DeviceOK
  <2>10. WorldInv(T, {d} \cup {d}) /\ Waiting(T, d) = {}
    BY <2>3, <2>4, <2>5, <2>7, <2>8, <2>9, DeviceChanges
  <2>11. WorldInv(T, {d})
    <3>1. {d} \cup {d} = {d}
      OBVIOUS
    <3> QED BY <2>10, <3>1
  <2>12. Settled(T, d)
    BY <2>2, <2>3, <2>8, <2>10 DEF Settled, Completed
  <2> QED BY <2>11, <2>12, Settles DEF T
<1> QED BY <1>1, <1>2

(* From S to T, the device was closed without more.                           *)
Closed(S, T, d) ==
  /\ Waiting(T, d) = Waiting(S, d)
  /\ T.clients = S.clients /\ T.requests = S.requests /\ T.modem = S.modem
  /\ \A e \in Device \ {d} : T.devices[e] = S.devices[e]
  /\ T.devices[d].path = S.devices[d].path
  /\ T.devices[d].tracked = S.devices[d].tracked
  /\ T.devices[d].status = "CLOSED"
  /\ ~T.devices[d].channel
  /\ T.devices[d].opens = S.devices[d].opens
  /\ T.devices[d].opening = S.devices[d].opening
  /\ T.devices[d].events = S.devices[d].events
  /\ T.devices[d].unsure = S.devices[d].unsure

(* mbim_device_close_force().                                                 *)
LEMMA CloseForceKeeps ==
  ASSUME NEW S, NEW X, WorldInv(S, X), NEW d \in Device, S.devices[d].path # None
  PROVE  LET T == CloseForce(S, d) IN WorldInv(T, X \cup {d}) /\ Closed(S, T, d)
<1> DEFINE T == CloseForce(S, d)
<1>1. S \in Worlds /\ S.devices[d] \in DeviceInfo
  BY Members DEF WorldInv
<1>2. /\ T \in Worlds
      /\ T.clients = S.clients /\ T.requests = S.requests /\ T.modem = S.modem
      /\ \A e \in Device \ {d} : T.devices[e] = S.devices[e]
  BY <1>1 DEF Worlds, DeviceInfo, CloseForce
<1>3. /\ T.devices[d].path = S.devices[d].path
      /\ T.devices[d].tracked = S.devices[d].tracked
      /\ T.devices[d].status = "CLOSED"
      /\ ~T.devices[d].channel
      /\ T.devices[d].opens = S.devices[d].opens
      /\ T.devices[d].opening = S.devices[d].opening
      /\ T.devices[d].events = S.devices[d].events
      /\ T.devices[d].unsure = S.devices[d].unsure
      /\ T.devices[d].version = S.devices[d].version
  BY <1>1 DEF Worlds, DeviceInfo, CloseForce
<1> HIDE DEF T
<1>4. DeviceOK(T, d)
  <2>1. Merged(T, d) = Merged(S, d)
    BY <1>2 DEF Merged, Tracked
  <2> QED BY <1>3, <2>1 DEF WorldInv, DeviceOK
<1>5. WorldInv(T, X \cup {d}) /\ Waiting(T, d) = Waiting(S, d)
  BY <1>2, <1>3, <1>4, DeviceChanges
<1> QED BY <1>2, <1>3, <1>5 DEF Closed, T

(* From S to T, the device was closed and nobody subscribes to it any more.   *)
Forgotten(S, T, d) ==
  /\ T.requests = S.requests /\ T.modem = S.modem
  /\ \A c \in Client : /\ T.clients[c].device = S.clients[c].device
                       /\ T.clients[c].conn = S.clients[c].conn
  /\ \A e \in Device \ {d} : T.devices[e] = S.devices[e]
  /\ T.devices[d].path = S.devices[d].path
  /\ T.devices[d].tracked = S.devices[d].tracked
  /\ T.devices[d].status = "CLOSED"
  /\ ~T.devices[d].channel
  /\ T.devices[d].opens = S.devices[d].opens
  /\ T.devices[d].opening = S.devices[d].opening
  /\ T.devices[d].events = {}

(* reset_client_service_subscribe_lists() and mbim_device_close_force().      *)
LEMMA ForgetKeeps ==
  ASSUME NEW S, WorldInv(S, {}), NEW d \in Device, S.devices[d].path # None
  PROVE  LET T == CloseForce(ResetLists(S, d), d)
         IN WorldInv(T, {}) /\ Forgotten(S, T, d)
<1> DEFINE Emptied(c) == [S.clients[c] EXCEPT !.events = {}]
           U == [S EXCEPT !.clients = [c \in Client |->
                  IF Tracked(S, c) /\ S.clients[c].device = d THEN Emptied(c) ELSE S.clients[c]]]
           V == ResetLists(S, d)
           T == CloseForce(V, d)
<1>1. S \in Worlds /\ \A c \in Client : S.clients[c] \in ClientInfo
  BY Members DEF WorldInv
<1>2. ASSUME NEW c \in Client
      PROVE  /\ Emptied(c) \in ClientInfo /\ Emptied(c).conn = S.clients[c].conn
             /\ Emptied(c).device = S.clients[c].device /\ Emptied(c).events = {}
             /\ Emptied(c).config_ongoing = S.clients[c].config_ongoing
             /\ Emptied(c).told = S.clients[c].told
  BY <1>1 DEF ClientInfo
<1>3. /\ U.clients = [c \in Client |->
            IF Tracked(S, c) /\ S.clients[c].device = d THEN Emptied(c) ELSE S.clients[c]]
      /\ U.devices = S.devices /\ U.requests = S.requests /\ U.modem = S.modem
  BY <1>1 DEF Worlds
<1>4. U \in Worlds
  <2>1. U.clients \in [Client -> ClientInfo]
    <3> HIDE DEF U, Emptied
    <3> QED BY <1>1, <1>2, <1>3
  <2> QED BY <1>1, <2>1 DEF Worlds
<1> DEFINE D == [S.devices[d] EXCEPT !.events = {}, !.unsure = FALSE]
<1>5. /\ D \in DeviceInfo
      /\ D.path = S.devices[d].path
      /\ D.tracked = S.devices[d].tracked
      /\ D.version = S.devices[d].version
      /\ D.opens = S.devices[d].opens
      /\ D.opening = S.devices[d].opening
      /\ D.events = {}
  <2>1. S.devices[d] \in DeviceInfo
    BY <1>1, Members
  <2> QED BY <2>1 DEF DeviceInfo
<1>6. /\ V.clients = U.clients /\ V.requests = S.requests /\ V.modem = S.modem
      /\ V.devices = [S.devices EXCEPT ![d] = D]
  BY <1>1 DEF Worlds, ResetLists
<1> HIDE DEF D
<1>18. V \in Worlds
  <2>1. U.clients \in [Client -> ClientInfo]
    BY <1>4 DEF Worlds
  <2>2. V.devices \in [Device -> DeviceInfo]
    BY <1>1, <1>5, <1>6 DEF Worlds
  <2> QED BY <1>1, <1>6, <2>1, <2>2 DEF Worlds, ResetLists
<1>19. V.devices[d] = D /\ \A e \in Device \ {d} : V.devices[e] = S.devices[e]
  BY <1>1, <1>6 DEF Worlds
<1> HIDE DEF U, V, Emptied
<1>7. /\ T \in Worlds /\ T.clients = U.clients /\ T.requests = S.requests /\ T.modem = S.modem
      /\ \A e \in Device \ {d} : T.devices[e] = S.devices[e]
      /\ T.devices[d].path = S.devices[d].path
      /\ T.devices[d].tracked = S.devices[d].tracked
      /\ T.devices[d].version = S.devices[d].version
      /\ T.devices[d].opens = S.devices[d].opens
      /\ T.devices[d].opening = S.devices[d].opening
      /\ T.devices[d].events = {}
      /\ T.devices[d].status = "CLOSED"
      /\ ~T.devices[d].channel
  BY <1>5, <1>6, <1>18, <1>19 DEF Worlds, DeviceInfo, CloseForce
<1> HIDE DEF T
<1>8. \A c \in Client : /\ U.clients[c].device = S.clients[c].device
                        /\ U.clients[c].conn = S.clients[c].conn
                        /\ U.clients[c].events \subseteq S.clients[c].events
                        /\ U.clients[c].config_ongoing = S.clients[c].config_ongoing
                        /\ U.clients[c].told = S.clients[c].told
                        /\ Tracked(U, c) <=> Tracked(S, c)
                        /\ Tracked(U, c) /\ U.clients[c].device = d => U.clients[c].events = {}
  BY <1>2, <1>3 DEF Tracked
<1>9. ASSUME NEW c \in Client PROVE ClientOK(U, c)
  <2>1. ClientOK(S, c)
    BY DEF WorldInv
  <2>2. S.clients[c].conn = "none" => U.clients[c] = S.clients[c]
    BY <1>3 DEF Tracked
  <2>3. S.clients[c].events = {} => U.clients[c].events = {}
    BY <1>8
  <2> QED BY <1>3, <1>8, <2>1, <2>2, <2>3 DEF ClientOK, IsConfig
<1>10. \A r \in Request : S.requests[r].stage = "device_new" =>
         U.clients[S.requests[r].client].config_ongoing
           = S.clients[S.requests[r].client].config_ongoing
  BY <1>8, RequestFields
<1>11. WorldInv(U, {})
  BY <1>3, <1>4, <1>8, <1>9, <1>10, ClientsChange
<1>12. DeviceOK(T, d)
  <2>1. Merged(T, d) = {}
    BY <1>7, <1>8 DEF Merged, Tracked
  <2> QED BY <1>7, <2>1 DEF DeviceOK
<1>13. WorldInv(T, {} \cup {d}) /\ Waiting(T, d) = Waiting(U, d)
  <2>1. T.clients = U.clients /\ T.requests = U.requests /\ T.modem = U.modem
        /\ \A e \in Device \ {d} : T.devices[e] = U.devices[e]
    BY <1>3, <1>7
  <2>2. /\ T.devices[d].path = U.devices[d].path
        /\ T.devices[d].version = U.devices[d].version
        /\ T.devices[d].tracked = U.devices[d].tracked
    BY <1>3, <1>7
  <2>3. /\ T.devices[d].tracked => U.devices[d].tracked
        /\ ~(U.devices[d].tracked /\ ~T.devices[d].tracked)
    BY <2>2
  <2> QED BY <1>7, <1>11, <1>12, <2>1, <2>2, <2>3, DeviceChanges
<1>14. WorldInv(T, {d})
  <2>1. {} \cup {d} = {d}
    OBVIOUS
  <2> QED BY <1>13, <2>1
<1>15. Settled(T, d)
  <2>1. Settled(U, d)
    BY <1>11 DEF WorldInv
  <2> QED BY <1>3, <1>7, <1>13, <2>1 DEF Settled
<1>16. WorldInv(T, {})
  BY <1>14, <1>15, Settles
<1>17. Forgotten(S, T, d)
  BY <1>7, <1>8 DEF Forgotten
<1> QED BY <1>16, <1>17 DEF T, V

(* proxy_device_error_cb().                                                   *)
LEMMA DeviceErrorKeeps ==
  ASSUME NEW S, WorldInv(S, {}), NEW d \in Device
  PROVE  WorldInv(DeviceError(S, d), {})
<1>1. CASE ~S.devices[d].tracked
  BY <1>1 DEF DeviceError
<1>2. CASE S.devices[d].tracked
  <2>1. S.devices[d].path # None
    BY <1>2 DEF WorldInv, DeviceOK, NoDevice
  <2> QED BY <1>2, <2>1, ForgetKeeps DEF DeviceError
<1> QED BY <1>1, <1>2

(* mbim_device_open() of a device that is not being opened.                   *)
LEMMA DeviceOpenKeeps ==
  ASSUME NEW S, NEW d \in Device, WorldInv(S, {d}), NEW made \in BOOLEAN,
         S.devices[d].path # None, S.devices[d].opens = 0,
         S.devices[d].tracked => S.devices[d].events = {} \/ S.devices[d].unsure
  PROVE  WorldInv(DeviceOpen([S EXCEPT !.devices[d].opening = TRUE], d, made), {})
<1> DEFINE U == [S EXCEPT !.devices[d].opening = TRUE]
           T == DeviceOpen(U, d, made)
<1>1. S \in Worlds /\ S.devices[d] \in DeviceInfo
  BY Members DEF WorldInv
<1>2. /\ U \in Worlds /\ U.devices[d] \in DeviceInfo
      /\ U.clients = S.clients /\ U.requests = S.requests /\ U.modem = S.modem
      /\ \A e \in Device \ {d} : U.devices[e] = S.devices[e]
      /\ U.devices[d].path = S.devices[d].path
      /\ U.devices[d].tracked = S.devices[d].tracked
      /\ U.devices[d].version = S.devices[d].version
      /\ U.devices[d].events = S.devices[d].events
      /\ U.devices[d].unsure = S.devices[d].unsure
      /\ U.devices[d].opens = S.devices[d].opens
      /\ U.devices[d].opening
  BY <1>1 DEF Worlds, DeviceInfo
<1> HIDE DEF U
<1> DEFINE D == [U.devices[d] EXCEPT !.status = "OPENING", !.channel = made,
                                     !.opens = @ + 1, !.handled = FALSE]
<1>8. /\ D \in DeviceInfo
      /\ D.path = S.devices[d].path
      /\ D.tracked = S.devices[d].tracked
      /\ D.version = S.devices[d].version
      /\ D.events = S.devices[d].events
      /\ D.unsure = S.devices[d].unsure
      /\ D.opens = S.devices[d].opens + 1
      /\ D.opening
      /\ D.status = "OPENING"
      /\ ~D.handled
  <2> DEFINE E == U.devices[d]
  <2>1. E \in DeviceInfo
    BY <1>2
  <2> HIDE DEF E
  <2>2. [E EXCEPT !.status = "OPENING", !.channel = made, !.opens = @ + 1, !.handled = FALSE]
          \in DeviceInfo
    <3>1. E.opens \in Nat /\ E.opens + 1 \in Nat
      BY <2>1 DEF DeviceInfo
    <3> DEFINE n == E.opens + 1
               F == [E EXCEPT !.status = "OPENING", !.channel = made]
    <3>2. F \in DeviceInfo
      BY <2>1 DEF DeviceInfo
    <3> HIDE DEF F, n
    <3>3. [F EXCEPT !.opens = n, !.handled = FALSE] \in DeviceInfo
      BY <3>1, <3>2 DEF DeviceInfo, n
    <3> QED BY <3>3 DEF F, n
  <2>3. /\ D.path = E.path /\ D.tracked = E.tracked /\ D.version = E.version
        /\ D.events = E.events /\ D.unsure = E.unsure /\ D.opening = E.opening
        /\ D.opens = E.opens + 1 /\ D.status = "OPENING" /\ ~D.handled
    BY <2>1 DEF DeviceInfo, E
  <2>4. D \in DeviceInfo
    BY <2>2 DEF E
  <2> HIDE DEF D
  <2> QED BY <1>2, <2>3, <2>4 DEF E
<1>9. /\ T.clients = S.clients /\ T.requests = S.requests /\ T.modem = S.modem
      /\ T.devices = [U.devices EXCEPT ![d] = D]
  BY <1>2 DEF Worlds, DeviceOpen
<1> HIDE DEF D
<1>10. T.devices \in [Device -> DeviceInfo] /\ T.devices[d] = D
       /\ \A e \in Device \ {d} : T.devices[e] = S.devices[e]
  BY <1>2, <1>8, <1>9 DEF Worlds
<1>3. T \in Worlds
  BY <1>2, <1>10 DEF Worlds, DeviceOpen
<1> HIDE DEF T
<1>4. DeviceOK(T, d)
  <2>1. Merged(T, d) = Merged(S, d)
    BY <1>9 DEF Merged, Tracked
  <2> QED BY <1>8, <1>10, <2>1 DEF WorldInv, DeviceOK
<1>5. WorldInv(T, {d} \cup {d})
  BY <1>3, <1>4, <1>8, <1>9, <1>10, DeviceChanges
<1>6. WorldInv(T, {d})
  <2>1. {d} \cup {d} = {d}
    OBVIOUS
  <2> QED BY <1>5, <2>1
<1>7. Settled(T, d)
  BY <1>8, <1>10 DEF Settled
<1> QED BY <1>6, <1>7, Settles DEF T, U

(* The configuration r of the client c is to be of the device d.              *)
CanPlace(S, r, c, d) ==
  /\ S.clients[c].conn # "none"
  /\ S.clients[c].device = None \/ S.clients[c].device = d
  /\ \A q \in Request : IsConfig(S, q, c) => q = r
  /\ S.requests[r].client = None \/ IsConfig(S, r, c)
  /\ Tracked(S, c) => S.devices[d].tracked
  /\ S.devices[d].path # None

(* From S to T, it became that.                                               *)
Placed(S, T, r, c, d) ==
  /\ T.devices = S.devices /\ T.modem = S.modem
  /\ \A b \in Client \ {c} : T.clients[b] = S.clients[b]
  /\ T.clients[c].conn = S.clients[c].conn
  /\ T.clients[c].device = d
  /\ T.clients[c].config_ongoing = S.clients[c].config_ongoing
  /\ T.clients[c].events = S.clients[c].events
  /\ T.clients[c].told = S.clients[c].told
  /\ \A q \in Request \ {r} : T.requests[q] = S.requests[q]
  /\ T.requests[r].client = c /\ T.requests[r].kind = "config"

LEMMA PlacedKeeps ==
  ASSUME NEW S, NEW X, WorldInv(S, X), NEW T \in Worlds,
         NEW r \in Request, NEW c \in Client, NEW d \in Device,
         CanPlace(S, r, c, d), Placed(S, T, r, c, d),
         T.requests[r].stage \in {"caps", "opening"}
  PROVE  /\ WorldInv(T, X \cup {d})
         /\ T.requests[r].stage = "caps" => Waiting(T, d) \subseteq Waiting(S, d)
<1>1. S \in Worlds /\ c # None /\ d # None
  BY ProxyAssumption DEF WorldInv
<1>2. ASSUME NEW q \in Request \ {r}, S.requests[q].client = c
      PROVE  S.clients[c].device = d
  <2>1. RequestOK(S, q) /\ ~IsConfig(S, q, c)
    BY DEF WorldInv, CanPlace
  <2>2. S.clients[c].device # None
    BY <1>1, <1>2, <2>1 DEF RequestOK, IsConfig
  <2> QED BY <2>2 DEF CanPlace
<1>3. \A b \in Client : /\ T.clients[b].conn = S.clients[b].conn
                        /\ T.clients[b].events = S.clients[b].events
                        /\ Tracked(T, b) <=> Tracked(S, b)
  BY DEF Placed, Tracked
<1>4. \A q \in Request \ {r} :
        /\ T.requests[q] = S.requests[q]
        /\ S.requests[q].client # None =>
             LET b == S.requests[q].client
             IN /\ T.clients[b].device = S.clients[b].device
                /\ T.clients[b].conn = S.clients[b].conn
                /\ T.clients[b].config_ongoing = S.clients[b].config_ongoing
  <2> TAKE q \in Request \ {r}
  <2>1. S.requests[q].client \in Client \cup {None}
    BY RequestFields
  <2>2. CASE S.requests[q].client = c
    BY <1>2, <2>2 DEF Placed
  <2>3. CASE S.requests[q].client \in Client \ {c}
    BY <2>3 DEF Placed
  <2>4. CASE S.requests[q].client = None
    BY <2>4 DEF Placed
  <2> QED BY <2>1, <2>2, <2>3, <2>4
<1>5. \A q \in Request, b \in Client : b # c => (IsConfig(T, q, b) <=> IsConfig(S, q, b))
  BY <1>1, ProxyAssumption DEF IsConfig, Placed, CanPlace
<1>6. \A q \in Request : IsConfig(T, q, c) <=> q = r
  BY DEF IsConfig, Placed, CanPlace
<1>7. OneConfig(T)
  BY <1>5, <1>6 DEF OneConfig, WorldInv
<1>8. OnePerPort(T)
  BY DEF OnePerPort, WorldInv, Placed
<1>9. ASSUME NEW q \in Request PROVE RequestOK(T, q)
  <2>1. CASE q = r
    BY <1>1, <2>1 DEF RequestOK, Placed, CanPlace
  <2>2. CASE q # r
    <3>1. RequestOK(S, q)
      BY DEF WorldInv
    <3> QED BY <1>4, <2>2, <3>1 DEF RequestOK
  <2> QED BY <2>1, <2>2
<1>10. ASSUME NEW b \in Client PROVE ClientOK(T, b)
  <2>1. ClientOK(S, b)
    BY DEF WorldInv
  <2>2. CASE b # c
    <3>1. T.clients[b] = S.clients[b] /\ T.devices = S.devices
      BY <2>2 DEF Placed
    <3>2. \A q \in Request : IsConfig(T, q, b) <=> IsConfig(S, q, b)
      BY <1>5, <2>2
    <3> QED BY <1>3, <2>1, <3>1, <3>2 DEF ClientOK
  <2>3. CASE b = c
    <3>1. \E q \in Request : IsConfig(T, q, c)
      BY <1>6
    <3>2. T.clients[c].conn = "up" =>
            T.clients[c].told = None \/ T.clients[c].told = T.devices[d].version
      <4>1. S.clients[c].conn = "up" =>
              S.clients[c].told = None \/ S.clients[c].told = S.devices[d].version
        BY <1>1, <2>1, <2>3 DEF ClientOK, CanPlace
      <4> QED BY <4>1 DEF Placed
    <3>3. Tracked(T, c) => T.devices[d].tracked
      BY <1>3 DEF CanPlace, Placed
    <3> QED BY <1>1, <2>3, <3>1, <3>2, <3>3 DEF ClientOK, CanPlace, Placed
  <2> QED BY <2>2, <2>3
<1>11. ASSUME NEW e \in Device PROVE DeviceOK(T, e)
  <2>1. ASSUME NEW b \in Client, Tracked(T, b), T.clients[b].device = e
        PROVE  Tracked(S, b) /\ (S.clients[b].device = e \/ T.clients[b].events = {})
    <3>1. CASE b = c
      <4>1. ClientOK(S, c)
        BY DEF WorldInv
      <4> QED BY <1>3, <2>1, <3>1, <4>1 DEF ClientOK, CanPlace, Placed
    <3>2. CASE b # c
      BY <1>3, <2>1, <3>2 DEF Placed
    <3> QED BY <3>1, <3>2
  <2>2. Merged(T, e) \subseteq Merged(S, e)
    BY <1>3, <2>1 DEF Merged
  <2>3. DeviceOK(S, e)
    BY DEF WorldInv
  <2> QED BY <2>2, <2>3 DEF DeviceOK, Placed
<1>12. ASSUME NEW q \in Request \ {r}, NEW e \in Device, q \in Waiting(T, e)
       PROVE  q \in Waiting(S, e)
  BY <1>4, <1>12, RequestFields, ProxyAssumption DEF Waiting, DeviceOf
<1>13. DeviceOf(T, r) = d
  BY DEF DeviceOf, Placed
<1>14. ASSUME NEW e \in Device, e \notin X \cup {d} PROVE Settled(T, e)
  <2>1. Waiting(T, e) \subseteq Waiting(S, e)
    <3>1. r \notin Waiting(T, e)
      BY <1>13, <1>14 DEF Waiting
    <3>2. Waiting(T, e) \subseteq Request
      BY DEF Waiting
    <3> QED BY <1>12, <3>1, <3>2
  <2>2. Settled(S, e)
    BY <1>14 DEF WorldInv
  <2> QED BY <2>1, <2>2 DEF Settled, Placed
<1>15. T.requests[r].stage = "caps" => Waiting(T, d) \subseteq Waiting(S, d)
  <2>1. T.requests[r].stage = "caps" => r \notin Waiting(T, d)
    BY DEF Waiting
  <2>2. Waiting(T, d) \subseteq Request
    BY DEF Waiting
  <2> QED BY <1>12, <2>1, <2>2
<1>16. T \in Worlds
  OBVIOUS
<1> QED BY <1>7, <1>8, <1>9, <1>10, <1>11, <1>14, <1>15, <1>16 DEF WorldInv

(* internal_open().                                                           *)
LEMMA InternalOpenKeeps ==
  ASSUME NEW S, WorldInv(S, {}), NEW M \in Worlds,
         NEW r \in Request, NEW c \in Client, NEW d \in Device, NEW made \in BOOLEAN,
         CanPlace(S, r, c, d), Placed(S, M, r, c, d),
         S.devices[d].opening \/ S.devices[d].opens = 0,
         S.devices[d].tracked => S.devices[d].events = {} \/ S.devices[d].unsure
  PROVE  WorldInv(InternalOpen(M, r, made), {})
<1> DEFINE R == [M.requests[r] EXCEPT !.stage = "opening", !.fate = "none", !.path = None]
           T == [M EXCEPT !.requests[r].stage = "opening", !.requests[r].fate = "none",
                          !.requests[r].path = None]
<1>1. DeviceOf(M, r) = d
  BY DEF DeviceOf, Placed
<1>2. R \in RequestInfo /\ R.client = M.requests[r].client /\ R.kind = M.requests[r].kind
      /\ R.stage = "opening"
  <2>1. M.requests[r] \in RequestInfo
    BY Members
  <2> QED BY <2>1 DEF RequestInfo
<1>3. /\ T.clients = M.clients /\ T.devices = M.devices /\ T.modem = M.modem
      /\ T.requests = [M.requests EXCEPT ![r] = R]
  BY DEF Worlds
<1> HIDE DEF R
<1>4. T \in Worlds
  <2>1. T.requests \in [Request -> RequestInfo]
    BY <1>2, <1>3 DEF Worlds
  <2> QED BY <2>1 DEF Worlds
<1>5. T.requests[r] = R /\ \A q \in Request \ {r} : T.requests[q] = M.requests[q]
  BY <1>3 DEF Worlds
<1>6. InternalOpen(M, r, made) =
        IF M.devices[d].opening THEN T
        ELSE DeviceOpen([T EXCEPT !.devices[d].opening = TRUE], d, made)
  BY <1>1 DEF InternalOpen
<1> HIDE DEF T
<1>7. Placed(S, T, r, c, d)
  BY <1>2, <1>3, <1>5 DEF Placed
<1>8. WorldInv(T, {} \cup {d})
  BY <1>2, <1>4, <1>5, <1>7, PlacedKeeps
<1>9. WorldInv(T, {d})
  <2>1. {} \cup {d} = {d}
    OBVIOUS
  <2> QED BY <1>8, <2>1
<1>10. T.devices = S.devices /\ M.devices = S.devices
  BY <1>7 DEF Placed
<1>11. CASE S.devices[d].opening
  <2>1. Settled(T, d)
    BY <1>10, <1>11 DEF WorldInv, Settled
  <2> QED BY <1>6, <1>9, <1>10, <1>11, <2>1, Settles
<1>12. CASE ~S.devices[d].opening
  <2>1. /\ T.devices[d].path # None /\ T.devices[d].opens = 0
        /\ T.devices[d].tracked => T.devices[d].events = {} \/ T.devices[d].unsure
    BY <1>10, <1>12 DEF CanPlace
  <2>2. WorldInv(DeviceOpen([T EXCEPT !.devices[d].opening = TRUE], d, made), {})
    BY <1>9, <2>1, DeviceOpenKeeps
  <2> QED BY <1>6, <1>10, <1>12, <2>2
<1> QED BY <1>11, <1>12

(* internal_device_open() of a device that says it is open.                   *)
LEMMA CapsQueryKeeps ==
  ASSUME NEW S, WorldInv(S, {}), NEW M \in Worlds,
         NEW r \in Request, NEW c \in Client, NEW d \in Device,
         CanPlace(S, r, c, d), Placed(S, M, r, c, d)
  PROVE  WorldInv([M EXCEPT !.requests[r].stage = "caps", !.requests[r].fate = Fate(M, d),
                            !.requests[r].path = None], {})
<1> DEFINE fate == Fate(M, d)
           R == [M.requests[r] EXCEPT !.stage = "caps", !.fate = fate, !.path = None]
           T == [M EXCEPT !.requests[r].stage = "caps", !.requests[r].fate = fate,
                          !.requests[r].path = None]
<1>1. fate \in {"unsent", "answer", "not_opened"}
  BY DEF Fate
<1> HIDE DEF fate
<1>2. R \in RequestInfo /\ R.client = M.requests[r].client /\ R.kind = M.requests[r].kind
      /\ R.stage = "caps"
  <2>1. M.requests[r] \in RequestInfo
    BY Members
  <2> QED BY <1>1, <2>1 DEF RequestInfo
<1>3. /\ T.clients = M.clients /\ T.devices = M.devices /\ T.modem = M.modem
      /\ T.requests = [M.requests EXCEPT ![r] = R]
  BY DEF Worlds
<1> HIDE DEF R
<1>4. T \in Worlds
  <2>1. T.requests \in [Request -> RequestInfo]
    BY <1>2, <1>3 DEF Worlds
  <2> QED BY <2>1 DEF Worlds
<1>5. T.requests[r] = R /\ \A q \in Request \ {r} : T.requests[q] = M.requests[q]
  BY <1>3 DEF Worlds
<1> HIDE DEF T
<1>6. Placed(S, T, r, c, d)
  BY <1>2, <1>3, <1>5 DEF Placed
<1>7. WorldInv(T, {} \cup {d}) /\ Waiting(T, d) \subseteq Waiting(S, d)
  BY <1>2, <1>4, <1>5, <1>6, PlacedKeeps
<1>8. WorldInv(T, {d})
  <2>1. {} \cup {d} = {d}
    OBVIOUS
  <2> QED BY <1>7, <2>1
<1>9. Settled(T, d)
  <2>1. Settled(S, d) /\ T.devices = S.devices
    BY <1>6 DEF WorldInv, Placed
  <2> QED BY <1>7, <2>1 DEF Settled
<1> QED BY <1>8, <1>9, Settles DEF T, fate

-----------------------------------------------------------------------------
(* The end of a dispatch.                                                  *)

(* What a dispatch that ends in S leaves, as Become says.                     *)
Kept(S) ==
  LET C == [c \in Client |->
              IF S.clients[c].conn = "gone" /\ \A r \in Request : S.requests[r].client # c
              THEN NoClient ELSE S.clients[c]]
      Held(d) == \/ S.devices[d].tracked \/ S.devices[d].opening \/ S.devices[d].opens > 0
                 \/ \E c \in Client : C[c].device = d
  IN [clients |-> C, devices |-> [d \in Device |-> IF Held(d) THEN S.devices[d] ELSE NoDevice],
      requests |-> S.requests, modem |-> S.modem]

LEMMA SlotTypes == NoClient \in ClientInfo /\ NoDevice \in DeviceInfo
BY DEF NoClient, ClientInfo, NoDevice, DeviceInfo

LEMMA KeptKeeps ==
  ASSUME NEW S, WorldInv(S, {})
  PROVE  WorldInv(Kept(S), {})
<1> DEFINE C == [c \in Client |->
                   IF S.clients[c].conn = "gone" /\ \A r \in Request : S.requests[r].client # c
                   THEN NoClient ELSE S.clients[c]]
           Held(d) == \/ S.devices[d].tracked \/ S.devices[d].opening \/ S.devices[d].opens > 0
                      \/ \E c \in Client : C[c].device = d
           T == Kept(S)
<1>1. /\ S \in Worlds /\ \A c \in Client : S.clients[c] \in ClientInfo
      /\ \A d \in Device : S.devices[d] \in DeviceInfo
  BY Members DEF WorldInv
<1>2. /\ T.clients = C /\ T.requests = S.requests /\ T.modem = S.modem
      /\ T.devices = [d \in Device |-> IF Held(d) THEN S.devices[d] ELSE NoDevice]
  BY DEF Kept
<1>3. T \in Worlds
  <2>1. C \in [Client -> ClientInfo]
    BY <1>1, SlotTypes
  <2>2. [d \in Device |-> IF Held(d) THEN S.devices[d] ELSE NoDevice] \in [Device -> DeviceInfo]
    <3> HIDE DEF C, Held
    <3> QED BY <1>1, SlotTypes
  <2> HIDE DEF C, Held
  <2> QED BY <1>1, <2>1, <2>2 DEF Worlds, Kept, C, Held
<1> HIDE DEF T
<1>4. ASSUME NEW c \in Client
      PROVE  \/ T.clients[c] = S.clients[c]
             \/ /\ T.clients[c] = NoClient /\ S.clients[c].conn = "gone"
                /\ \A r \in Request : S.requests[r].client # c
  BY <1>2
<1>5. ASSUME NEW d \in Device
      PROVE  \/ T.devices[d] = S.devices[d]
             \/ /\ T.devices[d] = NoDevice /\ ~S.devices[d].tracked
                /\ \A c \in Client : T.clients[c].device # d
  <2> HIDE DEF C
  <2> QED BY <1>2
<1> HIDE DEF C, Held
<1>6. /\ NoClient.conn = "none" /\ NoClient.device = None /\ NoClient.events = {}
      /\ NoClient.told = None
      /\ NoDevice.path = None /\ ~NoDevice.tracked /\ NoDevice.opens = 0 /\ ~NoDevice.opening
  BY DEF NoClient, NoDevice
<1>7. \A c \in Client : /\ Tracked(T, c) <=> Tracked(S, c)
                        /\ Tracked(T, c) => T.clients[c] = S.clients[c]
  BY <1>4, <1>6 DEF Tracked
<1>8. \A r \in Request : S.requests[r].client # None =>
        T.clients[S.requests[r].client] = S.clients[S.requests[r].client]
  BY <1>4, RequestFields
<1>9. OneConfig(T)
  BY <1>2 DEF OneConfig, IsConfig, WorldInv
<1>10. OnePerPort(T)
  <2>1. \A d \in Device : T.devices[d].tracked => T.devices[d] = S.devices[d]
    BY <1>5, <1>6
  <2> QED BY <2>1 DEF OnePerPort, WorldInv
<1>11. ASSUME NEW r \in Request PROVE RequestOK(T, r)
  BY <1>2, <1>8 DEF RequestOK, WorldInv
<1>12. ASSUME NEW c \in Client PROVE ClientOK(T, c)
  <2>1. CASE T.clients[c] = NoClient
    <3>1. T.clients[c].conn = "none" /\ ~Tracked(T, c) /\ T.clients[c].device = None
          /\ T.clients[c].events = {} /\ T.clients[c].told = None
      BY <1>6, <2>1 DEF Tracked
    <3> QED BY <2>1, <3>1 DEF ClientOK
  <2>2. CASE T.clients[c] = S.clients[c]
    <3>1. ClientOK(S, c)
      BY DEF WorldInv
    <3>2. S.clients[c].device # None =>
            /\ S.clients[c].device \in Device
            /\ T.devices[S.clients[c].device] = S.devices[S.clients[c].device]
      BY <1>1, <1>5, <2>2 DEF ClientInfo
    <3>3. \A r \in Request : IsConfig(T, r, c) <=> IsConfig(S, r, c)
      BY <1>2 DEF IsConfig
    <3> QED BY <1>7, <2>2, <3>1, <3>2, <3>3 DEF ClientOK
  <2> QED BY <1>4, <2>1, <2>2
<1>13. ASSUME NEW d \in Device PROVE DeviceOK(T, d) /\ Settled(T, d)
  <2>1. Waiting(T, d) = {r \in Request : S.requests[r].stage = "opening" /\ DeviceOf(T, r) = d}
    BY <1>2 DEF Waiting
  <2>2. \A r \in Request : S.requests[r].stage = "opening" =>
          /\ DeviceOf(T, r) = DeviceOf(S, r)
          /\ T.requests[r].client \in Client
    <3>1. None \notin Client
      BY ProxyAssumption
    <3> QED BY <1>2, <1>8, <3>1, RequestFields DEF DeviceOf
  <2>3. CASE T.devices[d] = S.devices[d]
    <3>1. Merged(T, d) = Merged(S, d)
      BY <1>7 DEF Merged
    <3>2. Waiting(T, d) = Waiting(S, d)
      BY <2>1, <2>2 DEF Waiting
    <3> QED BY <1>2, <2>3, <3>1, <3>2 DEF WorldInv, DeviceOK, Settled
  <2>4. CASE T.devices[d] = NoDevice /\ \A c \in Client : T.clients[c].device # d
    <3>1. Waiting(T, d) = {}
      BY <2>1, <2>2, <2>4 DEF DeviceOf
    <3> QED BY <1>6, <2>4, <3>1 DEF DeviceOK, Settled
  <2> QED BY <1>5, <2>3, <2>4
<1>14. WorldInv(T, {})
  BY <1>3, <1>9, <1>10, <1>11, <1>12, <1>13 DEF WorldInv
<1> QED BY <1>14 DEF T

LEMMA BecomeKeeps ==
  ASSUME NEW STATE S, WorldInv(S, {}), Become(S)
  PROVE  ProxyIInv'
<1>1. WorldInv(Kept(S), {})
  BY KeptKeeps
<1>2. World' = Kept(S)
  BY DEF Become, World, Kept
<1> QED BY <1>1, <1>2 DEF ProxyIInv

(* internal_device_open() of a device that is tracked.                        *)
LEMMA InternalDeviceOpenKeeps ==
  ASSUME NEW STATE S, WorldInv(S, {}), NEW STATE M, M \in Worlds,
         NEW r \in Request, NEW c \in Client, NEW d \in Device,
         CanPlace(S, r, c, d), Placed(S, M, r, c, d), S.devices[d].tracked,
         InternalDeviceOpen(M, r)
  PROVE  ProxyIInv'
<1>1. DeviceOf(M, r) = d /\ M.devices = S.devices
  BY DEF DeviceOf, Placed
<1>2. CASE M.devices[d].status = "OPEN"
  <2> DEFINE T == [M EXCEPT !.requests[r].stage = "caps", !.requests[r].fate = Fate(M, d),
                            !.requests[r].path = None]
  <2>1. Become(T)
    BY <1>1, <1>2 DEF InternalDeviceOpen
  <2>2. WorldInv(T, {})
    BY CapsQueryKeeps
  <2> HIDE DEF T
  <2> QED BY <2>1, <2>2, BecomeKeeps
<1>3. CASE M.devices[d].status # "OPEN"
  <2>1. PICK made \in BOOLEAN : Become(InternalOpen(M, r, made))
    BY <1>1, <1>3 DEF InternalDeviceOpen
  <2> DEFINE T == InternalOpen(M, r, made)
  <2>2. Settled(S, d) /\ S.devices[d].opens \in Nat
    BY Members DEF WorldInv, DeviceInfo
  <2>3. /\ S.devices[d].opening \/ S.devices[d].opens = 0
        /\ S.devices[d].events = {} \/ S.devices[d].unsure
    BY <1>1, <1>3, <2>2 DEF Settled
  <2>4. WorldInv(T, {})
    BY <2>3, InternalOpenKeeps
  <2> HIDE DEF T
  <2>5. Become(T)
    BY <2>1 DEF T
  <2> QED BY <2>4, <2>5, BecomeKeeps
<1> QED BY <1>2, <1>3

-----------------------------------------------------------------------------
(* The actions of clients.                                                 *)

LEMMA WorldParts ==
  /\ World.clients = clients /\ World.devices = devices
  /\ World.requests = requests /\ World.modem = modem
BY DEF World

LEMMA IncomingKeeps ==
  ASSUME ProxyIInv, NEW c \in Client, Incoming(c)
  PROVE  ProxyIInv'
<1> DEFINE S == World
           T == [S EXCEPT !.clients[c].conn = "up"]
<1>1. WorldInv(S, {}) /\ S.clients[c] = NoClient /\ Become(T)
  BY WorldParts DEF ProxyIInv, Incoming
<1> HIDE DEF S
<1>2. S \in Worlds /\ S.clients[c] \in ClientInfo
  BY <1>1, Members DEF WorldInv
<1>3. /\ T \in Worlds /\ T.devices = S.devices /\ T.requests = S.requests /\ T.modem = S.modem
      /\ \A b \in Client \ {c} : T.clients[b] = S.clients[b]
      /\ T.clients[c].conn = "up" /\ T.clients[c].device = S.clients[c].device
      /\ T.clients[c].config_ongoing = S.clients[c].config_ongoing
      /\ T.clients[c].events = S.clients[c].events /\ T.clients[c].told = S.clients[c].told
  BY <1>2 DEF Worlds, ClientInfo
<1> HIDE DEF T
<1>4. /\ S.clients[c].conn = "none" /\ S.clients[c].device = None
      /\ ~S.clients[c].config_ongoing /\ S.clients[c].events = {} /\ S.clients[c].told = None
  BY <1>1 DEF NoClient
<1>5. \A r \in Request : S.requests[r].client # None =>
        /\ S.requests[r].client # c
        /\ T.clients[S.requests[r].client] = S.clients[S.requests[r].client]
  <2> TAKE r \in Request
  <2> HAVE S.requests[r].client # None
  <2>1. S.requests[r].client # c
    BY <1>1, <1>4 DEF WorldInv, RequestOK
  <2>2. S.requests[r].client \in Client \cup {None}
    BY <1>1, RequestFields
  <2> QED BY <1>3, <2>1, <2>2
<1>6. OneConfig(T) /\ OnePerPort(T)
  BY <1>1, <1>3 DEF OneConfig, OnePerPort, IsConfig, WorldInv
<1>7. ASSUME NEW r \in Request PROVE RequestOK(T, r)
  BY <1>1, <1>3, <1>5 DEF RequestOK, WorldInv
<1>8. ASSUME NEW b \in Client PROVE ClientOK(T, b)
  <2>1. CASE b = c
    BY <1>3, <1>4, <2>1 DEF ClientOK
  <2>2. CASE b # c
    <3>1. ClientOK(S, b) /\ T.clients[b] = S.clients[b]
      BY <1>1, <1>3, <2>2 DEF WorldInv
    <3> QED BY <1>3, <3>1 DEF ClientOK, IsConfig, Tracked
  <2> QED BY <2>1, <2>2
<1>9. ASSUME NEW d \in Device PROVE DeviceOK(T, d) /\ Settled(T, d)
  <2>1. d # None
    BY ProxyAssumption
  <2>2. Merged(T, d) = Merged(S, d)
    BY <1>3, <1>4, <2>1 DEF Merged, Tracked
  <2>3. Waiting(T, d) = Waiting(S, d)
    <3>1. \A r \in Request : S.requests[r].stage = "opening" => S.requests[r].client # None
      BY <1>1, RequestFields, ProxyAssumption
    <3> QED BY <1>3, <1>5, <3>1 DEF Waiting, DeviceOf
  <2> QED BY <1>1, <1>3, <2>2, <2>3 DEF WorldInv, DeviceOK, Settled
<1>10. WorldInv(T, {})
  BY <1>3, <1>6, <1>7, <1>8, <1>9 DEF WorldInv
<1> QED BY <1>1, <1>10, BecomeKeeps

LEMMA PeerClosesKeeps ==
  ASSUME ProxyIInv, NEW c \in Client, PeerCloses(c)
  PROVE  ProxyIInv'
<1> DEFINE S == World
           T == [S EXCEPT !.clients[c].conn = "lost"]
<1>1. WorldInv(S, {}) /\ S.clients[c].conn = "up" /\ Become(T)
  BY WorldParts DEF ProxyIInv, PeerCloses
<1> HIDE DEF S
<1>2. S \in Worlds /\ S.clients[c] \in ClientInfo
  BY <1>1, Members DEF WorldInv
<1>3. /\ T \in Worlds /\ T.devices = S.devices /\ T.requests = S.requests /\ T.modem = S.modem
      /\ \A b \in Client \ {c} : T.clients[b] = S.clients[b]
      /\ T.clients[c].conn = "lost" /\ T.clients[c].device = S.clients[c].device
      /\ T.clients[c].config_ongoing = S.clients[c].config_ongoing
      /\ T.clients[c].events = S.clients[c].events /\ T.clients[c].told = S.clients[c].told
  BY <1>2 DEF Worlds, ClientInfo
<1> HIDE DEF T
<1>4. \A b \in Client : /\ T.clients[b].device = S.clients[b].device
                        /\ T.clients[b].events \subseteq S.clients[b].events
                        /\ S.clients[b].conn # "none" => T.clients[b].conn # "none"
                        /\ Tracked(T, b) <=> Tracked(S, b)
                        /\ T.clients[b].config_ongoing = S.clients[b].config_ongoing
  BY <1>1, <1>3 DEF Tracked
<1>5. ASSUME NEW b \in Client PROVE ClientOK(T, b)
  <2>1. ClientOK(S, b)
    BY <1>1 DEF WorldInv
  <2>2. CASE b = c
    BY <1>1, <1>3, <1>4, <2>1, <2>2 DEF ClientOK, IsConfig
  <2>3. CASE b # c
    BY <1>3, <2>1, <2>3 DEF ClientOK, IsConfig, Tracked
  <2> QED BY <2>2, <2>3
<1>6. \A r \in Request : S.requests[r].stage = "device_new" =>
        T.clients[S.requests[r].client].config_ongoing
          = S.clients[S.requests[r].client].config_ongoing
  BY <1>1, <1>4, RequestFields
<1>7. WorldInv(T, {})
  BY <1>1, <1>3, <1>4, <1>5, <1>6, ClientsChange
<1> QED BY <1>1, <1>7, BecomeKeeps

LEMMA ClientHangupKeeps ==
  ASSUME ProxyIInv, NEW c \in Client, ClientHangup(c)
  PROVE  ProxyIInv'
<1> DEFINE T == UntrackClients(World, {c})
<1>1. WorldInv(T, {})
  BY UntrackClientsKeeps DEF ProxyIInv
<1>2. Become(T)
  BY DEF ClientHangup
<1> HIDE DEF T
<1> QED BY <1>1, <1>2, BecomeKeeps

(* The configuration c asks for, which is to have its device.                 *)
ConfigOf(c, p) == [NoRequest EXCEPT !.client = c, !.kind = "config", !.stage = "device_new",
                                    !.path = p]

LEMMA ConfigOfFields ==
  ASSUME NEW c \in Client, NEW p \in Path
  PROVE  LET R == ConfigOf(c, p)
         IN R \in RequestInfo /\ R.client = c /\ R.kind = "config" /\ R.stage = "device_new"
            /\ R.path = p
BY DEF ConfigOf, NoRequest, RequestInfo

LEMMA ConfigKeeps ==
  ASSUME ProxyIInv, NEW c \in Client, NEW p \in Path, Config(c, p)
  PROVE  ProxyIInv'
<1> DEFINE W == World
<1>1. /\ WorldInv(W, {}) /\ W.clients[c].conn = "up" /\ ~W.clients[c].config_ongoing
      /\ W.clients[c].device = None
  BY WorldParts DEF ProxyIInv, Config
<1>2. PICK r \in Request :
        LET S == [W EXCEPT !.requests[r] = ConfigOf(c, p)]
        IN /\ W.requests[r] = NoRequest
           /\ \/ \E d \in Port(p) : InternalDeviceOpen([S EXCEPT !.clients[c].device = d], r)
              \/ Become([S EXCEPT !.clients[c].config_ongoing = TRUE])
  BY WorldParts DEF Config, ConfigOf
<1> DEFINE S == [W EXCEPT !.requests[r] = ConfigOf(c, p)]
<1>3. /\ \A d \in Port(p) : d \in Device /\ W.devices[d].tracked
      /\ W.requests[r].client = None
  <2>1. \A d \in Port(p) : d \in Device /\ devices[d].tracked
    BY DEF Port
  <2>2. NoRequest.client = None
    BY DEF NoRequest
  <2>3. W.devices = devices /\ W.requests[r] = NoRequest
    BY <1>2, WorldParts
  <2> HIDE DEF W
  <2> QED BY <2>1, <2>2, <2>3
<1> HIDE DEF W
<1>4. W \in Worlds /\ W.clients[c] \in ClientInfo
  BY <1>1, Members DEF WorldInv
<1>5. /\ S \in Worlds /\ S.clients = W.clients /\ S.devices = W.devices /\ S.modem = W.modem
      /\ \A q \in Request \ {r} : S.requests[q] = W.requests[q]
      /\ S.requests[r].client = c /\ S.requests[r].kind = "config"
      /\ S.requests[r].stage = "device_new" /\ S.requests[r].path = p
  BY <1>4, ConfigOfFields DEF Worlds
<1>6. (\E d \in Port(p) : InternalDeviceOpen([S EXCEPT !.clients[c].device = d], r))
      \/ Become([S EXCEPT !.clients[c].config_ongoing = TRUE])
  BY <1>2
<1> HIDE DEF S
<1>7. c # None /\ p # None
  BY ProxyAssumption
<1>8. \A q \in Request : W.requests[q].client # c
  <2> TAKE q \in Request
  <2>1. RequestOK(W, q) /\ ClientOK(W, c)
    BY <1>1 DEF WorldInv
  <2>2. W.requests[q].client = c => W.requests[q].stage = "device_new"
    BY <1>1, <1>7, <2>1 DEF RequestOK
  <2> QED BY <1>1, <1>7, <2>1, <2>2 DEF RequestOK
<1>9. ASSUME NEW d \in Port(p), InternalDeviceOpen([S EXCEPT !.clients[c].device = d], r)
      PROVE  ProxyIInv'
  <2> DEFINE M == [S EXCEPT !.clients[c].device = d]
  <2>1. d \in Device /\ W.devices[d].tracked
    BY <1>3
  <2>2. /\ M \in Worlds /\ M.devices = S.devices /\ M.requests = S.requests /\ M.modem = S.modem
        /\ \A b \in Client \ {c} : M.clients[b] = S.clients[b]
        /\ M.clients[c].conn = S.clients[c].conn /\ M.clients[c].device = d
        /\ M.clients[c].config_ongoing = S.clients[c].config_ongoing
        /\ M.clients[c].events = S.clients[c].events /\ M.clients[c].told = S.clients[c].told
    <3>1. S \in Worlds /\ S.clients[c] \in ClientInfo
      BY <1>4, <1>5
    <3> QED BY <2>1, <3>1 DEF Worlds, ClientInfo
  <2>3. InternalDeviceOpen(M, r)
    BY <1>9
  <2> HIDE DEF M
  <2>4. Placed(W, M, r, c, d)
    BY <1>5, <2>2 DEF Placed
  <2>5. W.devices[d].path # None
    BY <1>1, <2>1 DEF WorldInv, DeviceOK, NoDevice
  <2>6. CanPlace(W, r, c, d)
    BY <1>1, <1>3, <1>8, <2>1, <2>5 DEF CanPlace, IsConfig
  <2> QED BY <1>1, <2>1, <2>2, <2>3, <2>4, <2>6, InternalDeviceOpenKeeps
<1>10. ASSUME Become([S EXCEPT !.clients[c].config_ongoing = TRUE]) PROVE ProxyIInv'
  <2> DEFINE T == [S EXCEPT !.clients[c].config_ongoing = TRUE]
  <2>1. Become(T)
    BY <1>10
  <2>2. /\ T \in Worlds /\ T.devices = S.devices /\ T.requests = S.requests /\ T.modem = S.modem
        /\ \A b \in Client \ {c} : T.clients[b] = S.clients[b]
        /\ T.clients[c].conn = S.clients[c].conn /\ T.clients[c].device = S.clients[c].device
        /\ T.clients[c].config_ongoing
        /\ T.clients[c].events = S.clients[c].events /\ T.clients[c].told = S.clients[c].told
    BY <1>4, <1>5 DEF Worlds, ClientInfo
  <2> HIDE DEF T
  <2>3. \A q \in Request, b \in Client :
          IsConfig(T, q, b) <=> IF q = r THEN b = c ELSE IsConfig(W, q, b)
    BY <1>5, <2>2 DEF IsConfig
  <2>4. OneConfig(T)
    BY <1>1, <1>8, <2>3 DEF OneConfig, IsConfig, WorldInv
  <2>5. OnePerPort(T)
    BY <1>1, <1>5, <2>2 DEF OnePerPort, WorldInv
  <2>6. ASSUME NEW q \in Request PROVE RequestOK(T, q)
    <3>1. CASE q = r
      BY <1>1, <1>5, <1>7, <2>2, <3>1 DEF RequestOK
    <3>2. CASE q # r
      <4>1. RequestOK(W, q) /\ T.requests[q] = W.requests[q]
        BY <1>1, <1>5, <2>2, <3>2 DEF WorldInv
      <4>2. W.requests[q].client # None =>
              T.clients[W.requests[q].client] = W.clients[W.requests[q].client]
        BY <1>1, <1>5, <1>8, <2>2, RequestFields
      <4> QED BY <4>1, <4>2 DEF RequestOK
    <3> QED BY <3>1, <3>2
  <2>7. ASSUME NEW b \in Client PROVE ClientOK(T, b)
    <3>1. ClientOK(W, b)
      BY <1>1 DEF WorldInv
    <3>2. CASE b = c
      BY <1>1, <1>5, <2>2, <2>3, <3>1, <3>2 DEF ClientOK
    <3>3. CASE b # c
      <4>1. T.clients[b] = W.clients[b] /\ T.devices = W.devices
        BY <1>5, <2>2, <3>3
      <4>2. \A q \in Request : IsConfig(W, q, b) => IsConfig(T, q, b)
        BY <1>3, <2>3, ProxyAssumption DEF IsConfig
      <4> QED BY <3>1, <4>1, <4>2 DEF ClientOK, Tracked
    <3> QED BY <3>2, <3>3
  <2>8. ASSUME NEW d \in Device PROVE DeviceOK(T, d) /\ Settled(T, d)
    <3>1. \A b \in Client : /\ Tracked(T, b) <=> Tracked(W, b)
                            /\ T.clients[b].device = W.clients[b].device
                            /\ T.clients[b].events = W.clients[b].events
      BY <1>5, <2>2 DEF Tracked
    <3>2. Merged(T, d) = Merged(W, d)
      BY <3>1 DEF Merged
    <3>3. Waiting(T, d) \subseteq Waiting(W, d)
      <4> SUFFICES ASSUME NEW q \in Request, T.requests[q].stage = "opening", DeviceOf(T, q) = d
                   PROVE  q \in Waiting(W, d)
        BY DEF Waiting
      <4>1. q # r /\ T.requests[q] = W.requests[q]
        BY <1>5, <2>2
      <4>2. W.requests[q].client \in Client
        BY <1>1, <4>1, RequestFields
      <4> QED BY <3>1, <4>1, <4>2 DEF Waiting, DeviceOf
    <3> QED BY <1>1, <1>5, <2>2, <3>2, <3>3 DEF WorldInv, DeviceOK, Settled
  <2>9. WorldInv(T, {})
    BY <2>2, <2>4, <2>5, <2>6, <2>7, <2>8 DEF WorldInv
  <2> QED BY <2>1, <2>9, BecomeKeeps
<1> QED BY <1>6, <1>9, <1>10

(* mbim_device_new() of a port that has no device.                            *)
NewDevice(p) == [NoDevice EXCEPT !.path = p, !.tracked = TRUE]

LEMMA NewDeviceKeeps ==
  ASSUME NEW S, WorldInv(S, {}), NEW d \in Device, S.devices[d] = NoDevice, NEW p \in Path,
         \A e \in Device : S.devices[e].tracked => S.devices[e].path # p,
         NEW T \in Worlds, T.clients = S.clients, T.requests = S.requests, T.modem = S.modem,
         \A e \in Device \ {d} : T.devices[e] = S.devices[e],
         T.devices[d] = NewDevice(p)
  PROVE  WorldInv(T, {})
<1>1. /\ T.devices[d].path = p /\ T.devices[d].tracked /\ T.devices[d].status = "CLOSED"
      /\ ~T.devices[d].channel /\ T.devices[d].opens = 0 /\ ~T.devices[d].handled
      /\ ~T.devices[d].opening /\ T.devices[d].events = {}
  BY DEF NewDevice, NoDevice
<1>2. p # None /\ S.devices[d].path = None /\ d # None
  BY ProxyAssumption DEF NoDevice
<1>3. ASSUME NEW c \in Client
      PROVE  /\ S.clients[c].device # d
             /\ S.clients[c].device # None =>
                  T.devices[S.clients[c].device] = S.devices[S.clients[c].device]
  <2>1. S.clients[c].device \in Device \cup {None} /\ ClientOK(S, c)
    BY Members DEF WorldInv, ClientInfo
  <2>2. S.clients[c].device # d
    BY <1>2, <2>1 DEF ClientOK
  <2> QED BY <2>1, <2>2
<1>4. OneConfig(T)
  BY DEF OneConfig, IsConfig, WorldInv
<1>5. OnePerPort(T)
  <2>1. \A e \in Device \ {d} : T.devices[e].tracked => T.devices[e].path # p
    OBVIOUS
  <2>2. \A e \in Device \ {d} : T.devices[e].tracked <=> S.devices[e].tracked
    OBVIOUS
  <2>3. OnePerPort(S)
    BY DEF WorldInv
  <2> QED BY <1>1, <2>1, <2>2, <2>3 DEF OnePerPort
<1>6. ASSUME NEW r \in Request PROVE RequestOK(T, r)
  BY DEF RequestOK, WorldInv
<1>7. ASSUME NEW c \in Client PROVE ClientOK(T, c)
  <2>1. ClientOK(S, c)
    BY DEF WorldInv
  <2>2. \A r \in Request : IsConfig(T, r, c) <=> IsConfig(S, r, c)
    BY DEF IsConfig
  <2>3. Tracked(T, c) <=> Tracked(S, c)
    BY DEF Tracked
  <2> QED BY <1>3, <2>1, <2>2, <2>3 DEF ClientOK
<1>8. ASSUME NEW e \in Device PROVE DeviceOK(T, e) /\ Settled(T, e)
  <2>1. Merged(T, e) = Merged(S, e) /\ Waiting(T, e) = Waiting(S, e)
    BY DEF Merged, Tracked, Waiting, DeviceOf
  <2>2. CASE e # d
    BY <2>1, <2>2 DEF WorldInv, DeviceOK, Settled
  <2>3. CASE e = d
    <3>1. Merged(S, d) = {}
      BY <1>3 DEF Merged
    <3>2. Waiting(S, d) = {}
      <4>1. \A r \in Request : S.requests[r].stage = "opening" => S.requests[r].client \in Client
        BY RequestFields
      <4> QED BY <1>3, <4>1 DEF Waiting, DeviceOf
    <3>3. DeviceOK(T, d)
      BY <1>1, <1>2, <2>1, <2>3, <3>1 DEF DeviceOK
    <3>4. Settled(T, d)
      BY <1>1, <2>1, <2>3, <3>2 DEF Settled
    <3> QED BY <2>3, <3>3, <3>4
  <2> QED BY <2>2, <2>3
<1> QED BY <1>4, <1>5, <1>6, <1>7, <1>8 DEF WorldInv

LEMMA DeviceNewReadyKeeps ==
  ASSUME ProxyIInv, NEW r \in Request, DeviceNewReady(r)
  PROVE  ProxyIInv'
<1> DEFINE W == World
           c == requests[r].client
           p == requests[r].path
           New == [NoDevice EXCEPT !.path = p, !.tracked = TRUE]
<1>1. /\ WorldInv(W, {}) /\ W.requests[r].stage = "device_new"
      /\ W.requests[r].client = c /\ W.requests[r].path = p
  BY WorldParts DEF ProxyIInv, DeviceNewReady
<1>11. \/ Become(ConfigReady(W, {r}, FALSE))
       \/ \E d \in Port(p) : InternalDeviceOpen([W EXCEPT !.clients[c].device = d], r)
       \/ /\ Port(p) = {}
          /\ \E d \in Device : /\ W.devices[d] = NoDevice
                               /\ InternalDeviceOpen([W EXCEPT !.clients[c].device = d,
                                                               !.devices[d] = New], r)
  BY WorldParts DEF DeviceNewReady
<1>2. \A d \in Device : d \in Port(p) <=> W.devices[d].tracked /\ W.devices[d].path = p
  BY WorldParts DEF Port
<1>3. Port(p) \subseteq Device
  BY DEF Port
<1> HIDE DEF W, c, p
<1>4. W \in Worlds /\ W.requests[r] \in RequestInfo
  BY <1>1, Members DEF WorldInv
<1>5. c \in Client /\ p \in Path /\ c # None /\ p # None
  <2>1. c \in Client /\ c # None
    BY <1>1, RequestFields, ProxyAssumption
  <2>2. p # None
    BY <1>1, <2>1 DEF WorldInv, RequestOK
  <2>3. p \in Path \cup {None}
    BY <1>1, <1>4 DEF RequestInfo
  <2> QED BY <2>1, <2>2, <2>3
<1>6. /\ W.requests[r].kind = "config" /\ W.clients[c].device = None
      /\ W.clients[c].conn # "none" /\ W.clients[c] \in ClientInfo
  BY <1>1, <1>4, <1>5, Members DEF WorldInv, RequestOK
<1>7. IsConfig(W, r, c) /\ \A q \in Request : IsConfig(W, q, c) => q = r
  BY <1>1, <1>5, <1>6 DEF IsConfig, WorldInv, OneConfig
<1>8. ASSUME Become(ConfigReady(W, {r}, FALSE)) PROVE ProxyIInv'
  <2>1. {r} \in SUBSET Request /\ FALSE \in BOOLEAN
    OBVIOUS
  <2>2. \A q \in {r} : W.requests[q].kind = "config"
    BY <1>6
  <2>3. WorldInv(ConfigReady(W, {r}, FALSE), {})
    BY <1>1, <2>1, <2>2, ConfigReadyKeeps
  <2> DEFINE T == ConfigReady(W, {r}, FALSE)
  <2>4. Become(T) /\ WorldInv(T, {})
    BY <1>8, <2>3
  <2> HIDE DEF T
  <2> QED BY <2>4, BecomeKeeps
<1>9. ASSUME NEW d \in Port(p), InternalDeviceOpen([W EXCEPT !.clients[c].device = d], r)
      PROVE  ProxyIInv'
  <2> DEFINE M == [W EXCEPT !.clients[c].device = d]
  <2>1. d \in Device /\ W.devices[d].tracked
    BY <1>2, <1>3
  <2>2. /\ M \in Worlds /\ M.devices = W.devices /\ M.requests = W.requests /\ M.modem = W.modem
        /\ \A b \in Client \ {c} : M.clients[b] = W.clients[b]
        /\ M.clients[c].conn = W.clients[c].conn /\ M.clients[c].device = d
        /\ M.clients[c].config_ongoing = W.clients[c].config_ongoing
        /\ M.clients[c].events = W.clients[c].events /\ M.clients[c].told = W.clients[c].told
    BY <1>4, <1>5, <1>6, <2>1 DEF Worlds, ClientInfo
  <2>3. InternalDeviceOpen(M, r)
    BY <1>9
  <2> HIDE DEF M
  <2>4. Placed(W, M, r, c, d)
    BY <1>1, <1>6, <2>2 DEF Placed
  <2>5. W.devices[d].path # None
    BY <1>1, <2>1 DEF WorldInv, DeviceOK, NoDevice
  <2>6. CanPlace(W, r, c, d)
    BY <1>6, <1>7, <2>1, <2>5 DEF CanPlace
  <2> QED BY <1>1, <1>5, <2>1, <2>2, <2>3, <2>4, <2>6, InternalDeviceOpenKeeps
<1>10. ASSUME Port(p) = {}, NEW d \in Device, W.devices[d] = NoDevice,
              InternalDeviceOpen([W EXCEPT !.clients[c].device = d, !.devices[d] = New], r)
       PROVE  ProxyIInv'
  <2> DEFINE S == [W EXCEPT !.devices[d] = New]
             M == [W EXCEPT !.clients[c].device = d, !.devices[d] = New]
  <2>1. New \in DeviceInfo
    BY <1>5 DEF NoDevice, DeviceInfo
  <2>2. New.path = p /\ New.tracked
    BY DEF NoDevice
  <2>3. InternalDeviceOpen(M, r)
    BY <1>10
  <2> HIDE DEF New
  <2>4. /\ S \in Worlds /\ S.clients = W.clients /\ S.requests = W.requests /\ S.modem = W.modem
        /\ \A e \in Device \ {d} : S.devices[e] = W.devices[e]
        /\ S.devices[d] = New
    BY <1>4, <2>1 DEF Worlds
  <2>5. /\ M \in Worlds /\ M.devices = S.devices /\ M.requests = W.requests /\ M.modem = W.modem
        /\ \A b \in Client \ {c} : M.clients[b] = W.clients[b]
        /\ M.clients[c].conn = W.clients[c].conn /\ M.clients[c].device = d
        /\ M.clients[c].config_ongoing = W.clients[c].config_ongoing
        /\ M.clients[c].events = W.clients[c].events /\ M.clients[c].told = W.clients[c].told
    BY <1>4, <1>5, <1>6, <2>1 DEF Worlds, ClientInfo
  <2> HIDE DEF S, M
  <2>6. \A e \in Device : W.devices[e].tracked => W.devices[e].path # p
    BY <1>2, <1>10
  <2>7. WorldInv(S, {})
    <3>1. S.devices[d] = NewDevice(p)
      BY <2>4 DEF New, NewDevice
    <3>2. W.devices[d] = NoDevice /\ p \in Path /\ WorldInv(W, {}) /\ S \in Worlds
      BY <1>1, <1>5, <1>10, <2>4
    <3>3. S.clients = W.clients /\ S.requests = W.requests /\ S.modem = W.modem
          /\ \A e \in Device \ {d} : S.devices[e] = W.devices[e]
      BY <2>4
    <3> QED BY <2>6, <3>1, <3>2, <3>3, NewDeviceKeeps
  <2>8. Placed(S, M, r, c, d)
    BY <1>1, <1>6, <2>4, <2>5 DEF Placed
  <2>9. CanPlace(S, r, c, d)
    BY <1>5, <1>6, <1>7, <2>2, <2>4 DEF CanPlace, IsConfig
  <2> QED BY <1>5, <2>2, <2>3, <2>4, <2>5, <2>7, <2>8, <2>9, InternalDeviceOpenKeeps
<1> QED BY <1>8, <1>9, <1>10, <1>11

(* A message of a client that has its device is written to the device.        *)
LEMMA AskKeeps ==
  ASSUME NEW S, WorldInv(S, {}), NEW T \in Worlds, NEW r \in Request, NEW c \in Client,
         S.requests[r] = NoRequest, S.clients[c].conn # "none", S.clients[c].device # None,
         T.clients = S.clients, T.devices = S.devices, T.modem = S.modem,
         \A q \in Request \ {r} : T.requests[q] = S.requests[q],
         T.requests[r].client = c, T.requests[r].kind \in {"command", "subscribe"},
         T.requests[r].stage = "command"
  PROVE  WorldInv(T, {})
<1>1. c # None /\ S.requests[r].client = None /\ S.requests[r].stage = "none"
  BY ProxyAssumption DEF NoRequest
<1>2. \A q \in Request, b \in Client : IsConfig(T, q, b) <=> IsConfig(S, q, b)
  BY <1>1, ProxyAssumption DEF IsConfig
<1>3. OneConfig(T) /\ OnePerPort(T)
  BY <1>2 DEF OneConfig, OnePerPort, WorldInv
<1>4. ASSUME NEW q \in Request PROVE RequestOK(T, q)
  BY <1>1 DEF RequestOK, WorldInv
<1>5. ASSUME NEW b \in Client PROVE ClientOK(T, b)
  BY <1>2 DEF ClientOK, Tracked, WorldInv
<1>6. ASSUME NEW d \in Device PROVE DeviceOK(T, d) /\ Settled(T, d)
  <2>1. Merged(T, d) = Merged(S, d)
    BY DEF Merged, Tracked
  <2>2. Waiting(T, d) = Waiting(S, d)
    BY <1>1 DEF Waiting, DeviceOf
  <2> QED BY <2>1, <2>2 DEF DeviceOK, Settled, WorldInv
<1> QED BY <1>3, <1>4, <1>5, <1>6 DEF WorldInv

LEMMA FateType ==
  ASSUME NEW S, NEW d PROVE Fate(S, d) \in {"unsent", "answer", "not_opened"}
BY DEF Fate

LEMMA CommandKeeps ==
  ASSUME ProxyIInv, NEW c \in Client, Command(c)
  PROVE  ProxyIInv'
<1> DEFINE W == World
           fate == Fate(World, clients[c].device)
           R == [NoRequest EXCEPT !.client = c, !.kind = "command", !.stage = "command",
                                  !.fate = fate]
<1>1. WorldInv(W, {}) /\ W.clients[c].conn = "up" /\ W.clients[c].device # None
  BY WorldParts DEF ProxyIInv, Command
<1>2. PICK r \in Request : W.requests[r] = NoRequest /\ Become([W EXCEPT !.requests[r] = R])
  BY WorldParts DEF Command
<1>3. fate \in {"unsent", "answer", "not_opened"}
  BY FateType
<1> HIDE DEF W, fate
<1>4. R \in RequestInfo /\ R.client = c /\ R.kind = "command" /\ R.stage = "command"
  BY <1>3 DEF NoRequest, RequestInfo
<1> HIDE DEF R
<1> DEFINE T == [W EXCEPT !.requests[r] = R]
<1>5. W \in Worlds
  BY <1>1 DEF WorldInv
<1>6. /\ T \in Worlds /\ T.clients = W.clients /\ T.devices = W.devices /\ T.modem = W.modem
      /\ \A q \in Request \ {r} : T.requests[q] = W.requests[q]
      /\ T.requests[r] = R
  BY <1>4, <1>5 DEF Worlds
<1>7. Become(T)
  BY <1>2
<1> HIDE DEF T
<1>8. WorldInv(T, {})
  BY <1>1, <1>2, <1>4, <1>6, AskKeeps
<1> QED BY <1>7, <1>8, BecomeKeeps

(* A client changed what it subscribes to, and the merged list of its device  *)
(* with it, so that the modem has it or that it is known to be unsure.        *)
LEMMA SubscribedKeeps ==
  ASSUME NEW S, WorldInv(S, {}), NEW T \in Worlds, NEW c \in Client, NEW d \in Device,
         S.clients[c].conn = "up", S.clients[c].device = d,
         T.requests = S.requests,
         \A b \in Client \ {c} : T.clients[b] = S.clients[b],
         T.clients[c].conn = "up", T.clients[c].device = d,
         T.clients[c].config_ongoing <=> S.clients[c].config_ongoing,
         T.clients[c].told = S.clients[c].told,
         \A e \in Device \ {d} : T.devices[e] = S.devices[e],
         T.devices[d].path = S.devices[d].path,
         T.devices[d].tracked <=> S.devices[d].tracked,
         T.devices[d].status = S.devices[d].status,
         T.devices[d].channel <=> S.devices[d].channel,
         T.devices[d].opens = S.devices[d].opens,
         T.devices[d].opening <=> S.devices[d].opening,
         T.devices[d].version = S.devices[d].version,
         T.devices[d].events = Merged(T, d),
         \A q \in Path : q # S.devices[d].path => T.modem[q] = S.modem[q],
         \/ T.devices[d].unsure
         \/ T.devices[d].status = "OPEN" /\ T.modem[S.devices[d].path].events = T.devices[d].events
         \/ T.devices[d] = S.devices[d] /\ T.modem = S.modem
  PROVE  WorldInv(T, {})
<1>1. /\ S \in Worlds /\ d # None /\ Tracked(S, c) /\ Tracked(T, c)
      /\ S.devices[d].tracked /\ S.devices[d].path # None
  BY ProxyAssumption DEF WorldInv, ClientOK, Tracked
<1>2. \A b \in Client : /\ Tracked(T, b) <=> Tracked(S, b)
                        /\ T.clients[b].device = S.clients[b].device
                        /\ T.clients[b].conn = S.clients[b].conn
                        /\ T.clients[b].config_ongoing <=> S.clients[b].config_ongoing
                        /\ T.clients[b].told = S.clients[b].told
  BY <1>1 DEF Tracked
<1>3. \A e \in Device : /\ T.devices[e].tracked <=> S.devices[e].tracked
                        /\ T.devices[e].path = S.devices[e].path
                        /\ T.devices[e].version = S.devices[e].version
  OBVIOUS
<1>4. OneConfig(T)
  BY DEF OneConfig, IsConfig, WorldInv
<1>5. OnePerPort(S) /\ OnePerPort(T)
  BY <1>3 DEF OnePerPort, WorldInv
<1>6. ASSUME NEW r \in Request PROVE RequestOK(T, r)
  <2>1. RequestOK(S, r) /\ S.requests[r].client \in Client \cup {None}
    BY RequestFields DEF WorldInv
  <2> QED BY <1>2, <2>1 DEF RequestOK
<1>7. ASSUME NEW b \in Client PROVE ClientOK(T, b)
  <2>1. ClientOK(S, b) /\ S.clients[b].device \in Device \cup {None}
    BY <1>1, Members DEF WorldInv, ClientInfo
  <2>2. \A r \in Request : IsConfig(T, r, b) <=> IsConfig(S, r, b)
    BY DEF IsConfig
  <2>3. T.clients[b].conn = "none" => T.clients[b] = S.clients[b]
    OBVIOUS
  <2>4. T.clients[b].device = None => T.clients[b].events = S.clients[b].events
    BY <1>1
  <2> QED BY <1>2, <1>3, <2>1, <2>2, <2>3, <2>4 DEF ClientOK
<1>8. ASSUME NEW e \in Device PROVE Waiting(T, e) = Waiting(S, e)
  <2>1. \A r \in Request : S.requests[r].stage = "opening" => DeviceOf(T, r) = DeviceOf(S, r)
    BY <1>2, RequestFields DEF DeviceOf
  <2> QED BY <2>1 DEF Waiting
<1>9. ASSUME NEW e \in Device \ {d} PROVE DeviceOK(T, e) /\ Settled(T, e)
  <2>1. T.devices[e] = S.devices[e] /\ DeviceOK(S, e) /\ Settled(S, e)
    BY DEF WorldInv
  <2>2. Merged(T, e) = Merged(S, e)
    <3>1. \A b \in Client : T.clients[b].device = e => T.clients[b] = S.clients[b]
      OBVIOUS
    <3> QED BY <1>2, <3>1 DEF Merged
  <2>3. S.devices[e].tracked =>
          S.devices[e].path \in Path /\ T.modem[S.devices[e].path] = S.modem[S.devices[e].path]
    <3>1. /\ S.devices[e].path \in Path \cup {None}
          /\ S.devices[e].tracked => S.devices[e].path # None
      BY <1>1, <2>1, Members DEF DeviceInfo, DeviceOK, NoDevice
    <3> QED BY <1>1, <1>5, <3>1 DEF OnePerPort
  <2> QED BY <1>8, <2>1, <2>2, <2>3 DEF DeviceOK, Settled
<1>10. DeviceOK(T, d)
  <2>1. DeviceOK(S, d)
    BY DEF WorldInv
  <2> QED BY <1>1, <2>1 DEF DeviceOK
<1>11. Settled(T, d)
  <2>1. Settled(S, d)
    BY DEF WorldInv
  <2> QED BY <1>1, <1>8, <2>1 DEF Settled
<1> QED BY <1>4, <1>5, <1>6, <1>7, <1>9, <1>10, <1>11 DEF WorldInv

LEMMA SubscribeKeeps ==
  ASSUME ProxyIInv, NEW c \in Client, NEW events \in SUBSET Event, Subscribe(c, events)
  PROVE  ProxyIInv'
<1> DEFINE W == World
           S == [W EXCEPT !.clients[c].events = events]
           d == clients[c].device
           merged == Merged(S, d)
           path == devices[d].path
           R(fate) == [NoRequest EXCEPT !.client = c, !.kind = "subscribe", !.stage = "command",
                                        !.fate = fate]
<1>1. /\ WorldInv(W, {}) /\ W.clients[c].conn = "up" /\ W.clients[c].device = d /\ d # None
      /\ path = W.devices[d].path
  BY WorldParts DEF ProxyIInv, Subscribe
<1>2. \/ W.devices[d].events = merged /\ Become(S)
      \/ \E r \in Request : \E done \in BOOLEAN :
           /\ W.requests[r] = NoRequest
           /\ done => Fate(S, d) = "answer"
           /\ Become([S EXCEPT !.devices[d].events = merged,
                               !.devices[d].unsure = @ \/ ~done \/ W.devices[d].status # "OPEN",
                               !.modem = IF done THEN [@ EXCEPT ![path].events = merged] ELSE @,
                               !.requests[r] = R(Fate(S, d))])
  BY WorldParts DEF Subscribe
<1> HIDE DEF W, d, path
<1>3. W \in Worlds /\ W.clients[c] \in ClientInfo
  BY <1>1, Members DEF WorldInv
<1>4. d \in Device /\ W.devices[d] \in DeviceInfo
  <2>1. d \in Device
    BY <1>1, <1>3 DEF ClientInfo
  <2> QED BY <1>3, <2>1, Members
<1>5. path \in Path /\ W.devices[d].tracked
  <2>1. W.devices[d].path # None /\ W.devices[d].tracked
    BY <1>1 DEF WorldInv, ClientOK, Tracked
  <2>2. W.devices[d].path \in Path \cup {None}
    BY <1>4 DEF DeviceInfo
  <2> QED BY <1>1, <2>1, <2>2
<1>6. /\ S \in Worlds /\ S.devices = W.devices /\ S.requests = W.requests /\ S.modem = W.modem
      /\ \A b \in Client \ {c} : S.clients[b] = W.clients[b]
      /\ S.clients[c].conn = "up" /\ S.clients[c].device = d
      /\ S.clients[c].config_ongoing = W.clients[c].config_ongoing
      /\ S.clients[c].told = W.clients[c].told
  BY <1>1, <1>3 DEF Worlds, ClientInfo
<1>7. merged \in SUBSET Event
  <2>1. \A b \in Client : S.clients[b].events \subseteq Event
    <3> HIDE DEF S
    <3> QED BY <1>6, Members DEF ClientInfo
  <2> HIDE DEF S
  <2> QED BY <2>1 DEF Merged
<1>8. ASSUME W.devices[d].events = merged, Become(S)
      PROVE  ProxyIInv'
  <2> HIDE DEF S
  <2>1. S.devices[d].events = Merged(S, d)
    BY <1>6, <1>8
  <2>2. WorldInv(S, {})
    BY <1>1, <1>4, <1>6, <2>1, SubscribedKeeps
  <2> QED BY <1>8, <2>2, BecomeKeeps
<1>9. ASSUME NEW r \in Request, NEW done \in BOOLEAN, W.requests[r] = NoRequest
      PROVE  WorldInv([S EXCEPT !.devices[d].events = merged,
                                !.devices[d].unsure = @ \/ ~done \/ W.devices[d].status # "OPEN",
                                !.modem = IF done THEN [@ EXCEPT ![path].events = merged] ELSE @,
                                !.requests[r] = R(Fate(S, d))], {})
  <2> DEFINE fate == Fate(S, d)
             unsure == S.devices[d].unsure \/ ~done \/ W.devices[d].status # "OPEN"
             D == [S.devices[d] EXCEPT !.events = merged, !.unsure = unsure]
             modem2 == IF done THEN [S.modem EXCEPT ![path].events = merged] ELSE S.modem
             U == [S EXCEPT !.devices = [@ EXCEPT ![d] = D], !.modem = modem2]
             T == [U EXCEPT !.requests[r] = R(fate)]
  <2> HIDE DEF S, merged
  <2>1. unsure \in BOOLEAN /\ S.devices[d] \in DeviceInfo
    BY <1>4, <1>6
  <2> HIDE DEF unsure
  <2>2. D \in DeviceInfo /\ D.events = merged /\ D.unsure = unsure
        /\ D.path = S.devices[d].path /\ (D.tracked <=> S.devices[d].tracked)
        /\ D.status = S.devices[d].status /\ (D.channel <=> S.devices[d].channel)
        /\ D.opens = S.devices[d].opens /\ (D.opening <=> S.devices[d].opening)
        /\ D.version = S.devices[d].version
    BY <1>7, <2>1 DEF DeviceInfo
  <2>3. /\ modem2 \in [Path -> Modem] /\ \A q \in Path \ {path} : modem2[q] = S.modem[q]
        /\ done => modem2[path].events = merged
    <3>1. S.modem \in [Path -> Modem]
      BY <1>6 DEF Worlds
    <3> QED BY <1>5, <1>7, <3>1 DEF Modem
  <2> HIDE DEF D, modem2
  <2>4. /\ U \in Worlds /\ U.clients = S.clients /\ U.requests = S.requests /\ U.modem = modem2
        /\ \A e \in Device \ {d} : U.devices[e] = S.devices[e]
        /\ U.devices[d] = D
    BY <1>4, <1>6, <2>2, <2>3 DEF Worlds
  <2> HIDE DEF U
  <2>5. U.devices[d].events = Merged(U, d)
    BY <2>2, <2>4 DEF Merged, Tracked, merged
  <2>6. \/ U.devices[d].unsure
        \/ U.devices[d].status = "OPEN" /\ U.modem[W.devices[d].path].events = U.devices[d].events
    <3>1. unsure \/ (done /\ W.devices[d].status = "OPEN")
      BY DEF unsure
    <3>2. unsure => U.devices[d].unsure
      BY <2>2, <2>4
    <3>3. done => U.modem[W.devices[d].path].events = U.devices[d].events
      BY <1>1, <2>2, <2>3, <2>4
    <3>4. U.devices[d].status = W.devices[d].status
      BY <1>6, <2>2, <2>4
    <3> QED BY <3>1, <3>2, <3>3, <3>4
  <2>7. WorldInv(U, {})
    <3>1. /\ \A b \in Client \ {c} : U.clients[b] = W.clients[b]
          /\ U.clients[c].conn = "up" /\ U.clients[c].device = d
          /\ U.clients[c].config_ongoing <=> W.clients[c].config_ongoing
          /\ U.clients[c].told = W.clients[c].told
      BY <1>6, <2>4
    <3>2. /\ U.requests = W.requests
          /\ \A e \in Device \ {d} : U.devices[e] = W.devices[e]
          /\ \A q \in Path : q # W.devices[d].path => U.modem[q] = W.modem[q]
      BY <1>1, <1>6, <2>3, <2>4
    <3>3. /\ U.devices[d].path = W.devices[d].path
          /\ U.devices[d].tracked <=> W.devices[d].tracked
          /\ U.devices[d].status = W.devices[d].status
          /\ U.devices[d].channel <=> W.devices[d].channel
          /\ U.devices[d].opens = W.devices[d].opens
          /\ U.devices[d].opening <=> W.devices[d].opening
          /\ U.devices[d].version = W.devices[d].version
      BY <1>6, <2>2, <2>4
    <3> QED BY <1>1, <1>4, <2>4, <2>5, <2>6, <3>1, <3>2, <3>3, SubscribedKeeps
  <2>8. fate \in {"unsent", "answer", "not_opened"}
    BY FateType
  <2> HIDE DEF fate
  <2>9. R(fate) \in RequestInfo /\ R(fate).client = c /\ R(fate).kind = "subscribe"
        /\ R(fate).stage = "command"
    BY <2>8 DEF NoRequest, RequestInfo
  <2>10. U.clients[c].conn # "none" /\ U.clients[c].device # None /\ U.requests[r] = NoRequest
    BY <1>1, <1>6, <1>9, <2>4
  <2> DEFINE Q == R(fate)
  <2> HIDE DEF R
  <2>11. /\ T \in Worlds /\ T.clients = U.clients /\ T.devices = U.devices /\ T.modem = U.modem
         /\ \A q \in Request \ {r} : T.requests[q] = U.requests[q]
         /\ T.requests[r] = R(fate)
    BY <2>4, <2>9 DEF Worlds
  <2> HIDE DEF T
  <2>12. WorldInv(T, {})
    BY <2>7, <2>9, <2>10, <2>11, AskKeeps
  <2>13. T = [S EXCEPT !.devices[d].events = merged,
                       !.devices[d].unsure = @ \/ ~done \/ W.devices[d].status # "OPEN",
                       !.modem = IF done THEN [@ EXCEPT ![path].events = merged] ELSE @,
                       !.requests[r] = R(Fate(S, d))]
    BY <1>4, <1>6 DEF T, U, D, modem2, unsure, fate, Worlds
  <2> QED BY <2>12, <2>13
<1>10. ASSUME NEW r \in Request, NEW done \in BOOLEAN, W.requests[r] = NoRequest,
              Become([S EXCEPT !.devices[d].events = merged,
                               !.devices[d].unsure = @ \/ ~done \/ W.devices[d].status # "OPEN",
                               !.modem = IF done THEN [@ EXCEPT ![path].events = merged] ELSE @,
                               !.requests[r] = R(Fate(S, d))])
       PROVE  ProxyIInv'
  <2> DEFINE T == [S EXCEPT !.devices[d].events = merged,
                               !.devices[d].unsure = @ \/ ~done \/ W.devices[d].status # "OPEN",
                               !.modem = IF done THEN [@ EXCEPT ![path].events = merged] ELSE @,
                               !.requests[r] = R(Fate(S, d))]
  <2>1. WorldInv(T, {}) /\ Become(T)
    BY <1>9, <1>10
  <2> HIDE DEF T
  <2> QED BY <2>1, BecomeKeeps
<1> QED BY <1>2, <1>8, <1>10

-----------------------------------------------------------------------------
(* The actions of devices and modems.                                      *)

LEMMA DeviceOpenReadyKeeps ==
  ASSUME ProxyIInv, NEW d \in Device, DeviceOpenReady(d)
  PROVE  ProxyIInv'
<1> DEFINE W == World
           Ended(status) == [W EXCEPT !.devices[d].status = status,
                                      !.devices[d].opens = @ - 1, !.devices[d].handled = FALSE]
<1>1. WorldInv(W, {}) /\ W.devices[d].opens > 0
  BY WorldParts DEF ProxyIInv, DeviceOpenReady
<1>2. \/ /\ W.devices[d].handled /\ W.devices[d].channel
         /\ Become(CompleteOpening(Ended("OPEN"), d, TRUE))
      \/ Become(UntrackDevice(CompleteOpening(Ended("CLOSED"), d, FALSE), d))
  BY WorldParts DEF DeviceOpenReady
<1> HIDE DEF W
<1>3. /\ W \in Worlds /\ W.devices[d] \in DeviceInfo /\ W.devices[d].opens = 1
      /\ W.devices[d].path # None
      /\ Waiting(W, d) # {} => W.devices[d].opening
  <2>1. W \in Worlds /\ W.devices[d] \in DeviceInfo /\ Settled(W, d) /\ DeviceOK(W, d)
    BY <1>1, Members DEF WorldInv
  <2> QED BY <1>1, <2>1 DEF Settled, DeviceOK, NoDevice, DeviceInfo
<1>4. ASSUME NEW status \in {"OPEN", "CLOSED"},
             status = "OPEN" => W.devices[d].handled /\ W.devices[d].channel
      PROVE  /\ WorldInv(Ended(status), {d})
             /\ Waiting(Ended(status), d) # {} => Ended(status).devices[d].opening
             /\ Ended(status).devices[d].opens = 0
             /\ Ended(status).devices[d].status = status
  <2> DEFINE D == [W.devices[d] EXCEPT !.status = status, !.opens = 0, !.handled = FALSE]
             T == Ended(status)
  <2>1. D \in DeviceInfo /\ D.status = status /\ D.opens = 0 /\ ~D.handled
        /\ D.path = W.devices[d].path /\ (D.tracked <=> W.devices[d].tracked)
        /\ (D.opening <=> W.devices[d].opening) /\ D.events = W.devices[d].events
        /\ D.version = W.devices[d].version /\ (D.unsure <=> W.devices[d].unsure)
    BY <1>3 DEF DeviceInfo
  <2>2. /\ T.clients = W.clients /\ T.requests = W.requests /\ T.modem = W.modem
        /\ T.devices = [W.devices EXCEPT ![d] = D]
    BY <1>3 DEF Worlds, DeviceInfo
  <2> HIDE DEF D
  <2>3. T \in Worlds /\ T.devices[d] = D /\ \A e \in Device \ {d} : T.devices[e] = W.devices[e]
    <3>1. T.devices \in [Device -> DeviceInfo] /\ T.devices[d] = D
          /\ \A e \in Device \ {d} : T.devices[e] = W.devices[e]
      <4> HIDE DEF T
      <4>1. W.devices \in [Device -> DeviceInfo]
        BY <1>3 DEF Worlds
      <4> QED BY <2>1, <2>2, <4>1
    <3> QED BY <1>3, <3>1 DEF Worlds
  <2> HIDE DEF T
  <2>4. DeviceOK(T, d)
    <3>1. Merged(T, d) = Merged(W, d)
      BY <2>2 DEF Merged, Tracked
    <3>2. DeviceOK(W, d)
      BY <1>1 DEF WorldInv
    <3> QED BY <1>3, <1>4, <2>1, <2>2, <2>3, <3>1, <3>2 DEF DeviceOK
  <2>5. WorldInv(T, {} \cup {d}) /\ Waiting(T, d) = Waiting(W, d)
    <3>1. /\ T.devices[d].path = W.devices[d].path
          /\ T.devices[d].version = W.devices[d].version
          /\ T.devices[d].tracked <=> W.devices[d].tracked
      BY <2>1, <2>3
    <3>2. /\ T.devices[d].tracked => W.devices[d].tracked
          /\ ~(W.devices[d].tracked /\ ~T.devices[d].tracked)
      BY <3>1
    <3>3. /\ T \in Worlds /\ T.clients = W.clients /\ T.requests = W.requests
          /\ T.modem = W.modem /\ \A e \in Device \ {d} : T.devices[e] = W.devices[e]
      BY <2>2, <2>3
    <3> HIDE DEF Ended
    <3> QED BY <1>1, <2>4, <3>1, <3>2, <3>3, DeviceChanges
  <2>6. WorldInv(T, {d})
    <3>1. {} \cup {d} = {d}
      OBVIOUS
    <3> QED BY <2>5, <3>1
  <2>7. Waiting(T, d) # {} => T.devices[d].opening
    BY <1>3, <2>1, <2>3, <2>5
  <2>8. T.devices[d].opens = 0 /\ T.devices[d].status = status
    BY <2>1, <2>3
  <2> QED BY <2>6, <2>7, <2>8 DEF T
<1> HIDE DEF Ended
<1>5. ASSUME W.devices[d].handled, W.devices[d].channel,
             Become(CompleteOpening(Ended("OPEN"), d, TRUE))
      PROVE  ProxyIInv'
  <2> DEFINE S == Ended("OPEN")
             T == CompleteOpening(S, d, TRUE)
  <2>1. /\ WorldInv(S, {d}) /\ S.devices[d].opens = 0 /\ S.devices[d].status = "OPEN"
        /\ Waiting(S, d) # {} => S.devices[d].opening
    BY <1>4, <1>5
  <2> HIDE DEF S
  <2>2. WorldInv(T, {d}) /\ Completed(S, T, d)
    BY <2>1, CompleteOpeningKeeps
  <2>3. Become(T)
    BY <1>5 DEF S
  <2> HIDE DEF T
  <2>4. Settled(T, d)
    BY <2>1, <2>2 DEF Completed, Settled
  <2>5. WorldInv(T, {})
    BY <2>2, <2>4, Settles
  <2> QED BY <2>3, <2>5, BecomeKeeps
<1>6. ASSUME Become(UntrackDevice(CompleteOpening(Ended("CLOSED"), d, FALSE), d))
      PROVE  ProxyIInv'
  <2> DEFINE S == Ended("CLOSED")
             U == CompleteOpening(S, d, FALSE)
             T == UntrackDevice(U, d)
  <2>1. /\ WorldInv(S, {d}) /\ S.devices[d].opens = 0
        /\ Waiting(S, d) # {} => S.devices[d].opening
    BY <1>4
  <2> HIDE DEF S
  <2>2. WorldInv(U, {d}) /\ Completed(S, U, d)
    BY <2>1, CompleteOpeningKeeps
  <2>3. Become(T)
    BY <1>6 DEF S
  <2> HIDE DEF U
  <2>4. Waiting(U, d) = {} /\ U.devices[d].opens = 0 /\ ~U.devices[d].opening
    BY <2>1, <2>2 DEF Completed
  <2>5. ~U.devices[d].tracked => Settled(U, d)
    BY <2>4 DEF Settled
  <2>6. WorldInv(T, {})
    BY <2>2, <2>4, <2>5, UntrackDeviceKeeps
  <2> HIDE DEF T
  <2> QED BY <2>3, <2>6, BecomeKeeps
<1> QED BY <1>2, <1>5, <1>6

LEMMA DeviceRemovedKeeps ==
  ASSUME ProxyIInv, NEW d \in Device, DeviceRemoved(d)
  PROVE  ProxyIInv'
<1> DEFINE W == World
           U == CloseForce(W, d)
           T == UntrackDevice(U, d)
<1>1. WorldInv(W, {}) /\ W.devices[d].channel
  BY WorldParts DEF ProxyIInv, DeviceRemoved
<1>2. Become(T)
  BY DEF DeviceRemoved
<1> HIDE DEF W
<1>3. W.devices[d].path # None /\ Settled(W, d)
  BY <1>1 DEF WorldInv, DeviceOK, NoDevice
<1>4. WorldInv(U, {} \cup {d}) /\ Closed(W, U, d)
  BY <1>1, <1>3, CloseForceKeeps
<1>5. WorldInv(U, {d})
  <2>1. {} \cup {d} = {d}
    OBVIOUS
  <2> QED BY <1>4, <2>1
<1> HIDE DEF U
<1>6. ~U.devices[d].tracked => Settled(U, d)
  BY <1>3, <1>4 DEF Closed, Settled
<1>7. WorldInv(T, {})
  <2>1. /\ Waiting(U, d) # {} => U.devices[d].opening
        /\ U.devices[d].opens <= 1
        /\ U.devices[d].opens = 1 => ~U.devices[d].channel /\ U.devices[d].status # "OPEN"
    BY <1>3, <1>4 DEF Closed, Settled
  <2> QED BY <1>5, <1>6, <2>1, UntrackDeviceKeeps
<1> HIDE DEF T
<1> QED BY <1>2, <1>7, BecomeKeeps

LEMMA ErrorReportedKeeps ==
  ASSUME ProxyIInv, NEW d \in Device, ErrorReported(d)
  PROVE  ProxyIInv'
<1> DEFINE T == DeviceError(World, d)
<1>1. WorldInv(T, {})
  BY DeviceErrorKeeps DEF ProxyIInv
<1>2. Become(T)
  BY DEF ErrorReported
<1> HIDE DEF T
<1> QED BY <1>1, <1>2, BecomeKeeps

LEMMA CapsQueryReadyKeeps ==
  ASSUME ProxyIInv, NEW r \in Request, CapsQueryReady(r)
  PROVE  ProxyIInv'
<1> DEFINE W == World
           c == W.requests[r].client
           d == DeviceOf(W, r)
           S == CloseForce(ResetLists(W, d), d)
<1>1. WorldInv(W, {}) /\ W.requests[r].stage = "caps"
  BY WorldParts DEF ProxyIInv, CapsQueryReady
<1>2. \/ Become(ConfigReady(W, {r}, TRUE))
      \/ W.devices[d].channel /\ \E made \in BOOLEAN : Become(InternalOpen(S, r, made))
  BY WorldParts DEF CapsQueryReady
<1> HIDE DEF W
<1>3. /\ c \in Client /\ W.requests[r].kind = "config" /\ d = W.clients[c].device
      /\ d \in Device /\ W.devices[d].path # None /\ W.clients[c].conn # "none"
      /\ Tracked(W, c) => W.devices[d].tracked
  <2>1. c \in Client /\ c # None /\ W \in Worlds
    BY <1>1, RequestFields, ProxyAssumption DEF WorldInv
  <2>2. RequestOK(W, r) /\ ClientOK(W, c) /\ W.clients[c] \in ClientInfo
    BY <1>1, <2>1, Members DEF WorldInv
  <2>3. W.requests[r].kind = "config" /\ W.clients[c].device # None /\ W.clients[c].conn # "none"
    BY <1>1, <2>1, <2>2 DEF RequestOK
  <2>4. d = W.clients[c].device
    BY DEF DeviceOf
  <2> QED BY <2>1, <2>2, <2>3, <2>4 DEF ClientOK, ClientInfo
<1> HIDE DEF c, d
<1>4. WorldInv(S, {}) /\ Forgotten(W, S, d)
  BY <1>1, <1>3, ForgetKeeps
<1>5. ASSUME Become(ConfigReady(W, {r}, TRUE)) PROVE ProxyIInv'
  <2> DEFINE T == ConfigReady(W, {r}, TRUE)
  <2>1. {r} \in SUBSET Request /\ TRUE \in BOOLEAN
    OBVIOUS
  <2>2. \A q \in {r} : W.requests[q].kind = "config" /\ W.requests[q].stage # "device_new"
    BY <1>1, <1>3
  <2>3. WorldInv(T, {})
    BY <1>1, <2>1, <2>2, ConfigReadyKeeps
  <2>4. Become(T)
    BY <1>5
  <2> HIDE DEF T
  <2> QED BY <2>3, <2>4, BecomeKeeps
<1>6. ASSUME W.devices[d].channel, NEW made \in BOOLEAN, Become(InternalOpen(S, r, made))
      PROVE  ProxyIInv'
  <2> DEFINE T == InternalOpen(S, r, made)
  <2>1. Become(T)
    BY <1>6
  <2> HIDE DEF S
  <2>2. /\ S \in Worlds /\ S.requests = W.requests
        /\ S.clients[c].device = d /\ S.clients[c].conn = W.clients[c].conn
        /\ Tracked(S, c) <=> Tracked(W, c)
        /\ S.devices[d].path # None /\ (S.devices[d].tracked <=> W.devices[d].tracked)
        /\ S.devices[d].opens = W.devices[d].opens
        /\ S.devices[d].opening <=> W.devices[d].opening
        /\ S.devices[d].events = {}
        /\ S.requests[r].client = c /\ S.requests[r].kind = "config"
    BY <1>3, <1>4 DEF Forgotten, Tracked, WorldInv, c
  <2>3. Placed(S, S, r, c, d)
    BY <2>2 DEF Placed
  <2>4. CanPlace(S, r, c, d)
    <3>1. IsConfig(S, r, c) /\ \A q \in Request : IsConfig(S, q, c) => q = r
      BY <1>3, <1>4, <2>2 DEF IsConfig, WorldInv, OneConfig
    <3> QED BY <1>3, <2>2, <3>1 DEF CanPlace
  <2>5. S.devices[d].opening \/ S.devices[d].opens = 0
    <3>1. Settled(W, d) /\ W.devices[d] \in DeviceInfo
      BY <1>1, <1>3, Members DEF WorldInv
    <3> QED BY <1>6, <2>2, <3>1 DEF Settled, DeviceInfo
  <2>6. WorldInv(T, {})
    BY <1>3, <1>4, <2>2, <2>3, <2>4, <2>5, InternalOpenKeeps
  <2> HIDE DEF T
  <2> QED BY <2>1, <2>6, BecomeKeeps
<1> QED BY <1>2, <1>5, <1>6

(* monitor_ms_basic_connect_extensions_version_response().                    *)
LEMMA VersionAgreedKeeps ==
  ASSUME NEW S, WorldInv(S, {}), NEW d \in Device, S.devices[d].path # None, NEW v \in Version
  PROVE  LET T == VersionAgreed(S, d, v) IN WorldInv(T, {}) /\ T.requests = S.requests
<1> DEFINE Told(c) == [S.clients[c] EXCEPT !.told = v]
           D == [S.devices[d] EXCEPT !.version = v]
           T == VersionAgreed(S, d, v)
<1>1. /\ S \in Worlds /\ S.devices[d] \in DeviceInfo
      /\ \A c \in Client : S.clients[c] \in ClientInfo
  BY Members DEF WorldInv
<1>2. ASSUME NEW c \in Client
      PROVE  /\ Told(c) \in ClientInfo /\ Told(c).conn = S.clients[c].conn
             /\ Told(c).device = S.clients[c].device /\ Told(c).events = S.clients[c].events
             /\ Told(c).config_ongoing = S.clients[c].config_ongoing /\ Told(c).told = v
  BY <1>1 DEF ClientInfo
<1>3. /\ D \in DeviceInfo /\ D.version = v
      /\ D.path = S.devices[d].path /\ (D.tracked <=> S.devices[d].tracked)
      /\ D.status = S.devices[d].status /\ (D.channel <=> S.devices[d].channel)
      /\ D.opens = S.devices[d].opens /\ (D.handled <=> S.devices[d].handled)
      /\ (D.opening <=> S.devices[d].opening) /\ D.events = S.devices[d].events
      /\ (D.unsure <=> S.devices[d].unsure)
  BY <1>1 DEF DeviceInfo
<1>4. /\ T.clients = [c \in Client |-> IF S.clients[c].conn = "up" /\ S.clients[c].device = d
                                       THEN Told(c) ELSE S.clients[c]]
      /\ T.devices = [S.devices EXCEPT ![d] = D]
      /\ T.requests = S.requests /\ T.modem = S.modem
  BY <1>1 DEF VersionAgreed, Worlds
<1>5. T \in Worlds
  <2>1. T.clients \in [Client -> ClientInfo]
    <3> HIDE DEF T, Told
    <3> QED BY <1>1, <1>2, <1>4
  <2>2. T.devices \in [Device -> DeviceInfo]
    <3>1. S.devices \in [Device -> DeviceInfo]
      BY <1>1 DEF Worlds
    <3> HIDE DEF T, D
    <3> QED BY <1>3, <1>4, <3>1
  <2> QED BY <1>1, <2>1, <2>2 DEF Worlds, VersionAgreed
<1> HIDE DEF T, D, Told
<1>6. T.devices[d] = D /\ \A e \in Device \ {d} : T.devices[e] = S.devices[e]
  BY <1>1, <1>4 DEF Worlds
<1>7. \A c \in Client : /\ T.clients[c].conn = S.clients[c].conn
                        /\ T.clients[c].device = S.clients[c].device
                        /\ T.clients[c].config_ongoing = S.clients[c].config_ongoing
                        /\ T.clients[c].events = S.clients[c].events
                        /\ Tracked(T, c) <=> Tracked(S, c)
  BY <1>2, <1>4 DEF Tracked
<1>8. \A c \in Client : \/ /\ S.clients[c].conn = "up" /\ S.clients[c].device = d
                           /\ T.clients[c].told = v
                        \/ /\ ~(S.clients[c].conn = "up" /\ S.clients[c].device = d)
                           /\ T.clients[c] = S.clients[c]
  BY <1>2, <1>4
<1>9. \A e \in Device : /\ T.devices[e].tracked <=> S.devices[e].tracked
                        /\ T.devices[e].path = S.devices[e].path
  BY <1>3, <1>6
<1>10. OneConfig(T) /\ OnePerPort(T)
  BY <1>4, <1>9 DEF OneConfig, OnePerPort, IsConfig, WorldInv
<1>11. ASSUME NEW r \in Request PROVE RequestOK(T, r)
  <2>1. RequestOK(S, r) /\ S.requests[r].client \in Client \cup {None}
    BY RequestFields DEF WorldInv
  <2> QED BY <1>4, <1>7, <2>1 DEF RequestOK
<1>12. ASSUME NEW c \in Client PROVE ClientOK(T, c)
  <2>1. ClientOK(S, c) /\ S.clients[c].device \in Device \cup {None} /\ d # None
    BY <1>1, ProxyAssumption DEF WorldInv, ClientInfo
  <2>2. \A r \in Request : IsConfig(T, r, c) <=> IsConfig(S, r, c)
    BY <1>4 DEF IsConfig
  <2>3. CASE S.clients[c].conn = "up" /\ S.clients[c].device = d /\ T.clients[c].told = v
    <3>1. T.devices[d].version = v
      BY <1>3, <1>6
    <3> QED BY <1>7, <1>9, <2>1, <2>2, <2>3, <3>1 DEF ClientOK
  <2>4. CASE /\ ~(S.clients[c].conn = "up" /\ S.clients[c].device = d)
             /\ T.clients[c] = S.clients[c]
    <3>1. S.clients[c].conn = "up" /\ S.clients[c].device # None
          => T.devices[S.clients[c].device].version = S.devices[S.clients[c].device].version
      BY <1>6, <2>1, <2>4
    <3> QED BY <1>7, <1>9, <2>1, <2>2, <2>4, <3>1 DEF ClientOK
  <2> QED BY <1>8, <2>3, <2>4
<1>13. ASSUME NEW e \in Device PROVE DeviceOK(T, e) /\ Settled(T, e)
  <2>1. Merged(T, e) = Merged(S, e)
    BY <1>7 DEF Merged
  <2>2. Waiting(T, e) = Waiting(S, e)
    <3>1. \A r \in Request : S.requests[r].stage = "opening" => DeviceOf(T, r) = DeviceOf(S, r)
      BY <1>4, <1>7, RequestFields DEF DeviceOf
    <3> QED BY <1>4, <3>1 DEF Waiting
  <2>3. DeviceOK(S, e) /\ Settled(S, e)
    BY DEF WorldInv
  <2>4. CASE e # d
    BY <1>4, <1>6, <2>1, <2>2, <2>3, <2>4 DEF DeviceOK, Settled
  <2>5. CASE e = d
    <3>1. DeviceOK(T, e)
      BY <1>3, <1>4, <1>6, <2>1, <2>3, <2>5 DEF DeviceOK
    <3>2. Settled(T, e)
      BY <1>3, <1>6, <2>2, <2>3, <2>5 DEF Settled
    <3> QED BY <3>1, <3>2
  <2> QED BY <2>4, <2>5
<1>14. WorldInv(T, {})
  BY <1>5, <1>10, <1>11, <1>12, <1>13 DEF WorldInv
<1> QED BY <1>4, <1>14 DEF T

LEMMA CommandReadyKeeps ==
  ASSUME ProxyIInv, NEW r \in Request, CommandReady(r)
  PROVE  ProxyIInv'
<1> DEFINE W == World
           d == DeviceOf(W, r)
<1>1. WorldInv(W, {}) /\ W.requests[r].stage = "command"
  BY WorldParts DEF ProxyIInv, CommandReady
<1>2. \/ Become(Respond(W, {r}))
      \/ Become(Freed(W, {r}))
      \/ \E v \in Version : Become(Respond(VersionAgreed(W, d, v), {r}))
      \/ Become(DeviceError(Respond(W, {r}), d))
  BY DEF CommandReady
<1> HIDE DEF W
<1>3. W.requests[r].kind # "config" /\ d \in Device /\ W.devices[d].path # None
  <2> DEFINE c == W.requests[r].client
  <2>1. c \in Client /\ c # None /\ W \in Worlds
    BY <1>1, RequestFields, ProxyAssumption DEF WorldInv
  <2>2. RequestOK(W, r) /\ ClientOK(W, c) /\ W.clients[c] \in ClientInfo
    BY <1>1, <2>1, Members DEF WorldInv
  <2>3. W.requests[r].kind # "config" /\ W.clients[c].device # None
    BY <1>1, <2>1, <2>2 DEF RequestOK
  <2>4. d = W.clients[c].device
    BY DEF DeviceOf
  <2> QED BY <2>2, <2>3, <2>4 DEF ClientOK, ClientInfo
<1> HIDE DEF d
<1>4. {r} \in SUBSET Request
  OBVIOUS
<1>5. \A q \in {r} : MayFree(W, q)
  BY <1>3 DEF MayFree
<1>6. WorldInv(Respond(W, {r}), {})
  BY <1>1, <1>4, <1>5, RespondKeeps
<1>7. ASSUME Become(Respond(W, {r})) PROVE ProxyIInv'
  <2> DEFINE T == Respond(W, {r})
  <2>1. Become(T) /\ WorldInv(T, {})
    BY <1>6, <1>7
  <2> HIDE DEF T
  <2> QED BY <2>1, BecomeKeeps
<1>8. ASSUME Become(Freed(W, {r})) PROVE ProxyIInv'
  <2> DEFINE T == Freed(W, {r})
  <2>1. WorldInv(T, {})
    BY <1>1, <1>4, <1>5, FreedKeeps
  <2>2. Become(T)
    BY <1>8
  <2> HIDE DEF T
  <2> QED BY <2>1, <2>2, BecomeKeeps
<1>9. ASSUME NEW v \in Version, Become(Respond(VersionAgreed(W, d, v), {r})) PROVE ProxyIInv'
  <2> DEFINE U == VersionAgreed(W, d, v)
             T == Respond(U, {r})
  <2>1. Become(T)
    BY <1>9
  <2>2. WorldInv(U, {}) /\ U.requests = W.requests
    BY <1>1, <1>3, VersionAgreedKeeps
  <2> HIDE DEF U
  <2>3. \A q \in {r} : MayFree(U, q)
    BY <1>3, <2>2 DEF MayFree
  <2>4. WorldInv(T, {})
    BY <1>4, <2>2, <2>3, RespondKeeps
  <2> HIDE DEF T
  <2> QED BY <2>1, <2>4, BecomeKeeps
<1>10. ASSUME Become(DeviceError(Respond(W, {r}), d)) PROVE ProxyIInv'
  <2> DEFINE T == DeviceError(Respond(W, {r}), d)
  <2>1. Become(T)
    BY <1>10
  <2>2. WorldInv(T, {})
    BY <1>3, <1>6, DeviceErrorKeeps
  <2> HIDE DEF T
  <2> QED BY <2>1, <2>2, BecomeKeeps
<1> QED BY <1>2, <1>7, <1>8, <1>9, <1>10

(* The modem behind one port changes, and what was unsure stays so.           *)
LEMMA ModemChanges ==
  ASSUME NEW S, WorldInv(S, {}), NEW T \in Worlds,
         T.clients = S.clients, T.requests = S.requests,
         \A d \in Device : /\ T.devices[d].path = S.devices[d].path
                           /\ T.devices[d].tracked <=> S.devices[d].tracked
                           /\ T.devices[d].status = S.devices[d].status
                           /\ T.devices[d].channel <=> S.devices[d].channel
                           /\ T.devices[d].opens = S.devices[d].opens
                           /\ T.devices[d].opening <=> S.devices[d].opening
                           /\ T.devices[d].events = S.devices[d].events
                           /\ T.devices[d].version = S.devices[d].version
                           /\ S.devices[d].unsure => T.devices[d].unsure
                           /\ DeviceOK(T, d)
  PROVE  WorldInv(T, {})
<1>1. S \in Worlds
  BY DEF WorldInv
<1>2. OneConfig(T) /\ OnePerPort(T)
  BY DEF OneConfig, OnePerPort, IsConfig, WorldInv
<1>3. \A r \in Request : RequestOK(T, r)
  BY DEF RequestOK, WorldInv
<1>4. ASSUME NEW c \in Client PROVE ClientOK(T, c)
  <2>1. ClientOK(S, c) /\ S.clients[c].device \in Device \cup {None}
    BY <1>1, Members DEF WorldInv, ClientInfo
  <2>2. /\ \A r \in Request : IsConfig(T, r, c) <=> IsConfig(S, r, c)
        /\ Tracked(T, c) <=> Tracked(S, c)
    BY DEF IsConfig, Tracked
  <2> QED BY <2>1, <2>2 DEF ClientOK
<1>5. ASSUME NEW d \in Device PROVE Settled(T, d)
  <2>1. Settled(S, d) /\ Waiting(T, d) = Waiting(S, d)
    BY DEF WorldInv, Waiting, DeviceOf
  <2> QED BY <2>1 DEF Settled
<1> QED BY <1>2, <1>3, <1>4, <1>5 DEF WorldInv

LEMMA ModemResetsKeeps ==
  ASSUME ProxyIInv, NEW p \in Path, ModemResets(p)
  PROVE  ProxyIInv'
<1> DEFINE W == World
           m == [open |-> FALSE, events |-> {}]
           T == [W EXCEPT !.modem[p] = m]
<1>1. WorldInv(W, {}) /\ Become(T)
  BY DEF ProxyIInv, ModemResets
<1> HIDE DEF W
<1>2. m \in Modem /\ ~m.open
  BY DEF Modem
<1> HIDE DEF m
<1>3. W \in Worlds
  BY <1>1 DEF WorldInv
<1>4. /\ T \in Worlds /\ T.clients = W.clients /\ T.devices = W.devices /\ T.requests = W.requests
      /\ T.modem[p] = m /\ \A q \in Path \ {p} : T.modem[q] = W.modem[q]
  BY <1>2, <1>3 DEF Worlds
<1> HIDE DEF T
<1>5. ASSUME NEW d \in Device PROVE DeviceOK(T, d)
  <2>1. DeviceOK(W, d) /\ W.devices[d].path \in Path \cup {None}
    BY <1>1, <1>3, Members DEF WorldInv, DeviceInfo
  <2>2. Merged(T, d) = Merged(W, d)
    BY <1>4 DEF Merged, Tracked
  <2>3. W.devices[d].tracked => W.devices[d].path # None
    BY <2>1 DEF DeviceOK, NoDevice
  <2> QED BY <1>2, <1>4, <2>1, <2>2, <2>3 DEF DeviceOK
<1>6. WorldInv(T, {})
  BY <1>1, <1>4, <1>5, ModemChanges
<1> QED BY <1>1, <1>6, BecomeKeeps

LEMMA ModemOpensKeeps ==
  ASSUME ProxyIInv, NEW d \in Device, ModemOpens(d)
  PROVE  ProxyIInv'
<1> DEFINE W == World
           path == W.devices[d].path
           m == [open |-> TRUE, events |-> {}]
           Of(e) == IF e = d THEN [W.devices[e] EXCEPT !.handled = TRUE]
                    ELSE [W.devices[e] EXCEPT !.unsure = W.devices[e].unsure
                                                          \/ W.devices[e].path = path]
           T == [W EXCEPT !.devices = [e \in Device |-> Of(e)], !.modem[path] = m]
<1>1. WorldInv(W, {}) /\ W.devices[d].opens > 0 /\ W.devices[d].channel
  BY WorldParts DEF ProxyIInv, ModemOpens
<1>11. Become([W EXCEPT !.devices = [e \in Device |->
                IF e = d THEN [@[e] EXCEPT !.handled = TRUE]
                ELSE [@[e] EXCEPT !.unsure = W.devices[e].unsure \/ W.devices[e].path = path]],
              !.modem[path] = m])
  BY WorldParts DEF ModemOpens
<1> HIDE DEF W
<1>2. /\ W \in Worlds /\ path \in Path /\ W.devices[d].opens = 1
      /\ \A e \in Device : W.devices[e] \in DeviceInfo
  <2>1. W \in Worlds /\ \A e \in Device : W.devices[e] \in DeviceInfo
    BY <1>1, Members DEF WorldInv
  <2>2. DeviceOK(W, d) /\ Settled(W, d)
    BY <1>1 DEF WorldInv
  <2>3. path # None
    <3>1. W.devices[d] # NoDevice
      BY <1>1 DEF NoDevice
    <3> QED BY <2>2, <3>1 DEF DeviceOK
  <2>4. path \in Path
    BY <2>1, <2>3 DEF DeviceInfo
  <2>5. W.devices[d].opens = 1
    BY <1>1, <2>1, <2>2 DEF Settled, DeviceInfo
  <2> QED BY <2>1, <2>4, <2>5
<1> HIDE DEF path
<1>3. m \in Modem /\ m.events = {}
  BY DEF Modem
<1>4. Become(T)
  <2> DEFINE Q == [W EXCEPT !.devices = [e \in Device |->
                     IF e = d THEN [@[e] EXCEPT !.handled = TRUE]
                     ELSE [@[e] EXCEPT !.unsure = W.devices[e].unsure \/ W.devices[e].path = path]],
                   !.modem[path] = m]
  <2>1. Q.devices = [e \in Device |-> Of(e)]
    BY <1>2 DEF Worlds
  <2>2. Q = T
    BY <1>2, <2>1 DEF Worlds
  <2> HIDE DEF T
  <2> QED BY <1>11, <2>2
<1> HIDE DEF m
<1>5. ASSUME NEW e \in Device
      PROVE  /\ Of(e) \in DeviceInfo /\ Of(e).path = W.devices[e].path
             /\ Of(e).tracked <=> W.devices[e].tracked
             /\ Of(e).status = W.devices[e].status
             /\ Of(e).channel <=> W.devices[e].channel
             /\ Of(e).opens = W.devices[e].opens
             /\ Of(e).opening <=> W.devices[e].opening
             /\ Of(e).events = W.devices[e].events
             /\ Of(e).version = W.devices[e].version
             /\ W.devices[e].unsure => Of(e).unsure
             /\ e # d => (Of(e).handled <=> W.devices[e].handled)
             /\ e # d /\ W.devices[e].path = path => Of(e).unsure
  <2>1. CASE e = d
    <3>1. Of(e) = [W.devices[e] EXCEPT !.handled = TRUE] /\ W.devices[e] \in DeviceInfo
      BY <1>2, <2>1
    <3> HIDE DEF Of
    <3> QED BY <2>1, <3>1 DEF DeviceInfo
  <2>2. CASE e # d
    <3> DEFINE unsure == W.devices[e].unsure \/ W.devices[e].path = path
    <3>1. Of(e) = [W.devices[e] EXCEPT !.unsure = unsure] /\ W.devices[e] \in DeviceInfo
      BY <1>2, <2>2
    <3>2. /\ unsure \in BOOLEAN /\ (W.devices[e].unsure => unsure)
          /\ W.devices[e].path = path => unsure
      BY <3>1 DEF DeviceInfo
    <3> HIDE DEF Of, unsure
    <3> QED BY <2>2, <3>1, <3>2 DEF DeviceInfo
  <2> QED BY <2>1, <2>2
<1> HIDE DEF Of
<1>6. /\ T.clients = W.clients /\ T.requests = W.requests
      /\ T.devices = [e \in Device |-> Of(e)]
      /\ T.modem = [W.modem EXCEPT ![path] = m]
  BY <1>2 DEF Worlds
<1>7. /\ T \in Worlds
      /\ T.modem[path] = m /\ \A q \in Path \ {path} : T.modem[q] = W.modem[q]
  <2>1. T.modem \in [Path -> Modem] /\ T.modem[path] = m
        /\ \A q \in Path \ {path} : T.modem[q] = W.modem[q]
    <3>1. W.modem \in [Path -> Modem]
      BY <1>2 DEF Worlds
    <3> HIDE DEF T
    <3> QED BY <1>2, <1>3, <1>6, <3>1
  <2>2. T.devices \in [Device -> DeviceInfo]
    <3> HIDE DEF T
    <3> QED BY <1>5, <1>6
  <2> QED BY <1>2, <2>1, <2>2 DEF Worlds
<1> HIDE DEF T
<1>8. \A e \in Device : T.devices[e] = Of(e)
  BY <1>6
<1>9. ASSUME NEW e \in Device PROVE DeviceOK(T, e)
  <2>1. DeviceOK(W, e) /\ W.devices[e].path \in Path \cup {None}
    BY <1>1, <1>2 DEF WorldInv, DeviceInfo
  <2>2. Merged(T, e) = Merged(W, e)
    BY <1>6 DEF Merged, Tracked
  <2>3. W.devices[e].tracked => W.devices[e].path # None
    BY <2>1 DEF DeviceOK, NoDevice
  <2>4. T.devices[e].path = None => T.devices[e] = NoDevice
    <3>1. CASE W.devices[e].path = None
      <4>1. e # d /\ W.devices[e].path # path
        BY <1>2, <3>1, ProxyAssumption DEF path
      <4>2. W.devices[e] = NoDevice
        BY <2>1, <3>1 DEF DeviceOK
      <4>3. Of(e) = [NoDevice EXCEPT !.unsure = @ \/ W.devices[e].path = path]
        BY <4>1, <4>2 DEF Of
      <4>4. Of(e) = NoDevice
        BY <4>1, <4>3 DEF NoDevice
      <4> QED BY <1>8, <4>4
    <3>2. CASE W.devices[e].path # None
      BY <1>5, <1>8, <3>2
    <3> QED BY <3>1, <3>2
  <2>5. T.devices[e].tracked => Merged(T, e) \subseteq T.devices[e].events
    BY <1>5, <1>8, <2>1, <2>2 DEF DeviceOK
  <2>6. CASE e = d
    <3>1. W.devices[d].tracked => W.devices[d].events = {} \/ W.devices[d].unsure
      <4>1. Settled(W, d)
        BY <1>1 DEF WorldInv
      <4> QED BY <1>2, <4>1 DEF Settled
    <3>2. T.devices[d].path = path
      BY <1>5, <1>8 DEF path
    <3>3. T.devices[d].tracked /\ ~T.devices[d].unsure => T.devices[d].events = {}
      BY <1>5, <1>8, <3>1
    <3> QED BY <1>3, <1>7, <2>4, <2>5, <2>6, <3>2, <3>3 DEF DeviceOK
  <2>7. CASE e # d /\ W.devices[e].path = path
    BY <1>5, <1>8, <2>4, <2>5, <2>7 DEF DeviceOK
  <2>8. CASE e # d /\ W.devices[e].path # path
    <3>1. /\ T.devices[e].path = W.devices[e].path
          /\ T.devices[e].tracked <=> W.devices[e].tracked
          /\ T.devices[e].status = W.devices[e].status
          /\ T.devices[e].channel <=> W.devices[e].channel
          /\ T.devices[e].handled <=> W.devices[e].handled
          /\ T.devices[e].events = W.devices[e].events
          /\ W.devices[e].unsure => T.devices[e].unsure
      BY <1>5, <1>8, <2>8
    <3>2. T.devices[e].tracked => T.modem[W.devices[e].path] = W.modem[W.devices[e].path]
      BY <1>7, <2>1, <2>3, <2>8, <3>1
    <3> QED BY <2>1, <2>4, <2>5, <3>1, <3>2 DEF DeviceOK
  <2> QED BY <2>6, <2>7, <2>8
<1>10. WorldInv(T, {})
  <2>1. \A e \in Device : /\ T.devices[e].path = W.devices[e].path
                          /\ T.devices[e].tracked <=> W.devices[e].tracked
                          /\ T.devices[e].status = W.devices[e].status
                          /\ T.devices[e].channel <=> W.devices[e].channel
                          /\ T.devices[e].opens = W.devices[e].opens
                          /\ T.devices[e].opening <=> W.devices[e].opening
                          /\ T.devices[e].events = W.devices[e].events
                          /\ T.devices[e].version = W.devices[e].version
                          /\ W.devices[e].unsure => T.devices[e].unsure
                          /\ DeviceOK(T, e)
    BY <1>5, <1>8, <1>9
  <2> QED BY <1>1, <1>6, <1>7, <2>1, ModemChanges
<1> QED BY <1>4, <1>10, BecomeKeeps

-----------------------------------------------------------------------------
(* The theorems.                                                           *)

LEMMA ProxyStart ==
  ASSUME ProxyInit
  PROVE  ProxyIInv
<1> DEFINE W == World
<1>1. /\ W.clients = [c \in Client |-> NoClient] /\ W.devices = [d \in Device |-> NoDevice]
      /\ W.requests = [r \in Request |-> NoRequest]
      /\ W.modem = [p \in Path |-> [open |-> FALSE, events |-> {}]]
  BY WorldParts DEF ProxyInit
<1>2. W \in Worlds
  <2>1. [open |-> FALSE, events |-> {}] \in Modem
    BY DEF Modem
  <2> QED BY <1>1, <2>1, SlotTypes, NoRequestType DEF Worlds, World
<1> HIDE DEF W
<1>3. /\ \A c \in Client : W.clients[c] = NoClient
      /\ \A d \in Device : W.devices[d] = NoDevice
      /\ \A r \in Request : W.requests[r] = NoRequest
  BY <1>1
<1>4. None \notin Client /\ None \notin Device
  BY ProxyAssumption
<1>5. OneConfig(W) /\ \A r \in Request : RequestOK(W, r)
  BY <1>3, <1>4 DEF OneConfig, IsConfig, RequestOK, NoRequest
<1>6. OnePerPort(W)
  BY <1>3 DEF OnePerPort, NoDevice
<1>7. ASSUME NEW c \in Client PROVE ClientOK(W, c)
  <2>1. /\ NoClient.conn = "none" /\ NoClient.device = None /\ NoClient.events = {}
        /\ NoClient.told = None
    BY DEF NoClient
  <2> QED BY <1>3, <2>1 DEF ClientOK, Tracked
<1>8. ASSUME NEW d \in Device PROVE DeviceOK(W, d) /\ Settled(W, d)
  <2>1. Waiting(W, d) = {}
    BY <1>3 DEF Waiting, NoRequest
  <2>2. /\ W.devices[d] = NoDevice /\ ~NoDevice.tracked /\ NoDevice.opens = 0
        /\ ~NoDevice.opening
    BY <1>3 DEF NoDevice
  <2> QED BY <2>1, <2>2 DEF DeviceOK, Settled
<1>9. WorldInv(W, {})
  BY <1>2, <1>5, <1>6, <1>7, <1>8 DEF WorldInv
<1> QED BY <1>9 DEF ProxyIInv, W

LEMMA ProxyStep == ProxyIInv /\ [ProxyNext]_proxyVars => ProxyIInv'
<1> SUFFICES ASSUME ProxyIInv, [ProxyNext]_proxyVars
             PROVE  ProxyIInv'
  OBVIOUS
<1>1. CASE UNCHANGED proxyVars
  <2>1. World' = World
    BY <1>1 DEF proxyVars, World
  <2> QED BY <2>1 DEF ProxyIInv
<1>2. ASSUME NEW c \in Client,
             \/ Incoming(c) \/ PeerCloses(c) \/ ClientHangup(c) \/ Command(c)
             \/ \E p \in Path : Config(c, p)
             \/ \E events \in SUBSET Event : Subscribe(c, events)
      PROVE  ProxyIInv'
  BY <1>2, IncomingKeeps, PeerClosesKeeps, ClientHangupKeeps, CommandKeeps, ConfigKeeps,
     SubscribeKeeps
<1>3. ASSUME NEW r \in Request, DeviceNewReady(r) \/ CapsQueryReady(r) \/ CommandReady(r)
      PROVE  ProxyIInv'
  BY <1>3, DeviceNewReadyKeeps, CapsQueryReadyKeeps, CommandReadyKeeps
<1>4. ASSUME NEW d \in Device,
             DeviceOpenReady(d) \/ ErrorReported(d) \/ DeviceRemoved(d) \/ ModemOpens(d)
      PROVE  ProxyIInv'
  BY <1>4, DeviceOpenReadyKeeps, ErrorReportedKeeps, DeviceRemovedKeeps, ModemOpensKeeps
<1>5. ASSUME NEW p \in Path, ModemResets(p) PROVE ProxyIInv'
  BY <1>5, ModemResetsKeeps
<1> QED BY <1>1, <1>2, <1>3, <1>4, <1>5 DEF ProxyNext

(* The inductive invariant holds in whatever order clients come, go and ask,  *)
(* ports hang up, modems restart, and opens and queries end.                  *)
THEOREM ProxyIInvHolds == ProxySpec => []ProxyIInv
BY ProxyStart, ProxyStep, PTL DEF ProxySpec

LEMMA ProxyFromInv ==
  ProxyIInv => /\ ProxyTypeOK /\ OneDevicePerPort /\ OpenedOnce /\ ServedByTracked
               /\ BusyIsConfiguring /\ SubscribedInModem /\ VersionKnown
<1> SUFFICES ASSUME ProxyIInv
             PROVE  /\ ProxyTypeOK /\ OneDevicePerPort /\ OpenedOnce /\ ServedByTracked
                    /\ BusyIsConfiguring /\ SubscribedInModem /\ VersionKnown
  OBVIOUS
<1>1. /\ World \in Worlds /\ OnePerPort(World)
      /\ \A c \in Client : ClientOK(World, c)
      /\ \A d \in Device : DeviceOK(World, d) /\ Settled(World, d)
  BY DEF ProxyIInv, WorldInv
<1>2. ProxyTypeOK
  BY <1>1, WorldParts DEF ProxyTypeOK, Worlds
<1>3. OneDevicePerPort
  BY <1>1, WorldParts DEF OneDevicePerPort, OnePerPort
<1>4. OpenedOnce
  BY <1>1, WorldParts DEF OpenedOnce, Settled
<1>5. ServedByTracked
  BY <1>1, WorldParts DEF ServedByTracked, ClientOK
<1>6. BusyIsConfiguring
  BY <1>1, WorldParts DEF BusyIsConfiguring, ClientOK, IsConfig
<1>7. SubscribedInModem
  BY <1>1, WorldParts DEF SubscribedInModem, DeviceOK
<1>8. VersionKnown
  <2> SUFFICES ASSUME NEW c \in Client, clients[c].conn = "up", clients[c].device # None,
                      \A r \in Request : ~(requests[r].client = c /\ requests[r].kind = "config")
               PROVE  clients[c].told = devices[clients[c].device].version
    BY DEF VersionKnown
  <2>1. ClientOK(World, c) /\ ~\E r \in Request : IsConfig(World, r, c)
    BY <1>1, WorldParts DEF IsConfig
  <2> QED BY <2>1, WorldParts DEF ClientOK
<1> QED BY <1>2, <1>3, <1>4, <1>5, <1>6, <1>7, <1>8

(* Every slot of the proxy holds what its type says.                          *)
THEOREM ProxyTypeOKHolds == ProxySpec => []ProxyTypeOK
BY ProxyIInvHolds, ProxyFromInv, PTL

(* However many clients configure one port while its device is being made,    *)
(* the proxy keeps one device for it.                                         *)
THEOREM OneDevicePerPortHolds == ProxySpec => []OneDevicePerPort
BY ProxyIInvHolds, ProxyFromInv, PTL

(* A device is opened once at a time, and nobody waits for an open that is    *)
(* not under way.                                                             *)
THEOREM OpenedOnceHolds == ProxySpec => []OpenedOnce
BY ProxyIInvHolds, ProxyFromInv, PTL

(* No client that is connected is left with a device the proxy has dropped.   *)
THEOREM ServedByTrackedHolds == ProxySpec => []ServedByTracked
BY ProxyIInvHolds, ProxyFromInv, PTL

(* A client is busy only while a configuration of its is under way.           *)
THEOREM BusyIsConfiguringHolds == ProxySpec => []BusyIsConfiguring
BY ProxyIInvHolds, ProxyFromInv, PTL

(* The merged list of a device has all its clients subscribe to, and the      *)
(* modem has that list unless it is known that it may not.                    *)
THEOREM SubscribedInModemHolds == ProxySpec => []SubscribedInModem
BY ProxyIInvHolds, ProxyFromInv, PTL

(* Whoever is configured knows the version of the extensions agreed last.     *)
THEOREM VersionKnownHolds == ProxySpec => []VersionKnown
BY ProxyIInvHolds, ProxyFromInv, PTL

-----------------------------------------------------------------------------
(* The daemon.                                                             *)

(* The timer is armed only while there are no devices.                        *)
MainIInv == /\ ProxyIInv
            /\ ~asserted
            /\ timeout_id => NoDevices

LEMMA TrackedTypes == ProxyIInv => \A d \in Device : devices[d].tracked \in BOOLEAN
<1> SUFFICES ASSUME ProxyIInv, NEW d \in Device PROVE devices[d].tracked \in BOOLEAN
  OBVIOUS
<1>1. devices[d] \in DeviceInfo
  BY ProxyFromInv DEF ProxyTypeOK
<1> QED BY <1>1 DEF DeviceInfo

LEMMA MainStep == MainIInv /\ [MainNext]_allVars => MainIInv'
<1> SUFFICES ASSUME MainIInv, [MainNext]_allVars
             PROVE  MainIInv'
  OBVIOUS
<1>1. [ProxyNext]_proxyVars
  BY DEF MainNext, Runs, StopLoop, allVars
<1>2. ProxyIInv'
  BY <1>1, ProxyStep DEF MainIInv
<1>3. \A d \in Device : devices[d].tracked \in BOOLEAN /\ devices'[d].tracked \in BOOLEAN
  <2>1. \A d \in Device : devices[d].tracked \in BOOLEAN
    BY TrackedTypes DEF MainIInv
  <2>2. (\A d \in Device : devices[d].tracked \in BOOLEAN)'
    BY <1>2, TrackedTypes, PTL
  <2> QED BY <2>1, <2>2
<1>4. CASE Runs(ProxyNext)
  <2>1. ~DevicesChanged => (NoDevices => NoDevices')
    BY <1>3 DEF DevicesChanged, NoDevices
  <2>2. NoDevices /\ NoDevices' => ~DevicesChanged
    BY <1>3 DEF DevicesChanged, NoDevices
  <2>3. timeout_id' => NoDevices'
    BY <1>4, <2>1 DEF Runs, Notified, MainIInv
  <2>4. ~asserted'
    BY <1>4, <2>2 DEF Runs, Notified, MainIInv
  <2> QED BY <1>2, <2>3, <2>4 DEF MainIInv
<1>5. CASE StopLoop
  <2>1. ~timeout_id' /\ asserted' = asserted
    BY <1>5 DEF StopLoop
  <2> QED BY <1>2, <2>1 DEF MainIInv
<1>6. CASE UNCHANGED allVars
  <2>1. NoDevices' = NoDevices /\ timeout_id' = timeout_id /\ asserted' = asserted
    BY <1>6 DEF allVars, mainVars, proxyVars, NoDevices
  <2> QED BY <1>2, <2>1 DEF MainIInv
<1> QED BY <1>4, <1>5, <1>6 DEF MainNext

(* The inductive invariant of the daemon.                                     *)
THEOREM MainIInvHolds == MainSpec => []MainIInv
<1>1. MainInit => MainIInv
  <2>1. ASSUME MainInit PROVE NoDevices
    BY <2>1 DEF MainInit, ProxyInit, NoDevices, NoDevice
  <2> QED BY <2>1, ProxyStart DEF MainInit, MainIInv
<1> QED BY <1>1, MainStep, PTL DEF MainSpec

(* g_assert (timeout_id == 0) never fails in the daemon.                      *)
THEOREM ArmedOnceHolds == MainSpec => []ArmedOnce
<1>1. MainIInv => ArmedOnce
  BY DEF MainIInv, ArmedOnce
<1> QED BY <1>1, MainIInvHolds, PTL

(* The daemon quits only while it has no device.                              *)
THEOREM ExitsWithoutDevicesHolds == MainSpec => ExitsWithoutDevices
<1>1. MainIInv /\ [MainNext]_allVars => [stopped' /\ ~stopped => NoDevices]_allVars
  BY DEF MainIInv, MainNext, Runs, Notified, StopLoop, allVars, mainVars
<1> QED BY <1>1, MainIInvHolds, PTL DEF MainSpec, ExitsWithoutDevices
=============================================================================
