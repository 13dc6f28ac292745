---------------------------- MODULE MbimCliProofs ----------------------------
(* Proofs about MbimCli, for every set of command lines and every number of   *)
(* signals.  They rest on what the callbacks of all services have in common,  *)
(* which is proved first, service by service.                                 *)
EXTENDS MbimCli, FiniteSetTheorems, TLAPS

-----------------------------------------------------------------------------
(* The branches of the run functions.                                         *)

Callbacks == {Checked, Unparsed, ForgetsGarbled,
              [Checked EXCEPT !["good"] = "ip_config"]}

(* What a branch may do, and what only the options that an exception names.   *)
Ordinary == [early : SUBSET {"done", "failed", "forgotten"},
             reply : Callbacks \cup {Nothing}]
Trusting == [early : SUBSET {"failed"}, reply : {TrustsAny}]
Repeating == [early : SUBSET {"twice", "failed"}, reply : Callbacks]

LEMMA JoinedParts ==
  ASSUME NEW parts, NEW x \in DOMAIN Joined(parts)
  PROVE  \E p \in parts : x \in DOMAIN p /\ Joined(parts)[x] = p[x]
BY DEF Joined

LEMMA OrdinaryBranches ==
  ASSUME NEW reply \in Callbacks
  PROVE  /\ Asks(reply) \in Ordinary
         /\ Reads(reply) \in Ordinary
         /\ ReadsForgetful(reply) \in Ordinary
BY DEF Ordinary, Asks, Reads, ReadsForgetful

(* The services use the vocabulary of MbimCliOperation.                       *)
LEMMA SameVocabulary ==
  /\ BasicConnect!Checked = Checked /\ Extensions!Checked = Checked
  /\ Uicc!Checked = Checked /\ Others!Checked = Checked
  /\ BasicConnect!ForgetsGarbled = ForgetsGarbled
  /\ Others!ForgetsGarbled = ForgetsGarbled
  /\ Uicc!Unparsed = Unparsed /\ Others!Unparsed = Unparsed
  /\ Others!TrustsAny = TrustsAny
  /\ Others!Nothing = Nothing
BY DEF BasicConnect!Checked, Extensions!Checked, Uicc!Checked, Others!Checked, Checked,
       BasicConnect!Answers, Extensions!Answers, Uicc!Answers, Others!Answers, Answers,
       BasicConnect!ForgetsGarbled, Others!ForgetsGarbled, ForgetsGarbled,
       Uicc!Unparsed, Others!Unparsed, Unparsed, Others!TrustsAny, TrustsAny,
       Others!Nothing, Nothing

LEMMA SameBranches ==
  ASSUME NEW reply
  PROVE  /\ BasicConnect!Asks(reply) = Asks(reply) /\ BasicConnect!Reads(reply) = Reads(reply)
         /\ Extensions!Asks(reply) = Asks(reply) /\ Extensions!Reads(reply) = Reads(reply)
         /\ Extensions!ReadsForgetful(reply) = ReadsForgetful(reply)
         /\ Uicc!Asks(reply) = Asks(reply) /\ Uicc!Reads(reply) = Reads(reply)
         /\ Others!Asks(reply) = Asks(reply) /\ Others!Reads(reply) = Reads(reply)
         /\ Others!ReadsForgetful(reply) = ReadsForgetful(reply)
BY DEF BasicConnect!Asks, BasicConnect!Reads, Extensions!Asks, Extensions!Reads,
       Extensions!ReadsForgetful, Uicc!Asks, Uicc!Reads, Others!Asks, Others!Reads,
       Others!ReadsForgetful, Asks, Reads, ReadsForgetful

LEMMA TrustingBranch == Reads(TrustsAny) \in Trusting
BY DEF Reads, Trusting

LEMMA RepeatingBranch ==
  ASSUME NEW reply \in Callbacks
  PROVE  [early |-> {"twice", "failed"}, reply |-> reply] \in Repeating
BY DEF Repeating

LEMMA SameJoined ==
  ASSUME NEW parts
  PROVE  /\ BasicConnect!Joined(parts) = Joined(parts)
         /\ Extensions!Joined(parts) = Joined(parts)
         /\ Uicc!Joined(parts) = Joined(parts)
BY DEF BasicConnect!Joined, Extensions!Joined, Uicc!Joined, Joined

LEMMA BasicConnectBranches ==
  \A x \in DOMAIN BasicConnect!Run : BasicConnect!Run[x] \in Ordinary
<1> DEFINE connect == [Checked EXCEPT !["good"] = "ip_config"]
<1>1. {Checked, ForgetsGarbled, connect} \subseteq Callbacks
  BY DEF Callbacks
<1>2. \A r \in Callbacks : /\ Asks(r) \in Ordinary /\ Reads(r) \in Ordinary
                         /\ ReadsForgetful(r) \in Ordinary
  BY OrdinaryBranches
<1>3. \A x \in DOMAIN BasicConnect!RunDeviceAndPin :
         BasicConnect!RunDeviceAndPin[x] \in Ordinary
  BY <1>1, <1>2, SameVocabulary, SameBranches
     DEF BasicConnect!RunDeviceAndPin, BasicConnect!pin_ready,
         BasicConnect!query_device_caps_ready,
         BasicConnect!query_device_services_ready,
         BasicConnect!query_radio_state_ready,
         BasicConnect!query_subscriber_ready_status_ready
<1>4. \A x \in DOMAIN BasicConnect!RunPin :
         BasicConnect!RunPin[x] \in Ordinary
  BY <1>1, <1>2, SameVocabulary, SameBranches
     DEF BasicConnect!RunPin, BasicConnect!pin_list_ready,
         BasicConnect!pin_ready
<1>5. \A x \in DOMAIN BasicConnect!RunRegistration :
         BasicConnect!RunRegistration[x] \in Ordinary
  BY <1>1, <1>2, SameVocabulary, SameBranches
     DEF BasicConnect!RunRegistration, BasicConnect!home_provider_ready,
         BasicConnect!packet_service_ready,
         BasicConnect!preferred_providers_ready,
         BasicConnect!register_state_ready, BasicConnect!signal_state_ready,
         BasicConnect!visible_providers_ready
<1>6. \A x \in DOMAIN BasicConnect!RunConnect :
         BasicConnect!RunConnect[x] \in Ordinary
  BY <1>1, <1>2, SameVocabulary, SameBranches
     DEF BasicConnect!RunConnect, BasicConnect!ip_configuration_query_ready,
         BasicConnect!connect_ready
<1>7. \A x \in DOMAIN BasicConnect!RunPackets :
         BasicConnect!RunPackets[x] \in Ordinary
  BY <1>1, <1>2, SameVocabulary, SameBranches
     DEF BasicConnect!RunPackets, BasicConnect!ip_packet_filters_ready,
         BasicConnect!packet_statistics_ready
<1>8. \A x \in DOMAIN BasicConnect!RunContexts :
         BasicConnect!RunContexts[x] \in Ordinary
  BY <1>1, <1>2, SameVocabulary, SameBranches
     DEF BasicConnect!RunContexts, BasicConnect!network_idle_hint_ready,
         BasicConnect!provisioned_contexts_ready,
         BasicConnect!signal_state_ready
<1>9. \A x \in DOMAIN BasicConnect!RunEmergency :
         BasicConnect!RunEmergency[x] \in Ordinary
  BY <1>1, <1>2, SameVocabulary, SameBranches
     DEF BasicConnect!RunEmergency, BasicConnect!emergency_mode_ready,
         BasicConnect!set_service_activation_ready
<1> DEFINE parts == {BasicConnect!RunDeviceAndPin, BasicConnect!RunPin,
              BasicConnect!RunRegistration, BasicConnect!RunConnect,
              BasicConnect!RunPackets, BasicConnect!RunContexts,
              BasicConnect!RunEmergency}
<1>10. BasicConnect!Run = Joined(parts)
  BY SameJoined DEF BasicConnect!Run
<1>11. QED
  BY <1>3, <1>4, <1>5, <1>6, <1>7, <1>8, <1>9, <1>10, JoinedParts

LEMMA ExtensionsBranches ==
  \A x \in DOMAIN Extensions!Run : Extensions!Run[x] \in Ordinary
<1>1. {Checked} \subseteq Callbacks
  BY DEF Callbacks
<1>2. \A r \in Callbacks : /\ Asks(r) \in Ordinary /\ Reads(r) \in Ordinary
                         /\ ReadsForgetful(r) \in Ordinary
  BY OrdinaryBranches
<1>3. \A x \in DOMAIN Extensions!RunAttach :
         Extensions!RunAttach[x] \in Ordinary
  BY <1>1, <1>2, SameVocabulary, SameBranches
     DEF Extensions!RunAttach, Extensions!lte_attach_configuration_ready,
         Extensions!query_device_caps_ready,
         Extensions!query_lte_attach_info_ready, Extensions!query_pco_ready,
         Extensions!query_slot_information_status_ready,
         Extensions!query_sys_caps_ready
<1>4. \A x \in DOMAIN Extensions!RunSlotsAndContexts :
         Extensions!RunSlotsAndContexts[x] \in Ordinary
  BY <1>1, <1>2, SameVocabulary, SameBranches
     DEF Extensions!RunSlotsAndContexts,
         Extensions!provisioned_contexts_ready,
         Extensions!query_base_stations_ready,
         Extensions!query_device_slot_mappings_ready,
         Extensions!query_location_info_status_ready
<1>5. \A x \in DOMAIN Extensions!RunVersionAndReset :
         Extensions!RunVersionAndReset[x] \in Ordinary
  BY <1>1, <1>2, SameVocabulary, SameBranches
     DEF Extensions!RunVersionAndReset, Extensions!device_reset_ready,
         Extensions!query_modem_configuration_ready,
         Extensions!query_version_ready, Extensions!query_wake_reason_ready,
         Extensions!registration_parameters_ready
<1> DEFINE parts == {Extensions!RunAttach, Extensions!RunSlotsAndContexts,
              Extensions!RunVersionAndReset}
<1>6. Extensions!Run = Joined(parts)
  BY SameJoined DEF Extensions!Run
<1>7. QED
  BY <1>3, <1>4, <1>5, <1>6, JoinedParts

LEMMA UiccBranches ==
  \A x \in DOMAIN Uicc!Run :
     Uicc!Run[x] \in IF x = "set_uicc_terminal_capability" THEN Repeating ELSE Ordinary
<1>1. {Checked, Unparsed} \subseteq Callbacks
  BY DEF Callbacks
<1>2. \A r \in Callbacks : /\ Asks(r) \in Ordinary /\ Reads(r) \in Ordinary
                         /\ ReadsForgetful(r) \in Ordinary
  BY OrdinaryBranches
<1>3. \A x \in DOMAIN Uicc!RunFiles :
         Uicc!RunFiles[x] \in Ordinary
  BY <1>1, <1>2, SameVocabulary, SameBranches
     DEF Uicc!RunFiles, Uicc!application_list_query_ready,
         Uicc!file_status_query_ready, Uicc!read_binary_query_ready,
         Uicc!read_record_query_ready
<1>4. \A x \in DOMAIN Uicc!RunChannels :
         Uicc!RunChannels[x] \in Ordinary
  BY <1>1, <1>2, SameVocabulary, SameBranches
     DEF Uicc!RunChannels, Uicc!close_channel_ready, Uicc!open_channel_ready,
         Uicc!query_atr_ready, Uicc!set_apdu_ready
<1>5. \A x \in DOMAIN Uicc!RunResetAndTerminal :
         Uicc!RunResetAndTerminal[x] \in
            IF x = "set_uicc_terminal_capability" THEN Repeating ELSE Ordinary
  BY <1>1, <1>2, SameVocabulary, SameBranches, RepeatingBranch
     DEF Uicc!RunResetAndTerminal, Uicc!query_terminal_capability_ready,
         Uicc!set_terminal_capability_ready, Uicc!terminal_capability_parse,
         Uicc!uicc_reset_ready
<1>6. /\ "set_uicc_terminal_capability" \notin DOMAIN Uicc!RunFiles
      /\ "set_uicc_terminal_capability" \notin DOMAIN Uicc!RunChannels
  BY DEF Uicc!RunFiles, Uicc!RunChannels
<1> DEFINE parts == {Uicc!RunFiles, Uicc!RunChannels, Uicc!RunResetAndTerminal}
<1>7. Uicc!Run = Joined(parts)
  BY SameJoined DEF Uicc!Run
<1>8. QED
  BY <1>3, <1>4, <1>5, <1>6, <1>7, JoinedParts

LEMMA OthersBranches ==
  \A s \in DOMAIN Others!Run : \A x \in DOMAIN Others!Run[s] :
     Others!Run[s][x] \in IF <<s, x>> \in IgnoresStatus THEN Trusting ELSE Ordinary
<1> DEFINE connect == [Checked EXCEPT !["good"] = "ip_config"]
<1>1. {Checked, Unparsed, ForgetsGarbled, connect} \subseteq Callbacks
  BY DEF Callbacks
<1>2. \A r \in Callbacks : /\ Asks(r) \in Ordinary /\ Reads(r) \in Ordinary
                         /\ ReadsForgetful(r) \in Ordinary
  BY OrdinaryBranches
<1>3. \A x \in DOMAIN Others!Atds :
         Others!Atds[x] \in Ordinary
  BY <1>1, <1>2, SameVocabulary, SameBranches
     DEF Others!Atds, Others!query_location_ready,
         Others!query_operators_ready, Others!query_rat_ready,
         Others!query_signal_ready
<1>4. \A x \in DOMAIN Others!Compal :
         Others!Compal[x] \in Ordinary
  BY <1>1, <1>2, SameVocabulary, SameBranches
     DEF Others!Compal, Others!compal_at_command_ready
<1>5. \A x \in DOMAIN Others!Fibocom :
         Others!Fibocom[x] \in Ordinary
  BY <1>1, <1>2, SameVocabulary, SameBranches
     DEF Others!Fibocom, Others!fibocom_ready
<1>6. \A x \in DOMAIN Others!IntelAtTunnel :
         Others!IntelAtTunnel[x] \in Ordinary
  BY <1>1, <1>2, SameVocabulary, SameBranches
     DEF Others!IntelAtTunnel, Others!intel_at_tunnel_at_command_ready
<1>7. \A x \in DOMAIN Others!Dss :
         Others!Dss[x] \in Ordinary
  BY <1>1, <1>2, SameVocabulary, SameBranches
     DEF Others!Dss, Others!set_dss_ready
<1>8. \A x \in DOMAIN Others!Google :
         Others!Google[x] \in Ordinary
  BY <1>1, <1>2, SameVocabulary, SameBranches
     DEF Others!Google, Others!query_carrier_lock_ready,
         Others!set_carrier_lock_ready
<1>9. \A x \in DOMAIN Others!IntelFirmwareUpdate :
         Others!IntelFirmwareUpdate[x] \in Ordinary
  BY <1>1, <1>2, SameVocabulary, SameBranches
     DEF Others!IntelFirmwareUpdate, Others!modem_reboot_ready
<1>10. \A x \in DOMAIN Others!IntelMutualAuthentication :
         Others!IntelMutualAuthentication[x] \in Ordinary
  BY <1>1, <1>2, SameVocabulary, SameBranches
     DEF Others!IntelMutualAuthentication, Others!query_fcc_lock_ready
<1>11. \A x \in DOMAIN Others!IntelThermalRf :
         Others!IntelThermalRf[x] \in
            IF x = "set_rfim" THEN Trusting ELSE Ordinary
  BY <1>1, <1>2, SameVocabulary, SameBranches, TrustingBranch
     DEF Others!IntelThermalRf, Others!query_rfim_ready,
         Others!set_rfim_state_ready
<1>12. \A x \in DOMAIN Others!IntelTools :
         Others!IntelTools[x] \in Ordinary
  BY <1>1, <1>2, SameVocabulary, SameBranches
     DEF Others!IntelTools, Others!query_trace_config_ready,
         Others!set_trace_config_ready
<1>13. \A x \in DOMAIN Others!MsFirmwareId :
         Others!MsFirmwareId[x] \in Ordinary
  BY <1>1, <1>2, SameVocabulary, SameBranches
     DEF Others!MsFirmwareId, Others!query_firmware_id_ready
<1>14. \A x \in DOMAIN Others!MsHostShutdown :
         Others!MsHostShutdown[x] \in Ordinary
  BY <1>1, <1>2, SameVocabulary, SameBranches
     DEF Others!MsHostShutdown, Others!ms_host_shutdown_ready
<1>15. \A x \in DOMAIN Others!MsSar :
         Others!MsSar[x] \in Ordinary
  BY <1>1, <1>2, SameVocabulary, SameBranches
     DEF Others!MsSar, Others!modem_transmission_status_ready,
         Others!ms_sar_ready
<1>16. \A x \in DOMAIN Others!MsVoiceExtensions :
         Others!MsVoiceExtensions[x] \in Ordinary
  BY <1>1, <1>2, SameVocabulary, SameBranches
     DEF Others!MsVoiceExtensions, Others!query_nitz_ready
<1>17. \A x \in DOMAIN Others!Phonebook :
         Others!Phonebook[x] \in Ordinary
  BY <1>1, <1>2, SameVocabulary, SameBranches
     DEF Others!Phonebook, Others!query_phonebook_configuration_ready,
         Others!query_phonebook_read_ready, Others!set_phonebook_delete_ready,
         Others!set_phonebook_write_ready
<1>18. \A x \in DOMAIN Others!Quectel :
         Others!Quectel[x] \in Ordinary
  BY <1>1, <1>2, SameVocabulary, SameBranches
     DEF Others!Quectel, Others!qdu_command_ready, Others!radio_state_ready
<1>19. \A x \in DOMAIN Others!Sms :
         Others!Sms[x] \in Ordinary
  BY <1>1, <1>2, SameVocabulary, SameBranches
     DEF Others!Sms, Others!delete_sms_ready, Others!query_sms_config_ready,
         Others!query_sms_message_store_status_ready, Others!read_sms_ready
<1>20. \A x \in DOMAIN Others!LinkManagement :
         Others!LinkManagement[x] \in Ordinary
  BY <1>1, <1>2, SameVocabulary, SameBranches
     DEF Others!LinkManagement, Others!device_link_add,
         Others!device_link_list, Others!link_add_ready,
         Others!link_delete_all_ready, Others!link_delete_ready, Ordinary
<1>21. QED
  BY <1>3, <1>4, <1>5, <1>6, <1>7, <1>8, <1>9, <1>10, <1>11, <1>12, <1>13,
     <1>14, <1>15, <1>16, <1>17, <1>18, <1>19, <1>20
     DEF Others!Run, IgnoresStatus

(* Every option is a branch of the run function of its service.               *)
LEMMA OthersOptions ==
  /\ DOMAIN Others!OptionGroups = DOMAIN Others!Run
  /\ \A s \in DOMAIN Others!Run : Others!OptionGroups[s] = DOMAIN Others!Run[s]
BY DEF Others!OptionGroups, Others!Run,
       Others!AtdsOptions, Others!CompalOptions, Others!FibocomOptions,
       Others!IntelAtTunnelOptions, Others!DssOptions, Others!GoogleOptions,
       Others!IntelFirmwareUpdateOptions,
       Others!IntelMutualAuthenticationOptions, Others!IntelThermalRfOptions,
       Others!IntelToolsOptions, Others!MsFirmwareIdOptions,
       Others!MsHostShutdownOptions, Others!MsSarOptions,
       Others!MsVoiceExtensionsOptions, Others!PhonebookOptions,
       Others!QuectelOptions, Others!SmsOptions, Others!LinkManagementOptions

LEMMA BranchKinds ==
  ASSUME NEW o \in Options
  PROVE  Branch(o) \in IF o \in FinishesTwice THEN Repeating
                       ELSE IF o \in IgnoresStatus THEN Trusting ELSE Ordinary
<1> DEFINE large == [basic_connect |-> BasicConnect!Run,
                     ms_basic_connect_extensions |-> Extensions!Run,
                     ms_uicc_low_level_access |-> Uicc!Run]
           groups == [basic_connect |-> BasicConnect!OptionGroup,
                      ms_basic_connect_extensions |-> Extensions!OptionGroup,
                      ms_uicc_low_level_access |-> Uicc!OptionGroup]
<1>1. PICK s \in DOMAIN OptionGroups : o \in {s} \X OptionGroups[s]
  BY DEF Options
<1>2. PICK x \in OptionGroups[s] : o = <<s, x>>
  BY <1>1
<1>3. \A t \in DOMAIN groups : t \notin DOMAIN Others!Run
  BY DEF Others!Run
<1>4. /\ DOMAIN groups = DOMAIN large
      /\ \A t \in DOMAIN large : groups[t] = DOMAIN large[t]
  BY DEF BasicConnect!OptionGroup, Extensions!OptionGroup, Uicc!OptionGroup
<1>5. FinishesTwice = {<<"ms_uicc_low_level_access", "set_uicc_terminal_capability">>}
      /\ IgnoresStatus = {<<"intel_thermal_rf", "set_rfim">>}
  BY DEF FinishesTwice, IgnoresStatus
<1>6. \A t \in DOMAIN large : \A y \in DOMAIN large[t] :
         large[t][y] \in IF <<t, y>> \in FinishesTwice THEN Repeating ELSE Ordinary
  BY <1>5, BasicConnectBranches, ExtensionsBranches, UiccBranches
<1>7. "ms_uicc_low_level_access" \notin DOMAIN Others!Run
      /\ "intel_thermal_rf" \notin DOMAIN large
  BY DEF Others!Run
<1> HIDE DEF large, groups
<1>8. OptionGroups = Joined({Others!OptionGroups, groups}) /\ Run = Joined({Others!Run, large})
  BY DEF OptionGroups, Run, large, groups
<1>9. CASE s \in DOMAIN Others!Run
  <2>1. OptionGroups[s] = DOMAIN Others!Run[s]
    BY <1>3, <1>8, <1>9, OthersOptions, JoinedParts
  <2>2. s \in DOMAIN Run
    BY <1>8, <1>9 DEF Joined
  <2>3. Run[s] = Others!Run[s]
    BY <1>3, <1>4, <1>8, <1>9, <2>2, JoinedParts
  <2>4. QED
    BY <1>2, <1>5, <1>7, <1>9, <2>1, <2>3, OthersBranches DEF Branch
<1>10. CASE s \notin DOMAIN Others!Run
  <2>1. s \in DOMAIN large /\ OptionGroups[s] = DOMAIN large[s]
    BY <1>4, <1>8, <1>10, OthersOptions, JoinedParts
  <2>2. s \in DOMAIN Run
    BY <1>8, <2>1 DEF Joined
  <2>3. Run[s] = large[s]
    BY <1>8, <1>10, <2>2, JoinedParts
  <2>4. QED
    BY <1>2, <1>5, <1>6, <1>7, <2>1, <2>3 DEF Branch
<1>11. QED BY <1>9, <1>10

-----------------------------------------------------------------------------
(* The run of the tool.                                                       *)

(* What is known at each call that is awaited.  The operation is finished     *)
(* only when nothing is awaited any more; a cancellable that lives has seen   *)
(* no signal, and one that was cancelled belongs to a request that will fail. *)
Stages ==
  /\ given \in ArgSets /\ flags \in Flags
  /\ waiting \in {"start", "new", "open", "command", "ip_config", "nothing"}
  /\ cancellable \in {"null", "live", "cancelled"}
  /\ dones \in Nat /\ interrupts \in Nat
  /\ dones > 0 => waiting = "nothing" /\ cancellable = "null"
  /\ waiting = "start" => interrupts = 0
  /\ waiting \notin {"start", "nothing"} => cancellable # "null"
  /\ waiting # "start" /\ exit = "running" => \E o \in Options \cup {Noop} : given = {o}
  /\ waiting \in {"command", "ip_config"} =>
        \E o \in Options : given = {o} /\ Branch(o).reply # Nothing

(* A status of success is never set after the first signal, unless that one   *)
(* did nothing or came too late.                                              *)
Interruptions ==
  /\ interrupts = 0 <=> interruptedAt = "never"
  /\ cancellable = "live" => interrupts = 0
  /\ waiting = "ip_config" => interruptedAt \in {"never", "ip_config"}
  /\ status => dones > 0 /\ interruptedAt \in {"never", "ip_config", "closing"}
  /\ exit = "success" => status

(* The session after the operation.                                           *)
Sessions ==
  dones > 0 => inSession = flags.no_close /\ (inSession <=> session = "open")

(* The operation got good answers only, and is finished at most once.         *)
Finishing ==
  /\ given \cap FinishesTwice = {} => dones <= 1 /\ exit # "crashed"
  /\ exit = "running" /\ waiting \in {"start", "new", "open", "command"} => seen = {}
  /\ exit = "running" /\ waiting = "ip_config" => seen \cap {"none", "refused"} = {}
  /\ status /\ given \cap IgnoresStatus = {} => seen \cap {"none", "refused"} = {}

CliIInv == Stages /\ Interruptions /\ Sessions /\ Finishing

LEMMA CliInit == Init => CliIInv
<1> SUFFICES ASSUME Init PROVE CliIInv
  OBVIOUS
<1> USE DEF Init
<1>1. Stages
  BY DEF Stages
<1>2. Interruptions
  BY DEF Interruptions
<1>3. Sessions
  BY DEF Sessions
<1>4. Finishing
  BY DEF Finishing
<1>5. QED BY <1>1, <1>2, <1>3, <1>4 DEF CliIInv

(* What an operation that concludes, or goes on, needs.                       *)
LEMMA CliStep == CliIInv /\ [Next]_vars => CliIInv'
<1> SUFFICES ASSUME CliIInv, [Next]_vars PROVE CliIInv'
  OBVIOUS
<1> USE DEF CliIInv, input, signal
<1>1. CASE Main
  <2>1. CASE ~OneAction /\ Exit("failure")
    BY <1>1, <2>1 DEF Main, Exit, Stages, Interruptions, Sessions, Finishing
  <2>2. CASE OneAction /\ waiting' = "new"
    <3>1. \E o \in Options \cup {Noop} : given = {o}
      <4>1. given \in ArgSets /\ Cardinality(given) = 1
        BY <2>2 DEF OneAction, Stages
      <4>2. given \subseteq Options \cup {Noop} /\ IsFiniteSet(given)
        BY <4>1, ArgSetsAssumption
      <4>3. QED BY <4>1, <4>2, FS_Singleton
    <3>2. QED BY <1>1, <2>2, <3>1 DEF Main, Stages, Interruptions, Sessions, Finishing
  <2>3. QED BY <1>1, <2>1, <2>2 DEF Main, Exit
<1>2. CASE DeviceNewReady
  BY <1>2 DEF DeviceNewReady, Exit, MaySucceed, Stages, Interruptions, Sessions, Finishing
<1>3. CASE SignalsHandler
  <2>1. Stages'
    BY <1>3 DEF SignalsHandler, Stages
  <2>2. Interruptions'
    BY <1>3 DEF SignalsHandler, Stages, Interruptions
  <2>3. Sessions' /\ Finishing'
    BY <1>3 DEF SignalsHandler, Stages, Sessions, Finishing
  <2>4. QED BY <2>1, <2>2, <2>3
<1>4. CASE MainLoopQuit
  BY <1>4 DEF MainLoopQuit, Leave, Stages, Interruptions, Sessions, Finishing
<1>5. CASE DeviceCloseReady
  BY <1>5 DEF DeviceCloseReady, Leave, Stages, Interruptions, Sessions, Finishing
<1>6. CASE UNCHANGED vars
  BY <1>6 DEF vars, Stages, Interruptions, Sessions, Finishing
<1>7. ASSUME NEW v, Conclude(v), exit = "running",
             waiting \in {"open", "command", "ip_config"},
             v = "twice" => given \cap FinishesTwice # {},
             v = "done" => /\ interruptedAt \in {"never", "ip_config"}
                           /\ given \cap IgnoresStatus = {} => seen' \cap {"none", "refused"} = {}
      PROVE  CliIInv'
  <2>1. ASSUME NEW ok \in BOOLEAN, NEW n \in {1, 2}, Done(ok, n), ok => v = "done",
               n = 2 => v = "twice"
        PROVE  CliIInv'
    <3>1. Stages'
      BY <1>7, <2>1 DEF Done, Stages
    <3>2. Interruptions'
      BY <1>7, <2>1 DEF Done, Stages, Interruptions
    <3>3. Sessions'
      BY <1>7, <2>1 DEF Done, Stages, Sessions, Flags
    <3>4. Finishing'
      BY <1>7, <2>1 DEF Done, Stages, Finishing
    <3>5. QED BY <3>1, <3>2, <3>3, <3>4
  <2>4. CASE Exit("crashed") /\ v = "twice"
    BY <1>7, <2>4 DEF Exit, Stages, Interruptions, Sessions, Finishing
  <2>5. CASE Await("nothing")
    BY <1>7, <2>5 DEF Await, Stages, Interruptions, Sessions, Finishing
  <2>6. /\ Done(TRUE, 1) /\ v = "done" => CliIInv'
        /\ Done(FALSE, 1) => CliIInv'
        /\ Done(FALSE, 2) /\ v = "twice" => CliIInv'
    <3>1. TRUE \in BOOLEAN /\ FALSE \in BOOLEAN /\ 1 \in {1, 2} /\ 2 \in {1, 2} /\ 1 # 2
      OBVIOUS
    <3>2. QED BY <2>1, <3>1, Zenon
  <2>7. QED BY <1>7, <2>4, <2>5, <2>6 DEF Conclude
<1>8. ASSUME NEW o \in Options, given = {o}
      PROVE  /\ TheOption = o
             /\ "twice" \in Branch(o).early => given \cap FinishesTwice # {}
             /\ Branch(o).reply # Nothing =>
                   /\ \A a \in Answers : Branch(o).reply[a] # "twice"
                   /\ Branch(o).reply["none"] = "failed"
                   /\ \/ Branch(o).reply["refused"] = "failed"
                      \/ given \cap IgnoresStatus # {}
                   /\ \A a \in Answers : Branch(o).reply[a] = "ip_config" => a = "good"
  <2>1. TheOption = o
    BY <1>8 DEF TheOption
  <2>2. /\ FinishesTwice \cap given = IF o \in FinishesTwice THEN {o} ELSE {}
        /\ IgnoresStatus \cap given = IF o \in IgnoresStatus THEN {o} ELSE {}
    BY <1>8
  <2>3. Branch(o) \in IF o \in FinishesTwice THEN Repeating
                      ELSE IF o \in IgnoresStatus THEN Trusting ELSE Ordinary
    BY BranchKinds
  <2>4. \A r \in Callbacks \cup {TrustsAny} :
           /\ \A a \in Answers : r[a] # "twice"
           /\ r["none"] = "failed"
           /\ \A a \in Answers : r[a] = "ip_config" => a = "good"
    BY DEF Callbacks, TrustsAny, ForgetsGarbled, Unparsed, Checked, Answers
  <2>5. \A r \in Callbacks : r["refused"] = "failed"
    BY DEF Callbacks, ForgetsGarbled, Unparsed, Checked, Answers
  <2>6. CASE Branch(o) \in Ordinary /\ o \notin FinishesTwice
    BY <2>1, <2>4, <2>5, <2>6 DEF Ordinary
  <2>7. CASE Branch(o) \in Trusting /\ o \in IgnoresStatus
    BY <2>1, <2>2, <2>4, <2>7 DEF Trusting
  <2>8. CASE Branch(o) \in Repeating /\ o \in FinishesTwice
    BY <2>1, <2>2, <2>4, <2>5, <2>8 DEF Repeating
  <2>9. QED BY <2>3, <2>6, <2>7, <2>8
<1>9. CASE DeviceOpenReady
  <2>1. CASE Exit("failure") /\ UNCHANGED session
    BY <1>9, <2>1 DEF DeviceOpenReady, Exit, Stages, Interruptions, Sessions, Finishing
  <2>2. CASE MaySucceed /\ RunOption
    <3>1. PICK o \in Options \cup {Noop} : given = {o}
      BY <1>9 DEF DeviceOpenReady, Stages
    <3>2. interruptedAt = "never" /\ seen' = {}
      BY <1>9, <2>2 DEF DeviceOpenReady, MaySucceed, Stages, Interruptions, Finishing
    <3>3. CASE Done(TRUE, 1)
      <4>1. Conclude("done")
        BY <3>3 DEF Conclude
      <4>2. QED BY <1>7, <1>9, <3>2, <4>1 DEF DeviceOpenReady
    <3>4. CASE o \in Options /\ \E v \in Branch(TheOption).early : Conclude(v)
      BY <1>7, <1>8, <1>9, <3>1, <3>2, <3>4 DEF DeviceOpenReady
    <3>5. CASE o \in Options /\ Branch(TheOption).reply # Nothing /\ Await("command")
      <4>1. Branch(o).reply # Nothing
        BY <1>8, <3>1, <3>5
      <4>2. QED
        BY <1>9, <3>1, <3>2, <3>5, <4>1
           DEF DeviceOpenReady, Await, Stages, Interruptions, Sessions, Finishing
    <3>6. QED BY <2>2, <3>1, <3>3, <3>4, <3>5 DEF RunOption
  <2>3. QED BY <1>9, <2>1, <2>2 DEF DeviceOpenReady
<1>10. CASE CommandReady
  <2>1. PICK o \in Options : given = {o} /\ Branch(o).reply # Nothing
    BY <1>10 DEF CommandReady, Stages
  <2> DEFINE verdict(a) == Branch(o).reply[a]
  <2>2. PICK a \in Answers :
           /\ a # "none" => MaySucceed
           /\ seen' = seen \cup {a}
           /\ IF verdict(a) = "ip_config" THEN Await("ip_config") \/ Conclude("failed")
              ELSE Conclude(verdict(a))
    BY <1>8, <1>10, <2>1 DEF CommandReady
  <2>3. /\ seen' = {a}
        /\ a # "none" => interruptedAt = "never"
        /\ a = "none" => verdict(a) = "failed"
        /\ a = "refused" => verdict(a) = "failed" \/ given \cap IgnoresStatus # {}
        /\ verdict(a) # "twice"
        /\ verdict(a) = "ip_config" => a = "good"
    BY <1>8, <1>10, <2>1, <2>2 DEF CommandReady, MaySucceed, Stages, Interruptions, Finishing
  <2> HIDE DEF verdict
  <2>4. CASE Await("ip_config") /\ a = "good"
    BY <1>10, <2>1, <2>3, <2>4
       DEF CommandReady, Await, Stages, Interruptions, Sessions, Finishing
  <2>5. ASSUME NEW v, Conclude(v), v = "failed" \/ v = verdict(a)
        PROVE  CliIInv'
    BY <1>7, <1>10, <2>3, <2>5 DEF CommandReady
  <2>6. QED BY <2>2, <2>3, <2>4, <2>5
<1>11. CASE IpConfigurationReady
  <2>1. PICK a \in Answers : /\ seen' = seen \cup {a}
                             /\ Conclude(BasicConnect!ip_configuration_query_ready[a])
    BY <1>11 DEF IpConfigurationReady
  <2>2. BasicConnect!ip_configuration_query_ready[a] = IF a = "good" THEN "done" ELSE "failed"
    BY SameVocabulary DEF BasicConnect!ip_configuration_query_ready, Checked
  <2>3. seen \cap {"none", "refused"} = {} /\ interruptedAt \in {"never", "ip_config"}
    BY <1>11 DEF IpConfigurationReady, Interruptions, Finishing
  <2>4. QED BY <1>7, <1>11, <2>1, <2>2, <2>3 DEF IpConfigurationReady
<1>12. QED
  BY <1>1, <1>2, <1>3, <1>4, <1>5, <1>6, <1>9, <1>10, <1>11 DEF Next, Callback

\* What happened to the session, which signals came and how often the operation was
\* finished fit the stage of mbimcli's run, at every dispatch
THEOREM CliIInvHolds == Spec => []CliIInv
BY CliInit, CliStep, PTL DEF Spec

-----------------------------------------------------------------------------
(* The properties.                                                            *)

(* An exit status of success means that no answer of the operation was        *)
(* missing or an error, whatever the option and whatever the signals.         *)
THEOREM SuccessIsRealHolds == Spec => []SuccessIsReal
<1>1. CliIInv => SuccessIsReal
  BY DEF CliIInv, Interruptions, Finishing, SuccessIsReal
<1>2. QED BY <1>1, CliIInvHolds, PTL

(* Every option but one finishes its operation at most once, and is then      *)
(* waiting for nothing.                                                       *)
THEOREM FinishedOnceHolds == Spec => []FinishedOnce
<1>1. CliIInv => FinishedOnce
  BY DEF CliIInv, Stages, Finishing, FinishedOnce
<1>2. QED BY <1>1, CliIInvHolds, PTL

(* An operation that was interrupted in time never ends in success, for any   *)
(* number of signals.                                                         *)
THEOREM InterruptedFailsHolds == Spec => []InterruptedFails
<1>1. CliIInv => InterruptedFails
  BY DEF CliIInv, Interruptions, InterruptedFails
<1>2. QED BY <1>1, CliIInvHolds, PTL

(* The session is left open with --no-close and only then.                    *)
THEOREM SessionAsAskedHolds == Spec => []SessionAsAsked
<1>1. CliIInv => SessionAsAsked
  BY DEF CliIInv, Sessions, SessionAsAsked
<1>2. QED BY <1>1, CliIInvHolds, PTL

=============================================================================
