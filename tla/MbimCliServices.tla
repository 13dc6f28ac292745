-------------------------- MODULE MbimCliServices --------------------------
(* The smaller services of mbimcli, one source file each: their callbacks and *)
(* the branches of their run functions.  Two callbacks of different files     *)
(* with one name are told apart by a prefix.                                  *)
EXTENDS MbimCliOperation

(* mbimcli-atds.c *)
query_signal_ready == Checked
query_location_ready == Checked
query_operators_ready == Checked
query_rat_ready == Checked
Atds == [query_signal    |-> Asks(query_signal_ready),
         query_location  |-> Asks(query_location_ready),
         query_operators |-> Asks(query_operators_ready),
         query_rat       |-> Asks(query_rat_ready)]
AtdsOptions == DOMAIN Atds

(* mbimcli-compal.c, mbimcli-fibocom.c, mbimcli-intel-at-tunnel.c: one AT     *)
(* command each.                                                              *)
compal_at_command_ready == Checked
Compal == [query_at_command |-> Asks(compal_at_command_ready)]
CompalOptions == DOMAIN Compal

fibocom_ready == Checked
Fibocom == [set_at_command |-> Asks(fibocom_ready)]
FibocomOptions == DOMAIN Fibocom

intel_at_tunnel_at_command_ready == Checked
IntelAtTunnel == [query_at_command |-> Asks(intel_at_tunnel_at_command_ready)]
IntelAtTunnelOptions == DOMAIN IntelAtTunnel

(* mbimcli-dss.c: connecting goes on to the IP configuration, disconnecting   *)
(* does not (user_data).                                                      *)
dss_ip_configuration_query_ready == Checked
set_dss_ready(connecting) ==
    IF connecting THEN [Checked EXCEPT !["good"] = "ip_config"] ELSE Checked
Dss == [connect    |-> Reads(set_dss_ready(TRUE)),
        disconnect |-> Reads(set_dss_ready(FALSE))]
DssOptions == DOMAIN Dss

(* mbimcli-google.c *)
set_carrier_lock_ready == Unparsed
query_carrier_lock_ready == ForgetsGarbled
Google == [set_carrier_lock   |-> Reads(set_carrier_lock_ready),
           query_carrier_lock |-> Reads(query_carrier_lock_ready)]
GoogleOptions == DOMAIN Google

(* mbimcli-intel-firmware-update.c: the argument is mandatory with MBIMEx 2   *)
(* and forbidden without it.                                                  *)
modem_reboot_ready == Unparsed
IntelFirmwareUpdate == [modem_reboot |-> Reads(modem_reboot_ready)]
IntelFirmwareUpdateOptions == DOMAIN IntelFirmwareUpdate

(* mbimcli-intel-mutual-authentication.c *)
query_fcc_lock_ready == Checked
IntelMutualAuthentication == [query_fcc_lock |-> Asks(query_fcc_lock_ready),
                              set_fcc_lock   |-> Reads(query_fcc_lock_ready)]
IntelMutualAuthenticationOptions == DOMAIN IntelMutualAuthentication

(* mbimcli-intel-thermal-rf.c: the callback of the setter does not look at    *)
(* the status of the response.                                                *)
query_rfim_ready == Checked
set_rfim_state_ready == TrustsAny
IntelThermalRf == [query_rfim |-> Asks(query_rfim_ready),
                   set_rfim   |-> Reads(set_rfim_state_ready)]
IntelThermalRfOptions == DOMAIN IntelThermalRf

(* mbimcli-intel-tools.c: both branches return without shutdown() when they   *)
(* cannot read the argument.                                                  *)
query_trace_config_ready == Checked
set_trace_config_ready == Unparsed
IntelTools == [set_trace_config   |-> ReadsForgetful(set_trace_config_ready),
               query_trace_config |-> ReadsForgetful(query_trace_config_ready)]
IntelToolsOptions == DOMAIN IntelTools

(* mbimcli-ms-firmware-id.c *)
query_firmware_id_ready == Checked
MsFirmwareId == [query_firmware_id |-> Asks(query_firmware_id_ready)]
MsFirmwareIdOptions == DOMAIN MsFirmwareId

(* mbimcli-ms-host-shutdown.c *)
ms_host_shutdown_ready == Unparsed
MsHostShutdown == [notify_host_shutdown |-> Asks(ms_host_shutdown_ready)]
MsHostShutdownOptions == DOMAIN MsHostShutdown

(* mbimcli-ms-sar.c *)
ms_sar_ready == Checked
modem_transmission_status_ready == Checked
MsSar == [set_sar_config            |-> Reads(ms_sar_ready),
          query_sar_config          |-> Asks(ms_sar_ready),
          set_transmission_status   |-> Reads(modem_transmission_status_ready),
          query_transmission_status |-> Asks(modem_transmission_status_ready)]
MsSarOptions == DOMAIN MsSar

(* mbimcli-ms-voice-extensions.c *)
query_nitz_ready == Checked
MsVoiceExtensions == [query_nitz |-> Asks(query_nitz_ready)]
MsVoiceExtensionsOptions == DOMAIN MsVoiceExtensions

(* mbimcli-phonebook.c *)
set_phonebook_write_ready == Checked
set_phonebook_delete_ready == Checked
query_phonebook_read_ready == Checked
query_phonebook_configuration_ready == Checked
Phonebook ==
    [phonebook_configuration |-> Asks(query_phonebook_configuration_ready),
     phonebook_read          |-> Asks(query_phonebook_read_ready),
     phonebook_read_all      |-> Asks(query_phonebook_read_ready),
     phonebook_delete        |-> Asks(set_phonebook_delete_ready),
     phonebook_delete_all    |-> Asks(set_phonebook_delete_ready),
     phonebook_write         |-> Reads(set_phonebook_write_ready)]
PhonebookOptions == DOMAIN Phonebook

(* mbimcli-quectel.c: the answer to a set carries no information buffer.      *)
(* qdu_command_ready() reports success for a command the modem ran, whatever  *)
(* the command itself returned.                                               *)
radio_state_ready(action_flag) == IF action_flag THEN Unparsed ELSE Checked
qdu_command_ready == Checked
Quectel == [query_radio_state |-> Asks(radio_state_ready(FALSE)),
            set_radio_state   |-> Reads(radio_state_ready(TRUE)),
            set_command       |-> Reads(qdu_command_ready)]
QuectelOptions == DOMAIN Quectel

(* mbimcli-sms.c *)
delete_sms_ready == Checked
read_sms_ready == Checked
query_sms_config_ready == Checked
query_sms_message_store_status_ready == Checked
Sms == [delete                     |-> Reads(delete_sms_ready),
        read                       |-> Reads(read_sms_ready),
        query_config               |-> Reads(query_sms_config_ready),
        query_message_store_status |->
            Reads(query_sms_message_store_status_ready)]
SmsOptions == DOMAIN Sms

(* mbimcli-link-management.c: the answer is that of the kernel, and there is  *)
(* nothing to parse.  The list is read at once, without a request.            *)
link_delete_all_ready == Checked
link_delete_ready == Checked
link_add_ready == Checked
device_link_list == [early |-> {"done", "failed"}, reply |-> Nothing]
device_link_add == Reads(link_add_ready)
LinkManagement == [link_list       |-> device_link_list,
                   link_add        |-> device_link_add,
                   link_delete     |-> Asks(link_delete_ready),
                   link_delete_all |-> Asks(link_delete_all_ready)]
LinkManagementOptions == DOMAIN LinkManagement

-----------------------------------------------------------------------------

Run == [atds |-> Atds, compal |-> Compal, fibocom |-> Fibocom,
        intel_at_tunnel |-> IntelAtTunnel, dss |-> Dss, google |-> Google,
        intel_firmware_update |-> IntelFirmwareUpdate,
        intel_mutual_authentication |-> IntelMutualAuthentication,
        intel_thermal_rf |-> IntelThermalRf, intel_tools |-> IntelTools,
        ms_firmware_id |-> MsFirmwareId, ms_host_shutdown |-> MsHostShutdown,
        ms_sar |-> MsSar, ms_voice_extensions |-> MsVoiceExtensions,
        phonebook |-> Phonebook, quectel |-> Quectel, sms |-> Sms,
        link_management |-> LinkManagement]

OptionGroups ==
    [atds |-> AtdsOptions, compal |-> CompalOptions, fibocom |-> FibocomOptions,
     intel_at_tunnel |-> IntelAtTunnelOptions, dss |-> DssOptions,
     google |-> GoogleOptions,
     intel_firmware_update |-> IntelFirmwareUpdateOptions,
     intel_mutual_authentication |-> IntelMutualAuthenticationOptions,
     intel_thermal_rf |-> IntelThermalRfOptions,
     intel_tools |-> IntelToolsOptions,
     ms_firmware_id |-> MsFirmwareIdOptions,
     ms_host_shutdown |-> MsHostShutdownOptions, ms_sar |-> MsSarOptions,
     ms_voice_extensions |-> MsVoiceExtensionsOptions,
     phonebook |-> PhonebookOptions, quectel |-> QuectelOptions,
     sms |-> SmsOptions, link_management |-> LinkManagementOptions]

=============================================================================
