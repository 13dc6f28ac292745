------------------------- MODULE MbimCliExtensions -------------------------
(* mbimcli-ms-basic-connect-extensions.c: its callbacks and the branches of   *)
(* mbimcli_ms_basic_connect_extensions_run().                                 *)
EXTENDS MbimCliOperation

query_pco_ready == Checked
lte_attach_configuration_ready == Checked
query_lte_attach_info_ready == Checked
query_sys_caps_ready == Checked
query_device_caps_ready == Checked
query_slot_information_status_ready == Checked
query_device_slot_mappings_ready == Checked
query_location_info_status_ready == Checked
provisioned_contexts_ready == Checked
query_base_stations_ready == Checked
query_version_ready == Checked
registration_parameters_ready == Checked
query_modem_configuration_ready == Checked

(* A wake type the tool does not know, or a TLV that does not fit the type,   *)
(* is an error like a buffer that cannot be parsed: both are "garbled".       *)
query_wake_reason_ready == Checked

device_reset_ready == Checked

-----------------------------------------------------------------------------

RunAttach ==
    [query_pco                    |-> Reads(query_pco_ready),
     query_lte_attach_configuration |-> Asks(lte_attach_configuration_ready),
     set_lte_attach_configuration |-> Reads(lte_attach_configuration_ready),
     query_lte_attach_status      |-> Asks(query_lte_attach_info_ready),
     query_lte_attach_info        |-> Asks(query_lte_attach_info_ready),
     query_sys_caps               |-> Asks(query_sys_caps_ready),
     query_device_caps            |-> Asks(query_device_caps_ready),
     query_slot_info_status       |-> Reads(query_slot_information_status_ready)]

RunSlotsAndContexts ==
    [set_device_slot_mappings   |-> Reads(query_device_slot_mappings_ready),
     query_device_slot_mappings |-> Asks(query_device_slot_mappings_ready),
     query_location_info_status |-> Asks(query_location_info_status_ready),
     set_provisioned_contexts   |-> Reads(provisioned_contexts_ready),
     query_provisioned_contexts |-> Reads(provisioned_contexts_ready),
     query_base_stations        |-> Asks(query_base_stations_ready)]

(* The branch of --ms-query-version returns without shutdown() when it cannot *)
(* read its argument.                                                         *)
RunVersionAndReset ==
    [query_version                 |-> ReadsForgetful(query_version_ready),
     query_registration_parameters |-> Asks(registration_parameters_ready),
     device_reset                  |-> Asks(device_reset_ready),
     set_registration_parameters   |-> Reads(registration_parameters_ready),
     query_modem_configuration     |-> Asks(query_modem_configuration_ready),
     query_wake_reason             |-> Asks(query_wake_reason_ready)]

Run == Joined({RunAttach, RunSlotsAndContexts, RunVersionAndReset})

OptionGroup == DOMAIN Run

=============================================================================
