------------------------ MODULE MbimCliBasicConnect ------------------------
(* mbimcli-basic-connect.c: the callbacks, named as in the source, and the    *)
(* branches of mbimcli_basic_connect_run(), one for each option.              *)
EXTENDS MbimCliOperation

query_device_caps_ready == Checked
query_subscriber_ready_status_ready == Checked
query_radio_state_ready == Checked
query_device_services_ready == ForgetsGarbled
pin_ready == Checked
pin_list_ready == Checked
ip_configuration_query_ready == Checked

(* Only the callback of the option that connects goes on to the IP            *)
(* configuration (user_data is CONNECT).                                      *)
connect_ready(connecting) ==
    IF connecting THEN [Checked EXCEPT !["good"] = "ip_config"] ELSE Checked

ip_packet_filters_ready == Checked
home_provider_ready == Checked
preferred_providers_ready == Checked
(* A mutant that takes an error status for an answer.                         *)
visible_providers_readyMutant == [Checked EXCEPT !["refused"] = "done"]

visible_providers_ready == Checked
register_state_ready == Checked
signal_state_ready == Checked
(* A mutant that returns on a parser error without shutdown().                *)
packet_service_readyMutant == ForgetsGarbled

packet_service_ready == Checked
packet_statistics_ready == Checked
provisioned_contexts_ready == Checked
network_idle_hint_ready == Checked
emergency_mode_ready == Checked
set_service_activation_ready == Checked

-----------------------------------------------------------------------------

RunDeviceAndPin ==
    [query_device_caps             |-> Asks(query_device_caps_ready),
     query_subscriber_ready_status |-> Asks(query_subscriber_ready_status_ready),
     query_radio_state             |-> Asks(query_radio_state_ready),
     set_radio_state               |-> Reads(query_radio_state_ready),
     query_device_services         |-> Asks(query_device_services_ready),
     query_pin                     |-> Asks(pin_ready)]

RunPin ==
    [set_pin_enter     |-> Reads(pin_ready),
     set_pin_change    |-> Reads(pin_ready),
     set_pin_enable    |-> Reads(pin_ready),
     set_pin_disable   |-> Reads(pin_ready),
     set_pin_enter_puk |-> Reads(pin_ready),
     query_pin_list    |-> Asks(pin_list_ready)]

RunRegistration ==
    [query_home_provider       |-> Asks(home_provider_ready),
     query_preferred_providers |-> Asks(preferred_providers_ready),
     query_visible_providers   |-> Asks(visible_providers_ready),
     query_register_state      |-> Asks(register_state_ready),
     query_registration_state  |-> Asks(register_state_ready),
     set_register_state        |-> Reads(register_state_ready),
     register_automatic        |-> Reads(register_state_ready),
     query_signal_state        |-> Asks(signal_state_ready),
     query_packet_service      |-> Asks(packet_service_ready),
     set_packet_service_attach |-> Reads(packet_service_ready),
     set_packet_service_detach |-> Reads(packet_service_ready)]

RunConnect ==
    [query_connect          |-> Reads(connect_ready(FALSE)),
     set_connect_activate   |-> Reads(connect_ready(TRUE)),
     query_ip_configuration |-> Reads(ip_configuration_query_ready),
     set_connect_deactivate |-> Reads(connect_ready(FALSE))]

(* A mutant whose parser of the argument calls shutdown() as its caller does.  *)
RunPacketsMutant ==
    [query_packet_statistics |-> Asks(packet_statistics_ready),
     query_ip_packet_filters |-> Reads(ip_packet_filters_ready),
     set_ip_packet_filters   |-> [early |-> {"twice"},
                                  reply |-> ip_packet_filters_ready]]

RunPackets ==
    [query_packet_statistics |-> Asks(packet_statistics_ready),
     query_ip_packet_filters |-> Reads(ip_packet_filters_ready),
     set_ip_packet_filters   |-> Reads(ip_packet_filters_ready)]

RunContexts ==
    [query_provisioned_contexts |-> Asks(provisioned_contexts_ready),
     set_provisioned_contexts   |-> Reads(provisioned_contexts_ready),
     set_signal_state           |-> Reads(signal_state_ready),
     set_network_idle_hint      |-> Reads(network_idle_hint_ready),
     query_network_idle_hint    |-> Asks(network_idle_hint_ready)]

RunEmergency ==
    [set_emergency_mode     |-> Reads(emergency_mode_ready),
     query_emergency_mode   |-> Asks(emergency_mode_ready),
     set_service_activation |-> Reads(set_service_activation_ready)]

Run == Joined({RunDeviceAndPin, RunPin, RunRegistration, RunConnect,
               RunPackets, RunContexts, RunEmergency})

(* The option entries of the group, and mbimcli_basic_connect_options_        *)
(* enabled(), which counts those given.                                       *)
OptionGroup == DOMAIN Run

=============================================================================
