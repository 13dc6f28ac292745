---------------------------- MODULE MbimCliUicc ----------------------------
(* mbimcli-ms-uicc-low-level-access.c: its callbacks and the branches of      *)
(* mbimcli_ms_uicc_low_level_access_run().                                    *)
EXTENDS MbimCliOperation

read_record_query_ready == Checked
read_binary_query_ready == Checked
file_status_query_ready == Checked
application_list_query_ready == Checked
open_channel_ready == Checked
close_channel_ready == Checked
query_atr_ready == Checked
set_apdu_ready == Checked
uicc_reset_ready == Checked
set_terminal_capability_ready == Unparsed
query_terminal_capability_ready == Checked

(* How terminal_capability_parse() fails: on an unknown key it calls          *)
(* shutdown() itself, and its caller calls it again; on a bad value it leaves *)
(* that to its caller.                                                        *)
terminal_capability_parse == {"twice", "failed"}

-----------------------------------------------------------------------------

RunFiles ==
    [query_uicc_application_list |-> Asks(application_list_query_ready),
     query_uicc_file_status      |-> Reads(file_status_query_ready),
     query_uicc_read_binary      |-> Reads(read_binary_query_ready),
     query_uicc_read_record      |-> Reads(read_record_query_ready)]

RunChannels ==
    [set_uicc_open_channel  |-> Reads(open_channel_ready),
     set_uicc_close_channel |-> Reads(close_channel_ready),
     query_uicc_atr         |-> Asks(query_atr_ready),
     set_uicc_apdu          |-> Reads(set_apdu_ready)]

RunResetAndTerminal ==
    [set_uicc_reset   |-> Reads(uicc_reset_ready),
     query_uicc_reset |-> Asks(uicc_reset_ready),
     set_uicc_terminal_capability |->
         [early |-> terminal_capability_parse,
          reply |-> set_terminal_capability_ready],
     query_uicc_terminal_capability |-> Asks(query_terminal_capability_ready)]

Run == Joined({RunFiles, RunChannels, RunResetAndTerminal})

OptionGroup == DOMAIN Run

=============================================================================
