-------------------------------- MODULE MCCli --------------------------------
(* MbimCli with every option of every service, nothing, and pairs of options  *)
(* of one service, of two services and with --noop.                           *)
EXTENDS MbimCli

MCArgSets ==
    {{o} : o \in Options \cup {Noop}}
       \cup {{}, {<<"sms", "read">>, <<"sms", "delete">>},
                 {<<"sms", "read">>, <<"atds", "query_rat">>},
                 {<<"sms", "read">>, Noop}}

=============================================================================
