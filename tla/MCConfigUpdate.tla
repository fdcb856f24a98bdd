--------------------------- MODULE MCConfigUpdate ---------------------------
EXTENDS ConfigUpdate, TLC

CONSTANTS c1, c2, c3, p1, p2

MCProcess == [c \in Callers |-> IF c = c3 THEN p2 ELSE p1]

(* The order of the shipped config.yaml, one or two lines of a section.    *)
MCDocument ==
  << <<"local_device", "instance_id">>, <<"network", "port">>,
     <<"mstp", "port">>, <<"mstp", "baud_rate">>,
     <<"services", "default_priority">>, <<"services", "cache_strategy">>,
     <<"hot_config", "enabled">> >>

(* 256 stands in the file for a field of one byte.                         *)
MCFirstContent == <<2, 1, 2, 2, 256, 1, 1>>

(* Two fields that are written and two that are not.                       *)
MCRequests ==
  {(<<"network", "port">> :> 3 @@ <<"services", "default_priority">> :> 2
    @@ <<"mstp", "baud_rate">> :> 3 @@ <<"hot_config", "enabled">> :> 0)}
=============================================================================
