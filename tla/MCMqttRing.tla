------------------------------ MODULE MCMqttRing ------------------------------
(* MqttRing with a ring of three slots and payloads around the size limit. *)
EXTENDS MqttRing
=============================================================================
