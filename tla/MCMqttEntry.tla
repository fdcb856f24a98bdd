------------------------------ MODULE MCMqttEntry ------------------------------
(* MqttEntry with a few callers, edits and stops.                          *)
EXTENDS MqttEntry
=============================================================================
