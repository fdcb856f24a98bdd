------------------------------ MODULE MCMqttConn ------------------------------
(* MqttConn on a few application threads, with either API.                 *)
EXTENDS MqttConn
=============================================================================
