----------------------------- MODULE MCMqttClient -----------------------------
(* MqttClient needs no more than its two bounds; the cfg files give them.  *)
EXTENDS MqttClient
=============================================================================
