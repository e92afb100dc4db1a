-------------------------- MODULE MCMqttTemperature -------------------------
(* Small instances of MqttTemperature for TLC.                             *)
EXTENDS MqttTemperature, TLC
=============================================================================
