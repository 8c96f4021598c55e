-------------------------- MODULE MCMqttPublisher --------------------------
(***************************************************************************)
(* A small instance of MqttPublisher: one address without a client and two *)
(* with; two frequent topics, the lock with a flag and one without; two    *)
(* days of two slots; an eeprom of two chunks of one cell.                 *)
(***************************************************************************)
EXTENDS MqttPublisher
=============================================================================
