-------------------------- MODULE MCBrokerPosition --------------------------
(* Two processes and one signal; up to two repairs of the protection.       *)
EXTENDS BrokerPosition
=============================================================================
