--------------------------- MODULE MCBrokerState ---------------------------
(* Three commands, as many as the user has screens for: one may launch a   *)
(* helper while another waits behind it and a third asks for the status.   *)
EXTENDS BrokerState

CONSTANTS c1, c2, c3

MCCommand == {c1, c2, c3}
MCMaxGets == 4
=============================================================================
