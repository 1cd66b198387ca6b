-------------------------- MODULE MCBrokerSession --------------------------
(***************************************************************************)
(* Instances of BrokerSession for TLC: a registry write and a package      *)
(* install share one session.                                              *)
(***************************************************************************)
EXTENDS BrokerSession

CONSTANTS write, install
============================================================================
