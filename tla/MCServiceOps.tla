---------------------------- MODULE MCServiceOps ----------------------------
(***************************************************************************)
(* An instance of ServiceOps for TLC: two callers, who disable and stop a  *)
(* service as the telemetry tweaks do, or only change its start type.      *)
(***************************************************************************)
EXTENDS ServiceOps, TLC

Asked == {[start |-> "Disabled", stop |-> TRUE], [start |-> "Manual", stop |-> FALSE],
          [start |-> "Disabled", stop |-> FALSE]}

CallersAlike == Permutations(Caller)
============================================================================
