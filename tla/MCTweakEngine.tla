--------------------------- MODULE MCTweakEngine ---------------------------
(***************************************************************************)
(* Instances of TweakEngine for TLC.  The first tweak writes one registry  *)
(* value twice, the case the order of a revert plan is there for; the      *)
(* second stops a service, as privacy.telemetry.disable does, and removes  *)
(* a package, as the debloat tweaks do.                                    *)
(***************************************************************************)
EXTENDS TweakEngine, TLC

CONSTANTS c1, c2, r1, diagtrack, bing, off, on, link, automatic, disabled

TwoTweaks ==
  << << [at |-> r1, value |-> off], [at |-> r1, value |-> on] >>,
     << [at |-> diagtrack, start |-> disabled, stop |-> TRUE],
        [at |-> bing] >> >>

(* The value is missing or exotic; the service runs, and may be disabled.  *)
Found(value, start) ==
  [l \in {r1, diagtrack, bing} |->
     IF l = r1 THEN value
     ELSE IF l = diagtrack THEN [start |-> start, running |-> TRUE] ELSE TRUE]

MachinesFound == {Found(Absent, automatic), Found(link, disabled)}
PlainMachine == {Found(Absent, automatic)}
(* Nothing tells the commands apart.                                       *)
CommandSymmetry == Permutations(Command)

(* Bound: where every tweak is disordered no fault happens as well.        *)
OrderOrNoFault == Disordered # Tweak \/ faultsLeft = MaxFaults
============================================================================
