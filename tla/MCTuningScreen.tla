--------------------------- MODULE MCTuningScreen ---------------------------
(***************************************************************************)
(* An instance of TuningScreen for TLC: a tweak that writes a value and    *)
(* removes a package, and one that this Windows does not get to see.       *)
(***************************************************************************)
EXTENDS TuningScreen, TLC

CONSTANTS bing, ads

Tweaks == << [actions |-> <<ads, bing>>, applies |-> "windows11"],
             [actions |-> <<ads>>, applies |-> "windows10"] >>

ListersAlike == Permutations(Lister)
============================================================================
