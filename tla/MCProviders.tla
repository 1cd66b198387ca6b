---------------------------- MODULE MCProviders ----------------------------
(* One app that two managers of the helper offer, one that only Scoop has, *)
(* and an id that a profile names and the catalog does not know.           *)
EXTENDS Providers

CONSTANTS c1, c2, a1, a2, gone

MCCommand == {c1, c2}
MCApp     == {a1, a2, gone}
MCSources == [a \in MCApp |-> CASE a = a1   -> <<"winget", "choco">>
                                [] a = a2   -> <<"scoop">>
                                [] a = gone -> << >>]
MCKinds   == {"list", "refresh", "install"}
(* What the screens start: none of them calls refresh_providers.           *)
MCScreens == {"list", "install"}
MCBatches == {<<gone, a1, a2>>}
MCInitialManagers == {{}, {"winget", "scoop"}, {"choco", "scoop"}}
MCInitialMachines == {{}, {[app |-> a1, manager |-> "winget"]}}
=============================================================================
