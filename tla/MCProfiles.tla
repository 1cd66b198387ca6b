----------------------------- MODULE MCProfiles -----------------------------
(***************************************************************************)
(* A small instance of Profiles: a plain name, the same name with the dot  *)
(* that Windows would strip, and a name that begins with a device name.  A *)
(* file that is no profile, or a profile under another file name, may be   *)
(* copied in.                                                              *)
(***************************************************************************)
EXTENDS Profiles

MCProfileName == { << "w" >>, << "w", "." >>, << "CON", ".", "w" >> }
MCImports == { << << "x" >>, Torn >>,
               << << "x" >>, Holding([name |-> << "w" >>, items |-> {}]) >>,
               << << "w" >>, Torn >> }
=============================================================================
