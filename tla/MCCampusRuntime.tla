---------------------------- MODULE MCCampusRuntime ----------------------------
(* A small instance of CampusRuntime: a host on which two threads of the      *)
(* background traffic type, and one that may be added.                        *)
EXTENDS CampusRuntime, TLC

MCHome == 1 :> 1
MCTypesOn == 21 :> {1} @@ 22 :> {1}

=============================================================================
