--------------------------- MODULE MCHomeRelease ---------------------------
(* Two instances in one run: the registry with any caller, which replaces  *)
(* its sinks and takes snapshots, and, with home, the registry between the *)
(* requests, the flusher and Home (HomeNext).  Sinks and groups are only   *)
(* ever compared, so they are interchangeable.                             *)
EXTENDS HomeRelease, TLC

VARIABLE home

MCInit == HomeInit /\ home \in BOOLEAN

(* Drain is part of the second instance, and of the run of RegistryStop.   *)
MCNext ==
  /\ \/ home /\ HomeNext
     \/ ~home /\ Next /\ UNCHANGED <<drain, flusherVars, homeVars>>
  /\ UNCHANGED home

MCSpec == MCInit /\ [][MCNext]_<<allVars, home>>

(* Home's limit on the use of a credential (HomeRelease), where Home       *)
(* admits the dispatches.                                                  *)
HomeLimitIsRespected == home => LimitIsRespected

Symmetric == Permutations(Groups) \cup Permutations(Sinks)
=============================================================================
