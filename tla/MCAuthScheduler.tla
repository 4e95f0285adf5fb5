-------------------------- MODULE MCAuthScheduler --------------------------
(***************************************************************************)
(* Bounds for AuthScheduler: three credentials of two providers, one       *)
(* model.  Credential 1 changes its priority and cools off, 2 changes its  *)
(* weight and its transport or is disabled, 3 moves from one provider to   *)
(* the other, where it is blocked for another reason than quota.           *)
(*                                                                         *)
(* With part = "copy" the run follows instead the record of which the      *)
(* manager hands the scheduler a copy (CredentialCooldown), through a      *)
(* sequence of operations one after the other, on two models and with five *)
(* kinds of failure.  The two parts share no state; the initial state says *)
(* which of them moves.                                                    *)
(***************************************************************************)
EXTENDS AuthScheduler

CONSTANTS p1, p2, m1, m2, NoModel, Caller

VARIABLES clock, off, auth, stored, calls, mu, bound, sched, saved, pick, crashes,
          diskBehind, schedBehind, forgiven, exposed

VARIABLE part

copyVars == <<clock, off, auth, stored, calls, mu, bound, sched, saved, pick, crashes,
              diskBehind, schedBehind, forgiven, exposed>>

\* The manager's record.  The instance is of the module with the proofs, so that
\* what is proved of the record can be cited of this one.
Copy == INSTANCE CredentialCooldownProofs
        WITH now <- clock, Models <- {m1, m2}, Callers <- {Caller},
             Operations <- {"result", "reset", "update", "restore"},
             Failures <- {"quota", "denied", "unsupported", "transient", "skipped"},
             RetryAfters <- {0}, MaxTime <- 3, MaxCalls <- 3, MaxCrashes <- 0,
             BackoffBase <- 1, BackoffMax <- 4, CloudflareMin <- 1, Transient <- 1,
             Denied <- 2, Missing <- 2

ASSUME CopyAssumption == NoModel \notin {m1, m2, Caller}

MCRoute == <<p1, p2>>

Free1 == [m \in Models |-> [reason |-> "none", until |-> 0]]
Blocked(reason, until) == [m \in Models |-> [reason |-> reason, until |-> until]]

Base(p) == [provider |-> p, priority |-> 1, weight |-> 1, websocket |-> FALSE, disabled |-> FALSE,
            supports |-> Models, block |-> Free1]

MCProfiles ==
  [a \in Auths |->
     CASE a = 1 -> {Base(p1), [Base(p1) EXCEPT !.priority = 0, !.block = Blocked("cooldown", 2)]}
       [] a = 2 -> {Base(p1), [Base(p1) EXCEPT !.websocket = TRUE, !.weight = 2],
                    [Base(p1) EXCEPT !.disabled = TRUE]}
       [] OTHER -> {Base(p1), [Base(p2) EXCEPT !.block = Blocked("other", 2)]}]

Ask(kind) == [kind |-> kind, provider |-> p1, model |-> m1, websocket |-> FALSE,
              pinned |-> NoAuth, excluded |-> {}]

MCRequests ==
  {[Ask("single") EXCEPT !.websocket = TRUE], Ask("mixed"),
   [Ask("mixed") EXCEPT !.excluded = {1}], [Ask("mixed") EXCEPT !.pinned = 2]}

MCInit ==
  /\ SchedulerInit /\ Copy!CooldownInit
  /\ part \in {"scheduler", "copy"}
  /\ part = "copy" => strategy = "round-robin"

MCNext ==
  /\ \/ part = "scheduler" /\ SchedulerNext /\ UNCHANGED copyVars
     \/ part = "copy" /\ Copy!CooldownNext /\ UNCHANGED vars
  /\ UNCHANGED part

MCSpec == MCInit /\ [][MCNext]_<<vars, copyVars, part>>

(* The scheduler's copy of a credential leads to the same routing decision *)
(* as the manager's record, when no operation is under way and none failed *)
(* half way (SchedulerAgrees of CredentialCooldown).                       *)
SchedulerAgreesAlone == part = "copy" => Copy!SchedulerAgrees

(* A burst of quota failures climbs one rung of the backoff per window     *)
(* (LadderNeedsTime of CredentialCooldown).                                *)
LadderNeedsTimeAlone == part = "copy" => Copy!LadderNeedsTime

=============================================================================
