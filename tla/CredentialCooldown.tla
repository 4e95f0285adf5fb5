------------------------- MODULE CredentialCooldown -------------------------
(***************************************************************************)
(* The cooldown state of one credential, as the auth manager keeps it:     *)
(*                                                                         *)
(*   - the manager's own record (Manager.auths, under Manager.mu), changed *)
(*     by execution results, quota resets, configuration changes, auth     *)
(*     file updates, model re-registration and restored records;           *)
(*   - the scheduler's copy of it (authScheduler, under its own mutex),    *)
(*     from which requests are routed;                                     *)
(*   - the records in its .cds file (saves are serialised by               *)
(*     Manager.configCooldownMu).                                          *)
(*                                                                         *)
(* An operation changes the manager's record in one critical section and   *)
(* tells the other two afterwards, one lock at a time.  calls[c].steps     *)
(* is what the operation of goroutine c still has to do, in the order of   *)
(* the code; steps of different goroutines interleave freely.              *)
(*                                                                         *)
(* Time is a counter; 0 is the zero time.Time.  Messages, statuses,        *)
(* counters and UpdatedAt, which no decision below reads, are left out, as *)
(* are the model registry's quota and suspension marks, which only the     *)
(* listing of models reads; whether it lists the credential at all (bound) *)
(* decides about routing and is kept.                                      *)
(***************************************************************************)
EXTENDS Integers, Sequences, FiniteSets

CONSTANTS
  Models,            \* model keys of the credential
  NoModel,           \* the empty model of an auth-level result or record
  Callers,           \* goroutines running an operation of the manager
  Operations,        \* the operations a run enumerates
  Failures,          \* the classes of failed results a run enumerates
  RetryAfters,       \* Retry-After values of a quota failure, 0 for none
  MaxTime,           \* bound: the clock stops here
  MaxCalls,          \* bound: operations of one goroutine
  MaxCrashes,        \* bound: restarts of the process
  BackoffBase,       \* quotaBackoffBase
  BackoffMax,        \* quotaBackoffMax
  CloudflareMin,     \* the 10 seconds of nextCloudflareCooldown
  Transient,         \* transient-error-cooldown, 0 when it is disabled
  Denied,            \* the 30 minutes of 401, 402, 403 and invalid_grant
  Missing            \* the 12 hours of 404 and of an unsupported model

ASSUME CooldownAssumption ==
  /\ NoModel \notin Models \cup Callers /\ IsFiniteSet(Models)
  /\ Operations \subseteq {"result", "reset", "config", "update", "patch", "remove", "delete",
                         "restore", "refuse", "pick"}
  /\ Failures \subseteq {"unsupported", "cloudflare", "denied", "missing",
                         "quota", "transient", "skipped"}
  /\ RetryAfters \subseteq Nat
  /\ MaxTime \in Nat \ {0} /\ MaxCalls \in Nat /\ MaxCrashes \in Nat
  /\ BackoffBase \in Nat \ {0} /\ BackoffMax \in Nat /\ BackoffBase <= BackoffMax
  /\ CloudflareMin \in Nat /\ Transient \in Nat
  /\ Denied \in Nat \ {0} /\ Missing \in Nat \ {0}

VARIABLES
  now,          \* the clock
  off,          \* runtimeConfig: cooling is disabled
  auth,         \* the manager's record, or NoAuth
  stored,       \* the caller whose Register or Update made that record, or NoModel
  calls,        \* Callers -> what the operation still has to do
  mu,           \* holder of configCooldownMu, or NoModel when free
  bound,        \* the model registry lists the credential's models
  sched,        \* the scheduler's entry
  saved,        \* records in the .cds file
  pick,         \* one request's pickNext
  crashes,
  diskBehind,   \* history: some change was not followed by a save
  schedBehind,  \* history: some change was not followed by an upsert, or was
                \*   overtaken by a rebuild from an older snapshot
  forgiven,     \* history: models reset by re-registration, no failure since
  exposed       \* history: the record was gone while its models were still listed
                \*   and somebody was about to hand the scheduler a copy of it

vars == <<now, off, auth, stored, calls, mu, bound, sched,
          saved, pick, crashes, diskBehind, schedBehind, forgiven, exposed>>

----------------------------------------------------------------------------
\* The data: one cooldown (ModelState, or the auth-level fields) and a record

Clean == [bad |-> FALSE, retry |-> 0, exceeded |-> FALSE, recover |-> 0, level |-> 0]

Cooldowns == [bad : BOOLEAN, retry : Nat, exceeded : BOOLEAN, recover : Nat, level : Nat]

NoAuth == [there |-> FALSE, disabled |-> FALSE, own |-> Clean, states |-> <<>>]

FreshAuth(disabled) ==
  [there |-> TRUE, disabled |-> disabled, own |-> Clean, states |-> <<>>]

NoEntry == [auth |-> NoAuth, bound |-> FALSE, alias |-> FALSE]

MinOf(S) == IF S = {} THEN 0 ELSE CHOOSE x \in S : \A y \in S : x <= y
MaxOf(S) == IF S = {} THEN 0 ELSE CHOOSE x \in S : \A y \in S : y <= x

\* availabilityBlock: blocked until the later of the two deadlines still ahead,
\* or for good when there is no deadline at all.
Deadline(c) == MaxOf({t \in {c.retry, c.recover} : t > now})

Blocks(c) ==
  /\ c.bad \/ c.exceeded
  /\ Deadline(c) # 0 \/ (c.retry = 0 /\ c.recover = 0)

\* isAuthBlockedForModel
Judged(a, m) ==
  IF a.states = <<>> THEN a.own ELSE IF m \in DOMAIN a.states THEN a.states[m] ELSE Clean

Blocked(a, m) == a.disabled \/ Blocks(Judged(a, m))

\* updateAggregatedAvailability: expired models are cleared and the auth-level
\* fields are recomputed from the models.
Expire(c) == IF c.bad /\ c.retry # 0 /\ c.retry <= now
             THEN [c EXCEPT !.bad = FALSE, !.retry = 0] ELSE c

Aggregate(a) ==
  LET states == [m \in DOMAIN a.states |-> Expire(a.states[m])]
      over == {m \in DOMAIN states : states[m].exceeded}
      all == \A m \in DOMAIN states : states[m].bad /\ states[m].retry > now
  IN  IF a.states = <<>> THEN [a EXCEPT !.own = Clean]
      ELSE [a EXCEPT !.states = states,
                     !.own = [bad |-> all,
                              retry |-> IF all THEN MinOf({states[m].retry : m \in DOMAIN states}) ELSE 0,
                              exceeded |-> over # {},
                              recover |-> MinOf({states[m].recover : m \in over} \ {0}),
                              level |-> MaxOf({states[m].level : m \in over})]]

\* clearCooldownStateForAuth
Hot(c) == c.bad \/ c.retry # 0 \/ c.exceeded \/ c.recover # 0
Cooled(c) == IF Hot(c) THEN Clean ELSE c

Cleared(a) ==
  LET cleared == [a EXCEPT !.own = Cooled(a.own),
                           !.states = [m \in DOMAIN a.states |-> Cooled(a.states[m])]]
  IN  IF a.states = <<>> THEN cleared ELSE Aggregate(cleared)

AnyHot(a) == Hot(a.own) \/ \E m \in DOMAIN a.states : Hot(a.states[m])

\* nextQuotaCooldown: <<cooldown, next level>>
NextQuotaCooldown(level) ==
  LET cooldown == MaxOf({BackoffBase, BackoffBase * 2^level})
  IN  IF cooldown >= BackoffMax THEN <<BackoffMax, level>> ELSE <<cooldown, level + 1>>

\* Mutant: every failure of a burst climbs the ladder.
QuotaCooldownAfterFailureEager(c) ==
  <<now + NextQuotaCooldown(c.level)[1], NextQuotaCooldown(c.level)[2]>>

\* quotaCooldownAfterFailure: <<deadline, level>>
QuotaCooldownAfterFailure(c) ==
  IF c.recover > now THEN <<c.recover, c.level>>
  ELSE <<now + NextQuotaCooldown(c.level)[1], NextQuotaCooldown(c.level)[2]>>

\* nextCloudflareCooldown: <<deadline, level>>
NextCloudflareCooldown(c) ==
  IF off THEN <<0, c.level>>
  ELSE <<now + MaxOf({CloudflareMin, NextQuotaCooldown(c.level)[1]}),
         NextQuotaCooldown(c.level)[2]>>

\* recoverableFailureRetryAfter
TransientRetry == IF off \/ Transient = 0 THEN 0 ELSE now + Transient

WithQuota(c, until, level) ==
  [bad |-> TRUE, retry |-> until, exceeded |-> TRUE, recover |-> until, level |-> level]

\* What one failed result does to a cooldown, before the disabled-cooling fixup.
Struck(c, kind, retryAfter) ==
  CASE kind = "unsupported" -> [c EXCEPT !.bad = TRUE, !.retry = now + Missing]
    [] kind = "cloudflare" ->
         WithQuota(c, NextCloudflareCooldown(c)[1], NextCloudflareCooldown(c)[2])
    [] kind = "denied" -> [c EXCEPT !.bad = TRUE, !.retry = IF off THEN 0 ELSE now + Denied]
    [] kind = "missing" -> [c EXCEPT !.bad = TRUE, !.retry = IF off THEN 0 ELSE now + Missing]
    [] kind = "quota" ->
         IF off THEN WithQuota(c, 0, c.level)
         ELSE IF retryAfter # 0 THEN WithQuota(c, now + retryAfter, c.level)
         ELSE WithQuota(c, QuotaCooldownAfterFailure(c)[1], QuotaCooldownAfterFailure(c)[2])
    [] kind = "transient" -> [c EXCEPT !.bad = (TransientRetry # 0), !.retry = TransientRetry]

\* Mutant: the fixup for disabled cooling is missing.
FailedUnfixed(c, kind, retryAfter) == Struck(c, kind, retryAfter)

Failed(c, kind, retryAfter) ==
  LET s == Struck(c, kind, retryAfter)
  IN  IF off /\ s.retry = 0 /\ s.recover = 0
      THEN [s EXCEPT !.bad = FALSE, !.exceeded = FALSE] ELSE s

\* ensureModelState
Ensured(a, m) ==
  IF m \in DOMAIN a.states THEN a
  ELSE [a EXCEPT !.states = [k \in DOMAIN a.states \cup {m} |->
                               IF k = m THEN Clean ELSE a.states[k]]]

SetState(a, m, c) == [Ensured(a, m) EXCEPT !.states[m] = c]

StateOf(a, m) == Ensured(a, m).states[m]

\* The state MarkResult leaves: a model's failure is aggregated, an auth-level
\* failure is not (applyAuthFailureState knows no unsupported model), and a
\* request-scoped or connection failure changes nothing.
AfterResult(a, m, ok, kind, retryAfter) ==
  CASE ok /\ m # NoModel -> Aggregate(SetState(a, m, Clean))
    [] ok /\ m = NoModel -> [a EXCEPT !.own = Clean]
    [] ~ok /\ kind = "skipped" -> a
    [] ~ok /\ kind # "skipped" /\ m # NoModel ->
         Aggregate(SetState(a, m, Failed(StateOf(a, m), kind, retryAfter)))
    [] ~ok /\ kind # "skipped" /\ m = NoModel ->
         [a EXCEPT !.own = Failed(a.own, IF kind = "unsupported" THEN "transient" ELSE kind,
                                  retryAfter)]

----------------------------------------------------------------------------
\* The records of the .cds file

RecordOf(m, c) == [model |-> m, retry |-> c.retry, exceeded |-> c.exceeded,
                   recover |-> c.recover, level |-> c.level]

Recorded(c) == c.bad /\ c.retry > now

\* cooldownStateRecordsForAuthLocked
Records(a) ==
  IF ~a.there \/ a.disabled \/ off THEN {}
  ELSE {RecordOf(NoModel, c) : c \in {x \in {a.own} : Recorded(x)}}
       \cup {RecordOf(m, a.states[m]) : m \in {k \in DOMAIN a.states : Recorded(a.states[k])}}

Live(records) == {r \in records : r.retry > now}

\* restoreCooldownRecordLocked: mergeModelState for a model, a plain
\* replacement at auth level.
Restored(r) ==
  [bad |-> TRUE, retry |-> r.retry, exceeded |-> r.exceeded,
   recover |-> IF r.exceeded /\ r.recover = 0 THEN r.retry ELSE r.recover,
   level |-> r.level]

Merged(c, d) ==
  [bad |-> c.bad \/ d.bad, retry |-> MaxOf({c.retry, d.retry}),
   exceeded |-> c.exceeded \/ d.exceeded,
   recover |-> MaxOf({c.recover, d.recover}), level |-> MaxOf({c.level, d.level})]

\* Mutant: records are restored although cooling is disabled.
RestorableAnyway(a, records) == IF a.there /\ ~a.disabled THEN Live(records) ELSE {}

Restorable(a, records) == IF a.there /\ ~a.disabled /\ ~off THEN Live(records) ELSE {}

WithRecords(a, records) ==
  LET live == Restorable(a, records)
      models == {m \in Models : \E r \in live : r.model = m}
      Rec(m) == CHOOSE r \in live : r.model = m
      merged == [a EXCEPT !.states = [k \in DOMAIN a.states \cup models |->
                   IF k \in models THEN Merged(StateOf(a, k), Restored(Rec(k)))
                   ELSE a.states[k]]]
      withModels == IF models = {} THEN a ELSE Aggregate(merged)
  IN  IF \E r \in live : r.model = NoModel
      THEN [withModels EXCEPT !.own = Restored(Rec(NoModel))]
      ELSE withModels

----------------------------------------------------------------------------
\* Operations as sequences of steps after their critical section

If(test, steps) == IF test THEN steps ELSE <<>>

\* persistCooldownStates
Persist == <<"lock", "records", "save", "unlock">>

Idle(c) == calls[c].steps = <<>>
AtRest == \A c \in Callers : Idle(c)

At(c, what) == ~Idle(c) /\ Head(calls[c].steps) = what

Awaits(c, what) == \E i \in DOMAIN calls[c].steps : calls[c].steps[i] = what

\* c goes on to its next step.
Proceed(c) == calls' = [calls EXCEPT ![c].steps = Tail(@)]

\* c starts an operation with these steps and this snapshot of the record.
Begin(c, steps, snap, records) ==
  /\ Idle(c)
  /\ calls[c].begun < MaxCalls
  /\ calls' = [calls EXCEPT ![c] = [steps |-> steps, snap |-> snap, records |-> records,
                                    begun |-> @.begun + 1]]

\* Somebody holds a copy of the record that is meant for the scheduler.
Carried ==
  pick.snap.there \/ \E c \in Callers : Awaits(c, "upsert") \/ Awaits(c, "upsertAlias")

\* What an operation keeps of a copy it has handed over: whether the credential
\* it was given is disabled.
Parted(a) == [NoAuth EXCEPT !.disabled = a.disabled]

\* pickNext notices an operation that starts while it runs.
PickDisturbed == pick' = [pick EXCEPT !.quiet = FALSE]

\* An Update puts a new record in the manager's map; the scheduler keeps the
\* record it was handed.
Unaliased == [sched EXCEPT !.auth = IF sched.alias THEN auth ELSE @, !.alias = FALSE]

CooldownInit ==
  /\ now = 1
  /\ off = FALSE
  /\ auth = FreshAuth(FALSE)
  /\ stored = NoModel
  /\ calls = [c \in Callers |-> [steps |-> <<>>, snap |-> NoAuth, records |-> {}, begun |-> 0]]
  /\ mu = NoModel
  /\ bound = TRUE
  /\ sched = [auth |-> FreshAuth(FALSE), bound |-> TRUE, alias |-> FALSE]
  /\ saved = {}
  /\ pick = [pc |-> "idle", model |-> NoModel, quiet |-> FALSE, snap |-> NoAuth]
  /\ crashes = 0
  /\ diskBehind = FALSE
  /\ schedBehind = FALSE
  /\ forgiven = {}
  /\ exposed = FALSE

\* MarkResult: the critical section, then scheduler, file and registry.
MarkResultAs(c, m, ok, kind, retryAfter) ==
  LET after == AfterResult(auth, m, ok, kind, retryAfter)
      changed == Records(auth) # Records(after)
      steps == <<"upsert">> \o If(changed, Persist)
  IN  /\ auth.there
      /\ auth' = after
      /\ Begin(c, steps, after, {})
      /\ PickDisturbed
      /\ forgiven' = IF ok THEN forgiven ELSE forgiven \ {m}
      /\ UNCHANGED <<now, off, mu, bound, sched, saved, crashes, diskBehind, schedBehind, stored,
                     exposed>>

MarkResult(c) ==
  /\ "result" \in Operations
  /\ \E m \in Models \cup {NoModel} :
       \/ MarkResultAs(c, m, TRUE, "skipped", 0)
       \/ \E kind \in Failures :
            \E ra \in IF kind = "quota" THEN RetryAfters ELSE {0} :
              MarkResultAs(c, m, FALSE, kind, ra)

\* ResetQuota: every model state is reset (resetModelState), the rest cleared.
\* When the auth store refuses the record the operation returns at once, with
\* the manager's record already changed.
AfterReset(a) == Cleared([a EXCEPT !.states = [m \in DOMAIN a.states |-> Clean]])

\* Mutant: the reset reaches the file and not the scheduler.
ResetQuotaQuiet(c) ==
  LET after == AfterReset(auth)
  IN  /\ "reset" \in Operations
      /\ auth.there
      /\ auth' = after
      /\ PickDisturbed
      /\ Begin(c, Persist, after, {})
      /\ UNCHANGED <<now, off, mu, bound, sched, saved, crashes, diskBehind, schedBehind,
                     forgiven, stored, exposed>>

ResetQuota(c) ==
  LET after == AfterReset(auth)
      changed == Records(auth) # Records(after)
  IN  /\ "reset" \in Operations
      /\ auth.there
      /\ auth' = after
      /\ PickDisturbed
      /\ \/ /\ Begin(c, <<"upsert">> \o If(changed, Persist), after, {})
            /\ UNCHANGED <<diskBehind, schedBehind>>
         \/ /\ "refuse" \in Operations
            /\ Begin(c, <<>>, NoAuth, {})
            /\ diskBehind' = TRUE
            /\ schedBehind' = TRUE
      /\ UNCHANGED <<now, off, mu, bound, sched, saved, crashes, forgiven, stored, exposed>>

\* ApplyConfigWithCooldownStateStore: under configCooldownMu, the new
\* configuration first and the cooldowns it forbids afterwards.  The store
\* itself is kept.
ApplyConfig(c) ==
  /\ "config" \in Operations
  /\ mu = NoModel
  /\ mu' = c
  /\ off' = ~off
  /\ Begin(c, <<"clear", "records", "save", "unlock">>, NoAuth, {})
  /\ PickDisturbed
  /\ UNCHANGED <<now, auth, bound, sched, saved, crashes, diskBehind, schedBehind, forgiven,
                 stored, exposed>>

\* clearDisabledCooldownStates
ClearDisabled(c) ==
  LET applies == auth.there /\ (off \/ auth.disabled) /\ AnyHot(auth)
      after == IF auth.there /\ (off \/ auth.disabled) THEN Cleared(auth) ELSE auth
  IN  /\ At(c, "clear")
      /\ auth' = after
      /\ calls' = [calls EXCEPT ![c].snap = after, ![c].steps =
                     If(applies, <<"upsert">>) \o Tail(@)]
      /\ UNCHANGED <<now, off, mu, bound, sched, saved, pick, crashes, diskBehind, schedBehind,
                     forgiven, stored, exposed>>

\* prepareCoreAuthForModelRegistration: GetByID decides between Register and
\* Update, and lends the new record its model states when neither is disabled ...
UpdateAuth(c, disabled) ==
  LET inherits == auth.there /\ ~auth.disabled /\ ~disabled
      given == [FreshAuth(disabled) EXCEPT !.states = IF inherits THEN auth.states ELSE <<>>]
  IN  /\ "update" \in Operations
      /\ Begin(c, <<IF auth.there THEN "update" ELSE "create">>, given, {})
      /\ PickDisturbed
      /\ UNCHANGED <<now, off, auth, stored, mu, bound, sched, saved, crashes, diskBehind,
                     schedBehind, forgiven, exposed>>

\* prepareRequestAuth, a management PATCH and refreshAuthForRequest: a copy of
\* the record that is changed without any lock and handed to Update.
PatchAuth(c, disabled) ==
  /\ "patch" \in Operations
  /\ auth.there
  /\ Begin(c, <<"patch">>, [auth EXCEPT !.disabled = disabled], {})
  /\ PickDisturbed
  /\ UNCHANGED <<now, off, auth, stored, mu, bound, sched, saved, crashes, diskBehind,
                 schedBehind, forgiven, exposed>>

\* ... Register, and Update, which does nothing when the record is gone and which
\* lends its states once more.  A patch registers no models.
StoreAuth(c) ==
  LET kind == Head(calls[c].steps)
      given == calls[c].snap
      inherits == kind # "create" /\ given.states = <<>> /\ ~auth.disabled /\ ~given.disabled
      filled == IF inherits THEN [given EXCEPT !.states = auth.states] ELSE given
      clears == off \/ given.disabled
      after == IF clears THEN Cleared(filled) ELSE filled
      rest == If(kind # "patch", <<"register", "reconcile", "refresh">>)
  IN  /\ At(c, "create") \/ At(c, "update") \/ At(c, "patch")
      /\ IF kind = "create" \/ auth.there
         THEN /\ auth' = after
              /\ stored' = c
              /\ sched' = Unaliased
              /\ calls' = [calls EXCEPT ![c].snap = after, ![c].steps =
                             <<"upsertAlias">> \o If(clears /\ AnyHot(filled), Persist) \o rest]
              /\ diskBehind' = TRUE
              /\ exposed' = FALSE
         ELSE /\ calls' = [calls EXCEPT ![c].snap = Parted(@), ![c].steps = rest]
              /\ UNCHANGED <<auth, stored, sched, diskBehind, exposed>>
      /\ UNCHANGED <<now, off, mu, bound, saved, pick, crashes, schedBehind, forgiven>>

\* registerModelsForAuth, for the credential it is given: a fresh registration
\* drops the registry's marks; a disabled credential is unregistered.
RegisterModels(c) ==
  /\ At(c, "register")
  /\ bound' = ~calls[c].snap.disabled
  /\ exposed' = (exposed \/ (~auth.there /\ bound' /\ Carried))
  /\ calls' = [calls EXCEPT ![c].steps = Tail(@), ![c].snap = NoAuth]
  /\ UNCHANGED <<now, off, auth, stored, mu, sched, saved, pick, crashes, diskBehind, schedBehind,
                 forgiven>>

\* ReconcileRegistryModelStates: models the registry lists are reset, the
\* others dropped; nothing is saved.
ReconcileRegistryModelStates(c) ==
  LET kept == IF bound THEN DOMAIN auth.states ELSE {}
      changed == kept # DOMAIN auth.states \/ \E m \in kept : auth.states[m] # Clean
      after == Aggregate([auth EXCEPT !.states = [m \in kept |-> Clean]])
  IN  /\ At(c, "reconcile")
      /\ IF auth.there /\ auth.states # <<>> /\ changed
         THEN /\ auth' = after
              /\ calls' = [calls EXCEPT ![c].snap = after,
                                        ![c].steps = <<"upsert">> \o Tail(@)]
              /\ diskBehind' = TRUE
              /\ forgiven' = forgiven \cup kept
         ELSE Proceed(c) /\ UNCHANGED <<auth, diskBehind, forgiven>>
      /\ UNCHANGED <<now, off, mu, bound, sched, saved, pick, crashes, schedBehind, stored,
                     exposed>>

\* RefreshSchedulerEntry: a fresh snapshot for the scheduler
RefreshSchedulerEntry(c) ==
  /\ At(c, "refresh")
  /\ calls' = [calls EXCEPT ![c].snap = auth,
                            ![c].steps = If(auth.there, <<"upsert">>) \o Tail(@)]
  /\ UNCHANGED <<now, off, auth, mu, bound, sched, saved, pick, crashes, diskBehind, schedBehind,
                 forgiven, stored, exposed>>

\* Mutant: the scheduler forgets the credential before the manager does.
RemoveStepsSwapped == <<"removeEntry", "delete">> \o Persist

\* Manager.Remove
RemoveSteps == <<"delete", "removeEntry">> \o Persist

\* applyCoreAuthRemoval: the registry first, then Manager.Remove.
RemoveAuth(c) ==
  /\ "remove" \in Operations
  /\ Begin(c, <<"unregister">> \o RemoveSteps, NoAuth, {})
  /\ PickDisturbed
  /\ UNCHANGED <<now, off, auth, stored, mu, bound, sched, saved, crashes, diskBehind, schedBehind,
                 forgiven, exposed>>

\* The management API's removeAuth: Manager.Remove alone.  The registry hears of
\* it when the watcher has seen that the file is gone (RemoveAuth).
DeleteAuthFile(c) ==
  /\ "delete" \in Operations
  /\ auth.there
  /\ Begin(c, RemoveSteps, NoAuth, {})
  /\ PickDisturbed
  /\ UNCHANGED <<now, off, auth, stored, mu, bound, sched, saved, crashes, diskBehind, schedBehind,
                 forgiven, exposed>>

UnregisterModels(c) ==
  /\ At(c, "unregister")
  /\ bound' = FALSE
  /\ Proceed(c)
  /\ UNCHANGED <<now, off, auth, stored, mu, sched, saved, pick, crashes, diskBehind, schedBehind,
                 forgiven, exposed>>

\* A record that is gone already ends the removal.
DeleteAuth(c) ==
  /\ At(c, "delete")
  /\ IF auth.there
     THEN /\ auth' = NoAuth
          /\ stored' = NoModel
          /\ sched' = Unaliased
          /\ exposed' = (bound /\ Carried)
          /\ Proceed(c)
     ELSE /\ calls' = [calls EXCEPT ![c].steps = <<>>]
          /\ UNCHANGED <<auth, stored, sched, exposed>>
  /\ UNCHANGED <<now, off, mu, bound, saved, pick, crashes, diskBehind, schedBehind, forgiven>>

----------------------------------------------------------------------------
\* Steps after the critical section

\* authScheduler.upsertAuth: a disabled credential is taken out.
Entry(a, alias) == IF a.disabled \/ ~a.there THEN NoEntry
                   ELSE [auth |-> a, bound |-> bound, alias |-> alias]

UpsertAuth(c) ==
  /\ At(c, "upsert")
  /\ sched' = Entry(calls[c].snap, FALSE)
  /\ schedBehind' = FALSE
  /\ calls' = [calls EXCEPT ![c].steps = Tail(@), ![c].snap = NoAuth]
  /\ UNCHANGED <<now, off, auth, mu, bound, saved, pick, crashes, diskBehind, forgiven, stored,
                 exposed>>

\* Register and Update hand the scheduler the very record they stored, which is
\* the manager's unless it was replaced or removed since.
UpsertStored(c) ==
  /\ At(c, "upsertAlias")
  /\ sched' = Entry(calls[c].snap, stored = c)
  /\ schedBehind' = FALSE
  /\ calls' = [calls EXCEPT ![c].steps = Tail(@), ![c].snap = Parted(@)]
  /\ UNCHANGED <<now, off, auth, mu, bound, saved, pick, crashes, diskBehind, forgiven, stored,
                 exposed>>

RemoveEntry(c) ==
  /\ At(c, "removeEntry")
  /\ sched' = NoEntry
  /\ Proceed(c)
  /\ UNCHANGED <<now, off, auth, mu, bound, saved, pick, crashes, diskBehind, schedBehind,
                 forgiven, stored, exposed>>

\* persistCooldownStates: the lock, the records, the file, the unlock
\* Mutant: saves are not serialised.
LockPersistOpen(c) ==
  /\ At(c, "lock")
  /\ mu' = c
  /\ Proceed(c)
  /\ UNCHANGED <<now, off, auth, bound, sched, saved, pick, crashes, diskBehind, schedBehind,
                 forgiven, stored, exposed>>

LockPersist(c) ==
  /\ At(c, "lock")
  /\ mu = NoModel
  /\ mu' = c
  /\ Proceed(c)
  /\ UNCHANGED <<now, off, auth, bound, sched, saved, pick, crashes, diskBehind, schedBehind,
                 forgiven, stored, exposed>>

SnapshotRecords(c) ==
  /\ At(c, "records")
  /\ calls' = [calls EXCEPT ![c].records = Records(auth), ![c].steps = Tail(@)]
  /\ diskBehind' = FALSE
  /\ UNCHANGED <<now, off, auth, mu, bound, sched, saved, pick, crashes, schedBehind, forgiven,
                 stored, exposed>>

SaveRecords(c) ==
  /\ At(c, "save")
  /\ \/ saved' = calls[c].records /\ UNCHANGED diskBehind
     \/ diskBehind' = TRUE /\ UNCHANGED saved
  /\ calls' = [calls EXCEPT ![c].steps = Tail(@), ![c].records = {}]
  /\ UNCHANGED <<now, off, auth, mu, bound, sched, pick, crashes, schedBehind, forgiven, stored,
                 exposed>>

Unlock(c) ==
  /\ At(c, "unlock")
  /\ mu' = NoModel
  /\ Proceed(c)
  /\ UNCHANGED <<now, off, auth, bound, sched, saved, pick, crashes, diskBehind, schedBehind,
                 forgiven, stored, exposed>>

----------------------------------------------------------------------------
\* RestoreCooldownStates, after a restart and after a configuration change

\* The file is read before the manager is locked; without records there is
\* nothing to do.
RestoreLoad(c) ==
  /\ "restore" \in Operations
  /\ saved # {}
  /\ Begin(c, <<"merge">> \o Persist, NoAuth, saved)
  /\ PickDisturbed
  /\ UNCHANGED <<now, off, auth, mu, bound, sched, saved, crashes, diskBehind, schedBehind,
                 forgiven, stored, exposed>>

RestoreMerge(c) ==
  LET after == WithRecords(auth, calls[c].records)
      restored == Restorable(auth, calls[c].records) # {}
  IN  /\ At(c, "merge")
      /\ auth' = after
      /\ calls' = [calls EXCEPT ![c].snap = after, ![c].records = {},
                                ![c].steps = If(restored, <<"upsert">>) \o Tail(@)]
      /\ UNCHANGED <<now, off, mu, bound, sched, saved, pick, crashes, diskBehind, schedBehind,
                     forgiven, stored, exposed>>

\* The process stops anywhere and starts again: Load rebuilds the credential
\* from its auth file and the scheduler from that, before any models are
\* registered, and Run restores the cooldowns.
Restart(c) ==
  /\ crashes < MaxCrashes
  /\ crashes' = crashes + 1
  /\ auth' = IF auth.there THEN FreshAuth(auth.disabled) ELSE NoAuth
  /\ calls' = [d \in Callers |->
                 [steps |-> If(d = c /\ saved # {}, <<"merge">> \o Persist),
                  snap |-> NoAuth, records |-> IF d = c THEN saved ELSE {},
                  begun |-> calls[d].begun]]
  /\ mu' = NoModel
  /\ bound' = FALSE
  /\ sched' = IF auth.there /\ ~auth.disabled
              THEN [auth |-> FreshAuth(FALSE), bound |-> FALSE, alias |-> FALSE] ELSE NoEntry
  /\ pick' = [pc |-> "idle", model |-> NoModel, quiet |-> FALSE, snap |-> NoAuth]
  /\ diskBehind' = FALSE
  /\ schedBehind' = FALSE
  /\ stored' = NoModel
  /\ exposed' = FALSE
  /\ UNCHANGED <<now, off, saved, forgiven>>

----------------------------------------------------------------------------
\* pickNext for one model, on the scheduler's fast path

\* What the scheduler may answer from: its copy, or the manager's own record
\* while it still holds the one Register or Update stored.
Views == {sched.auth} \cup (IF sched.alias THEN {auth} ELSE {})

Offers(view) == sched.bound /\ ~Blocked(view, pick.model)

PickStart ==
  /\ "pick" \in Operations
  /\ pick.pc = "idle"
  /\ \E m \in Models :
       pick' = [pc |-> "first", model |-> m, quiet |-> AtRest, snap |-> NoAuth]
  /\ UNCHANGED <<now, off, auth, calls, mu, bound, sched, saved, crashes, diskBehind, schedBehind,
                 forgiven, stored, exposed>>

\* A first refusal makes the manager rebuild the scheduler from its own records.
\* Mutant: a refusal of the scheduler is final.
PickFirstFinal ==
  /\ pick.pc = "first"
  /\ \E view \in Views :
       pick' = [pick EXCEPT !.pc = IF Offers(view) THEN "got" ELSE "second"]
  /\ UNCHANGED <<now, off, auth, calls, mu, bound, sched, saved, crashes, diskBehind, schedBehind,
                 forgiven, stored, exposed>>

PickFirst ==
  /\ pick.pc = "first"
  /\ \E view \in Views :
       pick' = [pick EXCEPT !.pc = IF Offers(view) THEN "got" ELSE "sync"]
  /\ UNCHANGED <<now, off, auth, calls, mu, bound, sched, saved, crashes, diskBehind, schedBehind,
                 forgiven, stored, exposed>>

\* snapshotAuths
PickSnapshot ==
  /\ pick.pc = "sync"
  /\ pick' = [pick EXCEPT !.pc = "rebuild", !.snap = auth]
  /\ UNCHANGED <<now, off, auth, calls, mu, bound, sched, saved, crashes, diskBehind, schedBehind,
                 forgiven, stored, exposed>>

\* authScheduler.rebuild
PickRebuild ==
  /\ pick.pc = "rebuild"
  /\ sched' = Entry(pick.snap, FALSE)
  /\ pick' = [pick EXCEPT !.pc = "second", !.snap = NoAuth]
  /\ schedBehind' = ~pick.quiet
  /\ UNCHANGED <<now, off, auth, calls, mu, bound, saved, crashes, diskBehind, forgiven, stored,
                 exposed>>

PickSecond ==
  /\ pick.pc = "second"
  /\ \E view \in Views :
       pick' = [pick EXCEPT !.pc = IF Offers(view) THEN "got" ELSE "failed"]
  /\ UNCHANGED <<now, off, auth, calls, mu, bound, sched, saved, crashes, diskBehind, schedBehind,
                 forgiven, stored, exposed>>

PickEnd ==
  /\ pick.pc \in {"got", "failed"}
  /\ pick' = [pc |-> "idle", model |-> NoModel, quiet |-> FALSE, snap |-> NoAuth]
  /\ UNCHANGED <<now, off, auth, calls, mu, bound, sched, saved, crashes, diskBehind, schedBehind,
                 forgiven, stored, exposed>>

Tick ==
  /\ now < MaxTime
  /\ now' = now + 1
  /\ UNCHANGED <<off, auth, calls, mu, bound, sched, saved, pick, crashes, diskBehind,
                 schedBehind, forgiven, stored, exposed>>

Start(c) == \/ MarkResult(c) \/ ResetQuota(c) \/ ApplyConfig(c)
            \/ \E disabled \in BOOLEAN : UpdateAuth(c, disabled) \/ PatchAuth(c, disabled)
            \/ RemoveAuth(c) \/ DeleteAuthFile(c) \/ RestoreLoad(c)

Continue(c) == \/ ClearDisabled(c) \/ StoreAuth(c) \/ RegisterModels(c) \/ ReconcileRegistryModelStates(c)
               \/ RefreshSchedulerEntry(c) \/ UnregisterModels(c) \/ DeleteAuth(c)
               \/ UpsertAuth(c) \/ UpsertStored(c) \/ RemoveEntry(c)
               \/ LockPersist(c) \/ SnapshotRecords(c) \/ SaveRecords(c) \/ Unlock(c)
               \/ RestoreMerge(c)

Pick == PickStart \/ PickFirst \/ PickSnapshot \/ PickRebuild \/ PickSecond \/ PickEnd

CooldownNext == \/ \E c \in Callers : Start(c) \/ Continue(c) \/ Restart(c)
                \/ Pick
                \/ Tick

CooldownSpec == CooldownInit /\ [][CooldownNext]_vars

----------------------------------------------------------------------------
\* Properties

CooldownRecords == [model : Models \cup {NoModel}, retry : Nat, exceeded : BOOLEAN,
                    recover : Nat, level : Nat]

IsAuth(a) ==
  /\ a.there \in BOOLEAN /\ a.disabled \in BOOLEAN /\ a.own \in Cooldowns
  /\ DOMAIN a.states \subseteq Models
  /\ \A m \in DOMAIN a.states : a.states[m] \in Cooldowns

\* Type correctness; the caller that holds configCooldownMu is the one whose
\* steps end in giving it back.
CooldownTypeOK ==
  /\ now \in 1..MaxTime /\ off \in BOOLEAN /\ bound \in BOOLEAN
  /\ IsAuth(auth) /\ IsAuth(sched.auth) /\ IsAuth(pick.snap)
  /\ mu \in Callers \cup {NoModel}
  /\ saved \subseteq CooldownRecords
  /\ \A c \in Callers : IsAuth(calls[c].snap) /\ calls[c].records \subseteq CooldownRecords
  /\ \A c \in Callers : mu = c <=> Awaits(c, "unlock") /\ ~Awaits(c, "lock")

\* Whenever no operation is under way, the .cds file holds exactly the
\* cooldowns in force (those not yet expired), however the results, resets,
\* configuration changes and restores that led there overlapped: a save taken
\* from an older state never lands after a newer one.  Changes that are not
\* followed by a save in the code (a re-registration, a reset the auth store
\* refused) and failed saves excuse the file until the next save.
SavedIsCurrent == AtRest /\ ~diskBehind => Live(saved) = Records(auth)

\* A credential or model that is held back has a time at which it comes back:
\* no sequence of failures, toggles of disable-cooling, resets and restores
\* leaves one unavailable with no deadline, which only a success or a reset
\* could lift.
BlockHasDeadline ==
  /\ Blocks(auth.own) => Deadline(auth.own) # 0
  /\ \A m \in DOMAIN auth.states : Blocks(auth.states[m]) => Deadline(auth.states[m]) # 0

\* While disable-cooling is on and has been applied, no model of the credential
\* is held back: not by a result that was being recorded when it was switched
\* on, nor by a record restored afterwards.
CoolingOffUnblocks ==
  off /\ (\A c \in Callers : ~At(c, "clear")) =>
    \A m \in Models : ~Blocks(Judged(auth, m))

\* A burst of quota failures climbs the backoff ladder at most one rung per
\* window: a window lasts at least one tick, so the rung cannot pass the clock.
LadderNeedsTime == \A m \in DOMAIN auth.states : auth.states[m].level <= now

\* A request that finds no operation under way is refused only when the
\* manager's own record says so: a scheduler copy that went stale is rebuilt
\* before the refusal.
RefusalIsTrue ==
  [][pick.pc = "second" /\ pick'.pc = "failed" /\ pick.quiet =>
       ~auth.there \/ ~bound \/ Blocked(auth, pick.model)]_vars

\* Once a credential has been removed the scheduler cannot hand it out again:
\* whichever of the service and the management API removed it, and not even when
\* a result that was being recorded at that time puts its copy back into the
\* scheduler.  What that rests on is that the service unregisters the models
\* first; the management API does not, and an update in progress may register
\* them again.  A removal that leaves the models listed while somebody carries a
\* copy to the scheduler is therefore exempt (exposed).
RemovedIsNotOffered ==
  ~auth.there /\ ~exposed /\ (\A c \in Callers : ~At(c, "removeEntry")) => ~sched.bound

\* With operations one after the other, the scheduler's copy leads to the same
\* routing decision as the manager's record for every model, at any later time.
SchedulerAgrees ==
  AtRest /\ ~schedBehind /\ auth.there /\ ~auth.disabled =>
    \A m \in Models, view \in Views : Blocked(view, m) = Blocked(auth, m)

\* A cooldown that re-registration reset does not come back without a new failure.
ReconciledStaysClean == \A m \in forgiven : m \in DOMAIN auth.states => ~Blocks(auth.states[m])

============================================================================
