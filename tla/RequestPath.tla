---------------------------- MODULE RequestPath ----------------------------
(***************************************************************************)
(* The path of a request through the auth manager, without Home: rounds of *)
(* attempts over the credentials, the permit of the upstream concurrency   *)
(* limit, the models of a credential, the refresh after a 401, the         *)
(* recording of results, and for a stream the goroutines that forward it   *)
(* and give the permit back.                                               *)
(*                                                                         *)
(* The code is conductor_execution.go, conductor_stream.go and             *)
(* upstream_concurrency.go in sdk/cliproxy/auth.  Execute and ExecuteCount *)
(* have the same control and are both the kind "call".                     *)
(*                                                                         *)
(* Which credential is offered is the scheduler's business (AuthScheduler) *)
(* and what a result does to a credential is CredentialCooldown's: here a  *)
(* pick yields any credential that was not tried, or none, and a result is *)
(* counted.  A request is executed with one provider.                      *)
(***************************************************************************)
EXTENDS Integers, FiniteSets, Sequences

CONSTANTS
  Calls,                \* requests
  Creds,                \* credentials
  ClaudeOAuth,          \* the ones whose cancelled requests are never recorded
  PoolSizes,            \* how many models a credential has for a request
  MaxRetryCredentials,  \* maxRetryCredentials, 0 for no limit
  MaxRounds,            \* request-retry and one
  Limits,               \* values of the concurrency limit, 0 for none
  MaxLimitChanges,      \* bound on the changes of the limit
  NoPermit

ASSUME PathAssumption ==
  /\ IsFiniteSet(Calls)
  /\ NoPermit \notin Nat \cup Creds
  /\ ClaudeOAuth \subseteq Creds
  /\ Limits \cup PoolSizes \subseteq Nat
  /\ {MaxRetryCredentials, MaxRounds, MaxLimitChanges} \subseteq Nat

VARIABLES
  limitConfig,   \* the limit of the configuration
  limitChanges,
  limiters,      \* the limiters made so far; the last is in upstreamLimiters
  call,          \* the goroutine of each request
  gone,          \* the requests whose context is done
  stream,        \* the goroutine of wrapStreamResult
  relay,         \* the goroutine of streamResultWithPermitRelease
  owed           \* history: the attempts that were begun and not recorded

pathVars == <<limitConfig, limitChanges, limiters, call, gone, stream, relay, owed>>

NotStarted == [pc |-> "idle", kind |-> "call", round |-> 0, tried |-> {}, attempted |-> {},
               auth |-> NoPermit, left |-> 0, refreshed |-> FALSE, limit |-> 0,
               permit |-> NoPermit]

PathInit ==
  /\ limitConfig \in Limits
  /\ limitChanges = 0
  /\ limiters = <<>>
  /\ call = [q \in Calls |-> NotStarted]
  /\ gone = {}
  /\ stream = [q \in Calls |-> "off"]
  /\ relay = [q \in Calls |-> NoPermit]
  /\ owed = [q \in Calls |-> 0]

-----------------------------------------------------------------------------
(* Steps of a goroutine. *)

At(q, pc) == call[q].pc = pc
Becomes(q, c) == call' = [call EXCEPT ![q] = c]
Cancelled(q) == q \in gone

(* claudeOAuthRequestCancellation: for these credentials a request that is *)
(* cancelled, or that the executor reports as cancelled, ends without a    *)
(* result.                                                                 *)
CancelsSilently(q) == Cancelled(q) /\ call[q].auth \in ClaudeOAuth

Begins(q) == owed' = [owed EXCEPT ![q] = @ + 1]

(* A result is recorded, or deliberately left out. *)
MarkResult(q) == owed' = [owed EXCEPT ![q] = @ - 1]
LeaveOut(q) == owed' = [owed EXCEPT ![q] = @ - 1]

ReleaseToCurrent(permit) ==
  limiters' = IF permit = NoPermit THEN limiters
              ELSE [limiters EXCEPT ![Len(limiters)].held = @ - 1]

(* permit.Release, to the limiter the permit was taken from. *)
Release(permit) ==
  limiters' = IF permit = NoPermit THEN limiters
              ELSE [limiters EXCEPT ![permit].held = @ - 1]

Rest(q, pc) == [NotStarted EXCEPT !.pc = pc, !.kind = call[q].kind, !.round = call[q].round]

Returns(q) == Becomes(q, [NotStarted EXCEPT !.pc = "over"])

(* The round fails with an error that shouldRetryAfterError may accept: it *)
(* depends on the cooldowns, so both answers are possible.                 *)
RoundFails(q) ==
  \/ Returns(q)
  \/ call[q].round < MaxRounds /\ Becomes(q, Rest(q, "cooldown"))

NextCredential(q) ==
  Becomes(q, [Rest(q, "pick") EXCEPT !.tried = call[q].tried, !.attempted = call[q].attempted])

-----------------------------------------------------------------------------
(* The environment: configuration and clients. *)

SetLimit(limit) ==
  /\ limitChanges < MaxLimitChanges
  /\ limitChanges' = limitChanges + 1
  /\ limitConfig' = limit
  /\ UNCHANGED <<limiters, call, gone, stream, relay, owed>>

Arrive(q, kind) ==
  /\ At(q, "idle")
  /\ Becomes(q, [NotStarted EXCEPT !.pc = "pick", !.kind = kind, !.round = 1])
  /\ UNCHANGED <<limitConfig, limitChanges, limiters, gone, stream, relay, owed>>

ClientLeaves(q) ==
  /\ ~At(q, "idle") /\ ~Cancelled(q)
  /\ ~At(q, "over") \/ stream[q] \in {"run", "failed"} \/ relay[q] # NoPermit
  /\ gone' = gone \cup {q}
  /\ UNCHANGED <<limitConfig, limitChanges, limiters, call, stream, relay, owed>>

-----------------------------------------------------------------------------
(* A round: executeMixedOnce, executeStreamMixedOnce. *)

PickFails(q) ==
  /\ At(q, "pick")
  /\ RoundFails(q)
  /\ UNCHANGED <<limitConfig, limitChanges, limiters, gone, stream, relay, owed>>

(* A credential without a model for the request is only marked as tried. *)
PickNext(q) ==
  /\ At(q, "pick")
  /\ MaxRetryCredentials > 0 => Cardinality(call[q].attempted) < MaxRetryCredentials
  /\ \E a \in Creds \ call[q].tried, models \in PoolSizes :
       IF models = 0
       THEN Becomes(q, [call[q] EXCEPT !.tried = @ \cup {a}])
       ELSE Becomes(q, [call[q] EXCEPT !.pc = "prepare", !.auth = a, !.left = models,
                                       !.refreshed = FALSE, !.tried = @ \cup {a},
                                       !.attempted = @ \cup {a}])
  /\ UNCHANGED <<limitConfig, limitChanges, limiters, gone, stream, relay, owed>>

(* A preparation that fails is a failed attempt: it is recorded, or left   *)
(* out as a cancellation.                                                  *)
PrepareFails(q) ==
  /\ At(q, "prepare")
  /\ Becomes(q, [call[q] EXCEPT !.pc = "unprepared"])
  /\ Begins(q)
  /\ UNCHANGED <<limitConfig, limitChanges, limiters, gone, stream, relay>>

PrepareRecorded(q) ==
  /\ At(q, "unprepared")
  /\ \/ call[q].auth \in ClaudeOAuth /\ LeaveOut(q) /\ RoundFails(q)
     \/ ~CancelsSilently(q) /\ MarkResult(q) /\ NextCredential(q)
  /\ UNCHANGED <<limitConfig, limitChanges, limiters, gone, stream, relay>>

(* prepareRequestAuth and acquireUpstreamConcurrency: the limit is read    *)
(* without a lock, then the limiter is looked up, and replaced if it was   *)
(* made for another limit.                                                 *)
PrepareRequestAuth(q) ==
  /\ At(q, "prepare")
  /\ Becomes(q, [call[q] EXCEPT !.pc = IF limitConfig = 0 THEN "execute" ELSE "limiter",
                                !.limit = limitConfig])
  /\ UNCHANGED <<limitConfig, limitChanges, limiters, gone, stream, relay, owed>>

UpstreamLimiterFor(q) ==
  /\ At(q, "limiter")
  /\ LET found == limiters # <<>> /\ limiters[Len(limiters)].limit = call[q].limit IN
       /\ limiters' = IF found THEN limiters
                      ELSE Append(limiters, [limit |-> call[q].limit, held |-> 0])
       /\ Becomes(q, [call[q] EXCEPT !.pc = "wait", !.limit = Len(limiters')])
  /\ UNCHANGED <<limitConfig, limitChanges, gone, stream, relay, owed>>

AcquirePermit(q) ==
  /\ At(q, "wait")
  /\ limiters[call[q].limit].held < limiters[call[q].limit].limit
  /\ limiters' = [limiters EXCEPT ![call[q].limit].held = @ + 1]
  /\ Becomes(q, [call[q] EXCEPT !.pc = "execute", !.permit = call[q].limit, !.limit = 0])
  /\ UNCHANGED <<limitConfig, limitChanges, gone, stream, relay, owed>>

(* The queue timeout or the end of the context. *)
AcquireFails(q) ==
  /\ At(q, "wait")
  /\ RoundFails(q)
  /\ UNCHANGED <<limitConfig, limitChanges, limiters, gone, stream, relay, owed>>

-----------------------------------------------------------------------------
(* The models of the credential. *)

(* An interceptor refuses the request, or its context is done before a     *)
(* stream is asked for.  Unless it makes the request invalid, a stream     *)
(* takes a refusal for a failure of the credential.                        *)
Intercepted(q) ==
  /\ At(q, "execute")
  /\ Release(call[q].permit)
  /\ IF call[q].kind = "call" \/ Cancelled(q) THEN RoundFails(q)
                                             ELSE NextCredential(q) \/ Returns(q)
  /\ UNCHANGED <<limitConfig, limitChanges, gone, stream, relay, owed>>

(* Execute or ExecuteStream, up to its first payload, is about to be       *)
(* called, for the first time or after a refresh.                          *)
Execute(q) ==
  /\ At(q, "execute")
  /\ Becomes(q, [call[q] EXCEPT !.pc = "answer"])
  /\ Begins(q)
  /\ UNCHANGED <<limitConfig, limitChanges, limiters, gone, stream, relay>>

(* A 401, and the credential was refreshed: once more, with the same model. *)
RefreshAfterUnauthorized(q) ==
  /\ At(q, "answer")
  /\ ~Cancelled(q) /\ ~call[q].refreshed
  /\ Becomes(q, [call[q] EXCEPT !.refreshed = TRUE])
  /\ UNCHANGED <<limitConfig, limitChanges, limiters, gone, stream, relay, owed>>

(* An error after the client has left, or for the silent ones any answer,  *)
(* and an error the executor calls a cancellation.                         *)
AnswerTooLate(q) ==
  /\ At(q, "answer")
  /\ Cancelled(q) \/ call[q].auth \in ClaudeOAuth
  /\ LeaveOut(q)
  /\ Release(call[q].permit)
  /\ IF call[q].kind = "call" \/ Cancelled(q) THEN RoundFails(q) ELSE NextCredential(q)
  /\ UNCHANGED <<limitConfig, limitChanges, gone, stream, relay>>

AnswerInvalid(q) ==
  /\ At(q, "answer")
  /\ ~Cancelled(q)
  /\ MarkResult(q)
  /\ Release(call[q].permit)
  /\ Returns(q)
  /\ UNCHANGED <<limitConfig, limitChanges, gone, stream, relay>>

(* The result is recorded; the next model, or the next credential.  When   *)
(* the first payload after a refresh does not come because the client has  *)
(* left, that too is recorded as a failure.                                *)
AnswerFailed(q) ==
  /\ At(q, "answer")
  /\ Cancelled(q) => /\ call[q].kind = "stream" /\ call[q].refreshed
                     /\ call[q].auth \notin ClaudeOAuth
  /\ MarkResult(q)
  /\ IF call[q].left > 1
     THEN /\ Becomes(q, [call[q] EXCEPT !.pc = "execute", !.left = @ - 1])
          /\ UNCHANGED limiters
     ELSE /\ IF Cancelled(q) THEN RoundFails(q) ELSE NextCredential(q)
          /\ Release(call[q].permit)
  /\ UNCHANGED <<limitConfig, limitChanges, gone, stream, relay>>

AnswerCall(q) ==
  /\ At(q, "answer")
  /\ call[q].kind = "call" /\ ~CancelsSilently(q)
  /\ MarkResult(q)
  /\ Release(call[q].permit)
  /\ Returns(q)
  /\ UNCHANGED <<limitConfig, limitChanges, gone, stream, relay>>

(* The first payload of a stream is there: the caller gets the stream, and *)
(* the permit goes to the goroutine that relays it.                        *)
AnswerStream(q) ==
  /\ At(q, "answer")
  /\ call[q].kind = "stream" /\ ~CancelsSilently(q)
  /\ stream' = [stream EXCEPT ![q] = "run"]
  /\ relay' = [relay EXCEPT ![q] = call[q].permit]
  /\ Becomes(q, [NotStarted EXCEPT !.pc = "over", !.auth = call[q].auth])
  /\ UNCHANGED <<limitConfig, limitChanges, limiters, gone, owed>>

(* waitForCooldown, then another round. *)
NextRound(q) ==
  /\ At(q, "cooldown")
  /\ \/ Becomes(q, [Rest(q, "pick") EXCEPT !.round = @ + 1])
     \/ Cancelled(q) /\ Returns(q)
  /\ UNCHANGED <<limitConfig, limitChanges, limiters, gone, stream, relay, owed>>

-----------------------------------------------------------------------------
(* wrapStreamResult: the first error of a stream is its result; at its end *)
(* without an error, success is.  Once the client has left, forwarding may *)
(* stop, and then nothing more is recorded.                                *)

StreamError(q) ==
  /\ stream[q] = "run"
  /\ MarkResult(q)
  /\ stream' = [stream EXCEPT ![q] = "failed"]
  /\ UNCHANGED <<limitConfig, limitChanges, limiters, call, gone, relay>>

StreamEndAlways(q) ==
  /\ stream[q] \in {"run", "failed"}
  /\ stream' = [stream EXCEPT ![q] = "done"]
  /\ MarkResult(q)
  /\ UNCHANGED <<limitConfig, limitChanges, limiters, call, gone, relay>>

StreamEnd(q) ==
  /\ stream[q] \in {"run", "failed"}
  /\ stream' = [stream EXCEPT ![q] = "done"]
  /\ IF stream[q] = "failed" THEN UNCHANGED owed
     ELSE IF CancelsSilently(q) THEN LeaveOut(q) ELSE MarkResult(q)
  /\ UNCHANGED <<limitConfig, limitChanges, limiters, call, gone, relay>>

StreamAbandoned(q) ==
  /\ stream[q] \in {"run", "failed"}
  /\ Cancelled(q)
  /\ stream' = [stream EXCEPT ![q] = "done"]
  /\ IF stream[q] = "run" THEN LeaveOut(q) ELSE UNCHANGED owed
  /\ UNCHANGED <<limitConfig, limitChanges, limiters, call, gone, relay>>

(* streamResultWithPermitRelease: at the end of the stream, or when it     *)
(* holds a chunk for a client that has left.                               *)
RelayEnds(q) ==
  /\ relay[q] # NoPermit
  /\ stream[q] = "done" \/ Cancelled(q)
  /\ Release(relay[q])
  /\ relay' = [relay EXCEPT ![q] = NoPermit]
  /\ UNCHANGED <<limitConfig, limitChanges, call, gone, stream, owed>>

-----------------------------------------------------------------------------
PathNext ==
  \/ \E limit \in Limits : SetLimit(limit)
  \/ \E q \in Calls :
       \/ \E kind \in {"call", "stream"} : Arrive(q, kind)
       \/ ClientLeaves(q)
       \/ PickFails(q) \/ PickNext(q)
       \/ PrepareRequestAuth(q) \/ PrepareFails(q) \/ PrepareRecorded(q)
       \/ UpstreamLimiterFor(q) \/ AcquirePermit(q) \/ AcquireFails(q)
       \/ Intercepted(q) \/ Execute(q) \/ RefreshAfterUnauthorized(q)
       \/ AnswerTooLate(q) \/ AnswerInvalid(q) \/ AnswerFailed(q)
       \/ AnswerCall(q) \/ AnswerStream(q)
       \/ NextRound(q)
       \/ StreamError(q) \/ StreamEnd(q) \/ StreamAbandoned(q) \/ RelayEnds(q)

PathSpec == PathInit /\ [][PathNext]_pathVars

-----------------------------------------------------------------------------
(* Properties. *)

Holders(k) ==
  {q \in Calls : call[q].permit = k} \cup {q \in Calls : relay[q] = k}

(* Every permit that is out belongs to a request that is being executed or *)
(* to a stream that has not ended, and to the limiter it came from: none   *)
(* leaks on an early return, none is given back twice or to a limiter that *)
(* replaced its own, and no limiter hands out more than its limit.         *)
PermitsBalance ==
  \A k \in DOMAIN limiters :
    limiters[k].held = Cardinality(Holders(k)) /\ limiters[k].held <= limiters[k].limit

(* An attempt that was begun is recorded once and only once, as a success  *)
(* or as a failure, however its stream ends and whichever of its client,   *)
(* its permit and its source goes first, or it was cancelled: one failure  *)
(* cannot raise a credential's backoff twice, a failed stream does not     *)
(* count as a success, and none goes unnoticed.                            *)
AttemptIsRecordedOnce ==
  \A q \in Calls :
    /\ owed[q] \in {0, 1}
    /\ At(q, "over") /\ stream[q] \in {"off", "done"} => owed[q] = 0
=============================================================================
