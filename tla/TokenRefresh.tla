---------------------------- MODULE TokenRefresh ----------------------------
(***************************************************************************)
(* The refresh of OAuth credentials (sdk/cliproxy/auth/conductor_refresh.go *)
(* and auto_refresh_loop.go): a loop that wakes when a credential is due   *)
(* and hands it to workers, requests that refresh a credential after a     *)
(* 401, and the logins, file changes, edits, removals and results that     *)
(* change credentials meanwhile.                                           *)
(*                                                                         *)
(* A step is a critical section of the manager's or the loop's mutex, or   *)
(* of a call to the provider.  The wake-up that queueReschedule sends      *)
(* after it has marked a credential dirty belongs to its step: sent later  *)
(* it could only be superfluous.  Refresh tokens are numbered as the       *)
(* provider issues them; an access token is issued with each.  The lead of *)
(* a provider that registers none is 0, and exec tells whether the         *)
(* provider has an executor.                                               *)
(***************************************************************************)
EXTENDS Integers, Sequences, FiniteSets, FiniteSetsExt, Functions

CONSTANTS
  Auths,               \* credential IDs
  Workers,             \* goroutines of the loop
  Callers,             \* goroutines that execute requests or change credentials
  Operations,          \* what callers do in a run
  Logins,              \* credentials as a login leaves them: [pref, lead, life, exec]
  JobBuffer,           \* capacity of l.jobs
  PendingBackoff, FailureBackoff, IneffectiveBackoff,
  CheckInterval,       \* l.interval
  MaxTime,             \* bound: the clock stops here
  MaxToken,            \* bound: tokens issued per credential
  MaxCalls,            \* bound: operations begun by callers
  MaxCopies            \* bound: copies are taken among this many first operations

ASSUME RefreshAssumption ==
  /\ IsFiniteSet(Auths) /\ IsFiniteSet(Workers) /\ IsFiniteSet(Callers)
  /\ Workers \cap Callers = {}
  /\ Operations \subseteq {"request", "result", "login", "file", "copy", "remove"}
  /\ Logins \subseteq [pref : Nat, lead : Nat, life : Nat, exec : BOOLEAN]
  /\ JobBuffer \in Nat \ {0}
  /\ {PendingBackoff, FailureBackoff, IneffectiveBackoff, CheckInterval} \subseteq Nat \ {0}
  /\ {MaxTime, MaxToken} \subseteq Nat \ {0} /\ {MaxCalls, MaxCopies} \subseteq Nat
  /\ "none" \notin Auths \cup Workers \cup Callers

VARIABLES
  now,
  auths,      \* m.auths: the credentials known, by ID
  phase,      \* of the loop: off, installed, snapshot, running, stopped
  queue,      \* l.queue with l.index: the time of the next check, by ID
  dirty,      \* l.dirty
  wake,       \* l.wakeCh holds a wake-up
  timer,      \* the time the timer fires, 0 when timerCh is nil
  jobs,       \* l.jobs
  loop,       \* the goroutine of loop: where it is, on what
  proc,       \* workers and callers: where they are, on what
  locks,      \* refreshLocks: the holder, by ID
  server,     \* external: the last token the provider issued, by ID
  calls,      \* operations begun by callers
  orphaned,   \* history: IDs dropped or restored without a reschedule
  spoiled,    \* history: IDs with an answer lost, a login overtaken or an old token stored
  replayed,   \* history: IDs of which a superseded token was presented
  marked,     \* history: time of the last mark, by ID, 0 when the credential was replaced
  spun        \* history: IDs marked twice at the same time

refreshVars == <<now, auths, phase, queue, dirty, wake, timer, jobs, loop, proc, locks, server,
                 calls, orphaned, spoiled, replayed, marked, spun>>
histories == <<orphaned, spoiled, replayed, marked, spun>>
loopVars == <<phase, queue, dirty, wake, timer, jobs, loop>>

Procs == Workers \cup Callers
NoAuth == [pref |-> 0, lead |-> 0, life |-> 0, expiry |-> 0, last |-> 0, next |-> 0,
           unauthorized |-> FALSE, token |-> 0, exec |-> FALSE]
Idle == [pc |-> "idle", id |-> "none", failed |-> 0, auth |-> NoAuth, answer |-> "none"]
LoopIdle == [pc |-> "idle", at |-> 0, todo |-> {}, id |-> "none", next |-> 0, back |-> "none"]

Known(id) == id \in DOMAIN auths
With(f, id, v) == [x \in DOMAIN f \cup {id} |-> IF x = id THEN v ELSE f[x]]
Without(f, id) == Restrict(f, DOMAIN f \ {id})

-----------------------------------------------------------------------------
(* When a credential is looked at and when it is refreshed *)

(* nextRefreshCheckAt at time t, 0 when the credential is not scheduled. *)
NextRefreshCheckAt(a, t) ==
  LET expiring == a.expiry # 0
      NotBefore(x) == Max({x, t})
  IN  CASE a.unauthorized -> 0
        [] ~a.unauthorized /\ a.next > t -> a.next
        [] ~a.unauthorized /\ a.next <= t /\ a.pref > 0 ->
             IF a.last = 0 \/ (expiring /\ a.expiry - t <= a.pref) THEN t
             ELSE NotBefore(Min({a.last + a.pref} \cup (IF expiring THEN {a.expiry - a.pref} ELSE {})))
        [] OTHER ->
             CASE a.lead = 0 -> 0
               [] a.lead # 0 /\ expiring -> NotBefore(a.expiry - a.lead)
               [] a.lead # 0 /\ ~expiring /\ a.last # 0 -> NotBefore(a.last + a.lead)
               [] OTHER -> t

(* shouldRefresh at time t; the lead is compared with the clock. *)
ShouldRefresh(a, t) ==
  /\ ~a.unauthorized
  /\ a.next <= t
  /\ IF a.pref > 0
     THEN a.last = 0 \/ (a.expiry # 0 /\ a.expiry - t <= a.pref) \/ t - a.last >= a.pref
     ELSE /\ a.lead # 0
          /\ IF a.expiry # 0 THEN a.expiry - now <= a.lead
             ELSE a.last = 0 \/ t - a.last >= a.lead

NextCheck(id, t) == IF Known(id) THEN NextRefreshCheckAt(auths[id], t) ELSE 0

(* queueRefreshReschedule: only while a loop is installed. *)
Listening == phase \in {"installed", "snapshot", "running"}

QueueReschedule(id) ==
  IF Listening
  THEN dirty' = dirty \cup {id} /\ wake' = TRUE /\ orphaned' = orphaned \ {id}
  ELSE UNCHANGED <<dirty, wake, orphaned>>

-----------------------------------------------------------------------------
(* A credential as a login leaves it, with the given token. *)
Obtained(login, token) ==
  [NoAuth EXCEPT !.pref = login.pref, !.lead = login.lead, !.life = login.life, !.exec = login.exec,
                 !.expiry = IF login.life = 0 THEN 0 ELSE now + login.life, !.token = token]

(* Load has read the credentials from the store; by now their tokens may   *)
(* have expired.                                                           *)
RefreshInit ==
  /\ now = 1
  /\ \E login \in Logins, expired \in BOOLEAN :
       auths = [id \in Auths |-> [Obtained(login, 1) EXCEPT !.expiry = IF expired THEN Min({@, now}) ELSE @]]
  /\ phase = "off"
  /\ queue = <<>>
  /\ dirty = {}
  /\ wake = FALSE
  /\ timer = 0
  /\ jobs = <<>>
  /\ loop = LoopIdle
  /\ proc = [p \in Procs |-> Idle]
  /\ locks = [id \in Auths |-> "none"]
  /\ server = [id \in Auths |-> 1]
  /\ calls = 0
  /\ orphaned = {} /\ spoiled = {} /\ replayed = {} /\ spun = {}
  /\ marked = [id \in Auths |-> 0]

-----------------------------------------------------------------------------
(* The loop *)

(* StartAutoRefresh installs the loop, rebuild reads the credentials under *)
(* the manager's mutex and files them under its own: until then the queue  *)
(* is the list of what will be filed.                                      *)
StartAutoRefresh ==
  /\ phase = "off"
  /\ phase' = "installed"
  /\ UNCHANGED <<now, auths, queue, dirty, wake, timer, jobs, loop, proc, locks, server, calls, histories>>

RebuildSnapshot ==
  /\ phase = "installed"
  /\ phase' = "snapshot"
  /\ LET watched == {id \in DOMAIN auths : NextCheck(id, now) # 0}
     IN  queue' = [id \in watched |-> NextCheck(id, now)]
  /\ UNCHANGED <<now, auths, dirty, wake, timer, jobs, loop, proc, locks, server, calls, histories>>

ResetTimer(at) ==
  timer' = IF DOMAIN queue = {} THEN 0 ELSE now + Max({0, Min(Range(queue)) - at})

RebuildFile ==
  /\ phase = "snapshot"
  /\ phase' = "running"
  /\ ResetTimer(now)
  /\ UNCHANGED <<now, auths, queue, dirty, wake, jobs, loop, proc, locks, server, calls, histories>>

(* StopAutoRefresh *)
StopAutoRefresh ==
  /\ phase = "running"
  /\ phase' = "stopped"
  /\ UNCHANGED <<now, auths, queue, dirty, wake, timer, jobs, loop, proc, locks, server, calls, histories>>

(* A stopped loop finishes what it is at.  That it or a worker may take up *)
(* one thing more before it looks at its context is left out.              *)
LoopUnchanged == UNCHANGED <<now, phase, proc, locks, server, calls>>

(* loop: a wake-up *)
LoopWake ==
  /\ phase = "running" /\ loop.pc = "idle" /\ wake
  /\ wake' = FALSE
  /\ loop' = [loop EXCEPT !.pc = "drain", !.at = now]
  /\ UNCHANGED <<auths, queue, dirty, timer, jobs, histories>> /\ LoopUnchanged

(* loop: the timer, with popDue *)
LoopTimer ==
  /\ phase = "running" /\ loop.pc = "idle" /\ timer \in 1 .. now
  /\ timer' = 0
  /\ LET due == {id \in DOMAIN queue : queue[id] <= now}
     IN  /\ queue' = Restrict(queue, DOMAIN queue \ due)
         /\ loop' = [loop EXCEPT !.pc = "due", !.at = now, !.todo = due]
  /\ UNCHANGED <<auths, dirty, wake, jobs, histories>> /\ LoopUnchanged

(* The decision to file credential id at time next (0: to drop it), which  *)
(* LoopPut carries out.                                                    *)
Deciding(id, next, back) ==
  loop' = [loop EXCEPT !.pc = "put", !.id = id, !.next = next, !.back = back, !.todo = @ \ {id}]

(* handleDueAuth, under the manager's mutex *)
LoopDue(id) ==
  /\ loop.pc = "due" /\ id \in loop.todo
  /\ \/ /\ ~Known(id)
        /\ loop' = [loop EXCEPT !.todo = @ \ {id}]
     \/ /\ Known(id)
        /\ NextCheck(id, loop.at) = 0 \/ ~ShouldRefresh(auths[id], loop.at)
        /\ Deciding(id, NextCheck(id, loop.at), "due")
     \/ /\ Known(id)
        /\ NextCheck(id, loop.at) # 0 /\ ShouldRefresh(auths[id], loop.at) /\ ~auths[id].exec
        /\ Deciding(id, loop.at + CheckInterval, "due")
     \/ /\ Known(id)
        /\ NextCheck(id, loop.at) # 0 /\ ShouldRefresh(auths[id], loop.at) /\ auths[id].exec
        /\ loop' = [loop EXCEPT !.pc = "mark", !.id = id, !.todo = @ \ {id}]
  /\ UNCHANGED <<auths, queue, dirty, wake, timer, jobs, histories>> /\ LoopUnchanged

(* markRefreshPending *)
LoopMark ==
  LET id == loop.id
      open == Known(id) /\ auths[id].next <= loop.at
  IN  /\ loop.pc = "mark"
      /\ loop' = [loop EXCEPT !.pc = IF open THEN "pending" ELSE "reread"]
      /\ auths' = IF open THEN [auths EXCEPT ![id].next = loop.at + PendingBackoff] ELSE auths
      /\ marked' = IF open THEN [marked EXCEPT ![id] = loop.at] ELSE marked
      /\ spun' = IF open /\ marked[id] = loop.at THEN spun \cup {id} ELSE spun
      /\ UNCHANGED <<queue, dirty, wake, timer, jobs, orphaned, spoiled, replayed>> /\ LoopUnchanged

(* markRefreshPending: the credential is due again when the mark expires. *)
LoopPending ==
  /\ loop.pc = "pending"
  /\ QueueReschedule(loop.id)
  /\ loop' = [loop EXCEPT !.pc = "send"]
  /\ UNCHANGED <<auths, queue, timer, jobs, spoiled, replayed, marked, spun>> /\ LoopUnchanged

(* handleDueAuth: somebody else marked or removed the credential. *)
LoopReread ==
  /\ loop.pc = "reread"
  /\ Deciding(loop.id, NextCheck(loop.id, loop.at), "due")
  /\ UNCHANGED <<auths, queue, dirty, wake, timer, jobs, histories>> /\ LoopUnchanged

(* handleDueAuth: the loop waits while the workers are behind, unless it   *)
(* is stopped.                                                             *)
LoopSend ==
  /\ loop.pc = "send"
  /\ \/ Len(jobs) < JobBuffer /\ jobs' = Append(jobs, loop.id)
     \/ phase = "stopped" /\ UNCHANGED jobs
  /\ loop' = [loop EXCEPT !.pc = "due", !.id = "none"]
  /\ UNCHANGED <<auths, queue, dirty, wake, timer, histories>> /\ LoopUnchanged

(* drainDirty *)
LoopDrain ==
  /\ loop.pc = "drain" \/ (loop.pc = "due" /\ loop.todo = {})
  /\ dirty' = {}
  /\ loop' = [loop EXCEPT !.pc = "apply", !.todo = dirty]
  /\ UNCHANGED <<auths, queue, wake, timer, jobs, histories>> /\ LoopUnchanged

(* applyDirty, under the manager's mutex *)
LoopApply(id) ==
  /\ loop.pc = "apply" /\ id \in loop.todo
  /\ Deciding(id, NextCheck(id, loop.at), "apply")
  /\ UNCHANGED <<auths, queue, dirty, wake, timer, jobs, histories>> /\ LoopUnchanged

(* upsert or remove, under the loop's mutex *)
LoopPut ==
  /\ loop.pc = "put"
  /\ queue' = IF loop.next = 0 THEN Without(queue, loop.id) ELSE With(queue, loop.id, loop.next)
  /\ loop' = [loop EXCEPT !.pc = loop.back, !.id = "none", !.next = 0, !.back = "none"]
  /\ UNCHANGED <<auths, dirty, wake, timer, jobs, histories>> /\ LoopUnchanged

(* Mutated form of LoopRest: the timer is left as it is. *)
LoopRestUnarmed ==
  /\ loop.pc = "apply" /\ loop.todo = {}
  /\ timer' = timer
  /\ loop' = LoopIdle
  /\ UNCHANGED <<auths, queue, dirty, wake, jobs, histories>> /\ LoopUnchanged

(* resetTimer *)
LoopRest ==
  /\ loop.pc = "apply" /\ loop.todo = {}
  /\ ResetTimer(loop.at)
  /\ loop' = LoopIdle
  /\ UNCHANGED <<auths, queue, dirty, wake, jobs, histories>> /\ LoopUnchanged

LoopStep ==
  \/ LoopWake \/ LoopTimer \/ LoopMark \/ LoopPending \/ LoopReread \/ LoopSend
  \/ LoopDrain \/ LoopPut \/ LoopRest
  \/ \E id \in Auths : LoopDue(id) \/ LoopApply(id)

-----------------------------------------------------------------------------
(* A refresh, by a worker or a request *)

At(p, pc) == proc[p].pc = pc
Move(p, pc) == proc' = [proc EXCEPT ![p] = [Idle EXCEPT !.pc = pc, !.id = proc[p].id]]
ProcUnchanged == UNCHANGED <<now, phase, queue, timer, jobs, loop>>

(* A worker reschedules the credential after every refresh. *)
Done(p) == IF p \in Workers THEN [Idle EXCEPT !.pc = "after", !.id = proc[p].id] ELSE Idle

(* The deferred unlock, and the end of refreshAuthForRequest. *)
Return(p) ==
  /\ proc' = [proc EXCEPT ![p] = Done(p)]
  /\ locks' = [locks EXCEPT ![proc[p].id] = "none"]

(* worker *)
WorkerTake(w) ==
  /\ phase = "running" /\ At(w, "idle") /\ jobs # <<>>
  /\ jobs' = Tail(jobs)
  /\ proc' = [proc EXCEPT ![w] = [Idle EXCEPT !.pc = "lock", !.id = Head(jobs)]]
  /\ UNCHANGED <<now, auths, phase, queue, dirty, wake, timer, loop, locks, server, calls, histories>>

(* tryRefreshAfterUnauthorized: a request that was sent with this or an    *)
(* earlier token of the credential is answered 401.                        *)
RequestUnauthorized(c, id, failed) ==
  /\ "request" \in Operations /\ calls < MaxCalls
  /\ At(c, "idle") /\ Known(id) /\ failed \in 1 .. auths[id].token
  /\ calls' = calls + 1
  /\ proc' = [proc EXCEPT ![c] = [Idle EXCEPT !.pc = "lock", !.id = id, !.failed = failed]]
  /\ UNCHANGED <<auths, dirty, wake, locks, server, histories>> /\ ProcUnchanged

(* Mutated form of RefreshRead: the credential's lock is not waited for. *)
RefreshReadUnlocked(p) ==
  LET id == proc[p].id
      missing == ~(Known(id) /\ auths[id].exec)
      replaced == Known(id) /\ proc[p].failed # 0 /\ auths[id].token # proc[p].failed
  IN  /\ At(p, "lock")
      /\ \/ /\ missing \/ replaced
            /\ proc' = [proc EXCEPT ![p] = Done(p)]
            /\ UNCHANGED locks
         \/ /\ ~missing /\ ~replaced
            /\ proc' = [proc EXCEPT ![p].pc = "call", ![p].auth = auths[id], ![p].failed = 0]
            /\ locks' = [locks EXCEPT ![id] = p]
      /\ UNCHANGED <<auths, dirty, wake, server, calls, histories>> /\ ProcUnchanged

(* refreshAuthForRequest, with the credential's lock: the credential or    *)
(* its executor is missing, or it has another token than the one that      *)
(* failed, or a copy of it is refreshed.                                   *)
RefreshRead(p) ==
  LET id == proc[p].id
      missing == ~(Known(id) /\ auths[id].exec)
      replaced == Known(id) /\ proc[p].failed # 0 /\ auths[id].token # proc[p].failed
  IN  /\ At(p, "lock") /\ locks[id] = "none"
      /\ \/ /\ missing \/ replaced
            /\ proc' = [proc EXCEPT ![p] = Done(p)]
            /\ UNCHANGED locks
         \/ /\ ~missing /\ ~replaced
            /\ proc' = [proc EXCEPT ![p].pc = "call", ![p].auth = auths[id], ![p].failed = 0]
            /\ locks' = [locks EXCEPT ![id] = p]
      /\ UNCHANGED <<auths, dirty, wake, server, calls, histories>> /\ ProcUnchanged

(* External: the provider issues the next token for the last one it        *)
(* issued, or does not; the answer arrives, gets lost or finds the caller  *)
(* gone.  A grant may leave the expiry as it was.                          *)
ProviderAnswers(p) ==
  LET id == proc[p].id
      valid == proc[p].auth.token = server[id]
      Hears(answer) == proc' = [proc EXCEPT ![p].pc = "answered", ![p].answer = answer, ![p].auth = NoAuth]
      mayCancel == p \in Callers \/ phase = "stopped"
  IN  /\ At(p, "call")
      /\ \/ /\ valid /\ server[id] < MaxToken
            /\ server' = [server EXCEPT ![id] = @ + 1]
            /\ \/ /\ \E expiry \in {proc[p].auth.expiry,
                                   IF proc[p].auth.life = 0 THEN 0 ELSE now + proc[p].auth.life} :
                       proc' = [proc EXCEPT ![p].pc = "answered", ![p].answer = "granted",
                                            ![p].auth.token = server[id] + 1, ![p].auth.expiry = expiry]
                  /\ UNCHANGED spoiled
               \/ /\ Hears("failed") \/ (mayCancel /\ Hears("canceled"))
                  /\ spoiled' = spoiled \cup {id}
            /\ UNCHANGED replayed
         \/ /\ Hears("failed") \/ Hears("unauthorized") \/ (mayCancel /\ Hears("canceled"))
            /\ replayed' = IF valid \/ id \in spoiled THEN replayed ELSE replayed \cup {id}
            /\ UNCHANGED <<server, spoiled>>
      /\ UNCHANGED <<auths, dirty, wake, locks, calls, orphaned, marked, spun>> /\ ProcUnchanged

(* Mutated form of Refreshed: no backoff after an ineffective refresh. *)
RefreshedEagerly(a) == [a EXCEPT !.last = now, !.next = 0, !.unauthorized = FALSE]

(* refreshAuthForRequest: the credential after a refresh *)
Refreshed(a) ==
  LET fresh == [a EXCEPT !.last = now, !.next = 0, !.unauthorized = FALSE]
  IN  [fresh EXCEPT !.next = IF ShouldRefresh(fresh, now) THEN now + IneffectiveBackoff ELSE 0]

(* refreshAuthForRequest: Update writes the refreshed copy over whatever   *)
(* became of the credential; a failure is noted on the credential itself.  *)
RefreshStore(p) ==
  LET id == proc[p].id
  IN  /\ At(p, "answered")
      /\ \/ /\ proc[p].answer = "canceled" \/ ~Known(id)
            /\ Return(p)
            /\ UNCHANGED auths
         \/ /\ Known(id) /\ proc[p].answer = "granted"
            /\ auths' = [auths EXCEPT ![id] = Refreshed(proc[p].auth)]
            /\ Move(p, "reschedule") /\ UNCHANGED locks
         \/ /\ Known(id) /\ proc[p].answer = "failed"
            /\ auths' = [auths EXCEPT ![id].unauthorized = FALSE, ![id].next = now + FailureBackoff]
            /\ Move(p, "reschedule") /\ UNCHANGED locks
         \/ /\ Known(id) /\ proc[p].answer = "unauthorized"
            /\ auths' = [auths EXCEPT ![id].unauthorized = TRUE, ![id].next = 0]
            /\ Move(p, "reschedule") /\ UNCHANGED locks
      /\ UNCHANGED <<dirty, wake, server, calls, histories>> /\ ProcUnchanged

RefreshReschedule(p) ==
  /\ At(p, "reschedule")
  /\ QueueReschedule(proc[p].id)
  /\ Return(p)
  /\ UNCHANGED <<auths, server, calls, spoiled, replayed, marked, spun>> /\ ProcUnchanged

(* worker: after refreshAuth, on the loop the worker belongs to *)
WorkerAfter(w) ==
  /\ At(w, "after")
  /\ dirty' = dirty \cup {proc[w].id} /\ wake' = TRUE
  /\ orphaned' = orphaned \ {proc[w].id}
  /\ proc' = [proc EXCEPT ![w] = Idle]
  /\ UNCHANGED <<auths, locks, server, calls, spoiled, replayed, marked, spun>> /\ ProcUnchanged

-----------------------------------------------------------------------------
(* What else changes credentials *)

(* MarkResult: the result of a request, or of one for another model, puts  *)
(* a 401 on the credential or takes it off.                                *)
MarkResult(id, unauthorized) ==
  /\ "result" \in Operations /\ calls < MaxCalls
  /\ Known(id) /\ auths[id].unauthorized # unauthorized
  /\ calls' = calls + 1
  /\ auths' = [auths EXCEPT ![id].unauthorized = unauthorized]
  /\ orphaned' = IF unauthorized \/ ~Listening THEN orphaned ELSE orphaned \cup {id}
  /\ marked' = IF unauthorized THEN marked ELSE [marked EXCEPT ![id] = 0]
  /\ UNCHANGED <<dirty, wake, proc, locks, server, spoiled, replayed, spun>> /\ ProcUnchanged

(* A login writes a credential with a new token, which the watcher reads.  *)
LoginRead(c, id, login) ==
  /\ "login" \in Operations /\ calls < MaxCalls
  /\ At(c, "idle") /\ server[id] < MaxToken
  /\ calls' = calls + 1
  /\ server' = [server EXCEPT ![id] = @ + 1]
  /\ spoiled' = spoiled \cup {id}
  /\ proc' = [proc EXCEPT ![c] = [Idle EXCEPT !.pc = "file", !.id = id,
                                              !.auth = Obtained(login, server[id] + 1)]]
  /\ UNCHANGED <<auths, dirty, wake, locks, orphaned, replayed, marked, spun>> /\ ProcUnchanged

(* The watcher reads a credential's file that was changed otherwise: it    *)
(* has the token that the credential had when it was last saved.           *)
FileRead(c, id) ==
  /\ "file" \in Operations /\ calls < MaxCalls /\ calls < MaxCopies
  /\ At(c, "idle") /\ Known(id)
  /\ calls' = calls + 1
  /\ proc' = [proc EXCEPT ![c] = [Idle EXCEPT !.pc = "file", !.id = id,
                  !.auth = [auths[id] EXCEPT !.last = 0, !.next = 0, !.unauthorized = FALSE]]]
  /\ UNCHANGED <<auths, dirty, wake, locks, server, histories>> /\ ProcUnchanged

(* prepareCoreAuthForModelRegistration: the credential from the file takes *)
(* over the refresh times of the one it replaces ...                       *)
PrepareCoreAuth(c) ==
  LET id == proc[c].id
      old == IF Known(id) THEN auths[id] ELSE NoAuth
  IN  /\ At(c, "file")
      /\ proc' = [proc EXCEPT ![c].pc = IF Known(id) THEN "update" ELSE "register",
                              ![c].auth.last = old.last, ![c].auth.next = old.next]
      /\ UNCHANGED <<auths, dirty, wake, locks, server, calls, histories>> /\ ProcUnchanged

(* prepareRequestAuth and the management handlers that edit a credential   *)
(* take a copy of it, without its refresh lock.                            *)
CopyRead(c, id) ==
  /\ "copy" \in Operations /\ calls < MaxCalls /\ calls < MaxCopies
  /\ At(c, "idle") /\ Known(id)
  /\ calls' = calls + 1
  /\ proc' = [proc EXCEPT ![c] = [Idle EXCEPT !.pc = "copied", !.id = id, !.auth = auths[id]]]
  /\ UNCHANGED <<auths, dirty, wake, locks, server, histories>> /\ ProcUnchanged

(* PrepareRequestAuth of Antigravity refreshes a copy that has expired     *)
(* itself; the rest of the preparation may still fail.  A copy with a      *)
(* superseded token fails here.  (Its executor shares one call among       *)
(* concurrent refreshes with the same token, which is left out.)           *)
PrepareRefreshes(c) ==
  LET id == proc[c].id
      valid == proc[c].auth.token = server[id]
      Gone == proc' = [proc EXCEPT ![c] = Idle]
  IN  /\ At(c, "copied") /\ proc[c].auth.expiry # 0 /\ proc[c].auth.expiry <= now
      /\ \/ /\ valid /\ server[id] < MaxToken
            /\ server' = [server EXCEPT ![id] = @ + 1]
            /\ spoiled' = spoiled \cup {id}
            /\ \/ proc' = [proc EXCEPT ![c].pc = "update", ![c].auth.token = server[id] + 1,
                                       ![c].auth.expiry = now + proc[c].auth.life]
               \/ Gone
         \/ Gone /\ UNCHANGED <<server, spoiled>>
      /\ UNCHANGED <<auths, dirty, wake, locks, calls, orphaned, replayed, marked, spun>> /\ ProcUnchanged

(* ... stored by Register, or by Update if it is still there.  A token     *)
(* that is not the last one issued takes the place of another: spoiled.    *)
StoreAuth(c) ==
  LET id == proc[c].id
      token == proc[c].auth.token
  IN  /\ At(c, "register") \/ At(c, "update") \/ At(c, "copied")
      /\ IF ~At(c, "register") /\ ~Known(id)
         THEN proc' = [proc EXCEPT ![c] = Idle] /\ UNCHANGED <<auths, spoiled, marked>>
         ELSE /\ auths' = With(auths, id, proc[c].auth)
              /\ Move(c, "stored")
              /\ marked' = [marked EXCEPT ![id] = 0]
              /\ spoiled' = CASE token = server[id] /\ locks[id] = "none" -> spoiled \ {id}
                              [] ~(token = server[id] /\ locks[id] = "none")
                                   /\ Known(id) /\ auths[id].token = token -> spoiled
                              [] OTHER -> spoiled \cup {id}
      /\ UNCHANGED <<dirty, wake, locks, server, calls, orphaned, replayed, spun>> /\ ProcUnchanged

StoreReschedule(c) ==
  /\ At(c, "stored")
  /\ QueueReschedule(proc[c].id)
  /\ proc' = [proc EXCEPT ![c] = Idle]
  /\ UNCHANGED <<auths, locks, server, calls, spoiled, replayed, marked, spun>> /\ ProcUnchanged

(* Remove, then queueRefreshUnschedule *)
RemoveAuth(c, id) ==
  /\ "remove" \in Operations /\ calls < MaxCalls
  /\ At(c, "idle") /\ Known(id)
  /\ calls' = calls + 1
  /\ auths' = Without(auths, id)
  /\ proc' = [proc EXCEPT ![c] = [Idle EXCEPT !.pc = "removed", !.id = id]]
  /\ UNCHANGED <<dirty, wake, locks, server, histories>> /\ ProcUnchanged

QueueUnschedule(c) ==
  /\ At(c, "removed")
  /\ LET id == proc[c].id
         drops == phase = "running" /\ id \in DOMAIN queue
     IN  /\ queue' = IF drops THEN Without(queue, id) ELSE queue
         /\ orphaned' = IF drops /\ Known(id) THEN orphaned \cup {id} ELSE orphaned
  /\ proc' = [proc EXCEPT ![c] = Idle]
  /\ UNCHANGED <<now, auths, phase, dirty, wake, timer, jobs, loop, locks, server, calls>>
  /\ UNCHANGED <<spoiled, replayed, marked, spun>>

RefreshTick ==
  /\ now < MaxTime
  /\ now' = now + 1
  /\ UNCHANGED <<auths, phase, queue, dirty, wake, timer, jobs, loop, proc, locks, server, calls, histories>>

RefreshNext ==
  \/ StartAutoRefresh \/ RebuildSnapshot \/ RebuildFile \/ StopAutoRefresh \/ LoopStep
  \/ \E w \in Workers : WorkerTake(w) \/ WorkerAfter(w)
  \/ \E c \in Callers :
       \/ PrepareCoreAuth(c) \/ PrepareRefreshes(c)
       \/ StoreAuth(c) \/ StoreReschedule(c) \/ QueueUnschedule(c)
       \/ \E id \in Auths :
            \/ RemoveAuth(c, id) \/ FileRead(c, id) \/ CopyRead(c, id)
            \/ \E failed \in 1 .. MaxToken : RequestUnauthorized(c, id, failed)
            \/ \E login \in Logins : LoginRead(c, id, login)
  \/ \E id \in Auths, unauthorized \in BOOLEAN : MarkResult(id, unauthorized)
  \/ \E p \in Procs :
       RefreshRead(p) \/ ProviderAnswers(p) \/ RefreshStore(p) \/ RefreshReschedule(p)
  \/ RefreshTick

RefreshSpec == RefreshInit /\ [][RefreshNext]_refreshVars

-----------------------------------------------------------------------------
(* Properties *)

AuthType ==
  [pref : Nat, lead : Nat, life : Nat, expiry : Nat, last : 0 .. MaxTime, next : Nat,
   unauthorized : BOOLEAN, token : 0 .. MaxToken, exec : BOOLEAN]

(* Type invariant; the holder of a credential's lock is refreshing it, and *)
(* the jobs fit the channel.                                               *)
RefreshTypeOK ==
  /\ now \in 1 .. MaxTime
  /\ DOMAIN auths \subseteq Auths /\ \A id \in DOMAIN auths : auths[id] \in AuthType
  /\ phase \in {"off", "installed", "snapshot", "running", "stopped"}
  /\ DOMAIN queue \subseteq Auths /\ \A id \in DOMAIN queue : queue[id] \in Nat \ {0}
  /\ dirty \subseteq Auths /\ loop.todo \subseteq Auths /\ timer \in Nat
  /\ Len(jobs) <= JobBuffer /\ Range(jobs) \subseteq Auths
  /\ \A id \in Auths : locks[id] # "none" =>
       /\ proc[locks[id]].id = id
       /\ proc[locks[id]].pc \in {"call", "answered", "reschedule"}

(* A refresh token is presented only while it is the last one issued:      *)
(* refreshes of a credential wait for each other and the second reads what *)
(* the first stored (refreshLocks and the read after it in                 *)
(* refreshAuthForRequest). The lock orders refreshes and nothing else. The *)
(* promise ends, until the last token is stored outside of a refresh, when *)
(* an answer is lost with the new token, when a login or a preparation     *)
(* that refreshes its copy overtakes a refresh, and when a writer without  *)
(* the lock puts back a token that was superseded since it read it:        *)
(* prepareRequestAuth, a management edit, or the watcher with an older     *)
(* file (CopyRead, FileRead). After these the code does present a          *)
(* superseded token.                                                       *)
NoTokenReplayed == replayed = {}

(* The loop watches every credential it should: one that is to be checked  *)
(* is in the queue, not too late, or on its way there, and no mark to      *)
(* reschedule is left without a wake-up nor the queue without a timer      *)
(* (queueReschedule, handleDueAuth, applyDirty, resetTimer, rebuild).      *)
(* Exempt is a credential whose 401 a result lifted, or which came back    *)
(* before its removal took it off the queue: nobody reschedules these.     *)
OnItsWay(id) ==
  \/ id \in dirty \/ id \in loop.todo \/ loop.id = id \/ id \in Range(jobs)
  \/ \E p \in Procs : proc[p].id = id /\ (p \in Workers \/ proc[p].pc \in {"reschedule", "stored"})

Watched(id) ==
  NextCheck(id, now) # 0 =>
    \/ id \in DOMAIN queue /\ (queue[id] <= NextCheck(id, now) \/ ~auths[id].exec)
    \/ OnItsWay(id)

NothingForgotten ==
  phase = "running" =>
    /\ \A id \in Auths \ orphaned : Watched(id)
    /\ dirty # {} => wake \/ loop.pc \in {"due", "mark", "pending", "reread", "send", "drain"}
                        \/ loop.back = "due"
    /\ loop.pc = "idle" /\ DOMAIN queue # {} => timer # 0

(* The loop does not spin: it does not start a second refresh of a         *)
(* credential at the time of the first, whatever the first came to         *)
(* (markRefreshPending and the backoffs of refreshAuthForRequest), unless  *)
(* in between the credential was replaced, by a login, a file or a copy    *)
(* with other refresh times, or a result lifted a 401 from it.             *)
NoSpin == spun = {}

(* What the comment on StartAutoRefresh says: the loop evaluates every     *)
(* credential and refreshes it when required.                              *)
EveryAuthIsWatched == phase = "running" => \A id \in Auths : Watched(id)

=============================================================================
