------------------------- MODULE ExecutionRegistry -------------------------
(***************************************************************************)
(* The execution registry of one Home subscriber lifetime                  *)
(* (sdk/cliproxy/executionregistry).  Every request that Home dispatches   *)
(* reserves a token, turns it into a scope, binds one resource to it and   *)
(* ends it; the supervisor drains or closes the registry, a publisher      *)
(* freezes it.                                                             *)
(*                                                                         *)
(* One step is one critical section of the registry mutex r.mu, or one     *)
(* operation on the atomic r.state.  The state is read and swapped without *)
(* r.mu (Drain, Close), so an operation that tests the state under r.mu    *)
(* and then acts on it takes two steps and holds r.mu between them.        *)
(***************************************************************************)
EXTENDS Naturals, FiniteSets

CONSTANTS
  MaxDispatch,   \* bound on r.next: how many tokens a run hands out
  Groups,        \* release groups: a credential and a model
  Sinks,         \* release sinks the supervisor may install
  Drainers,      \* callers of Drain
  Closers,       \* callers of Close
  Waiters,       \* callers of WaitPending
  MaxBarrier,    \* bound on the observation barrier revisions Home sends
  MaxFreeze      \* bound on the number of snapshots taken

ASSUME ConstantsAssumption ==
  /\ MaxDispatch \in Nat
  /\ MaxBarrier \in Nat
  /\ MaxFreeze \in Nat
  /\ IsFiniteSet(Groups)
  /\ "none" \notin Sinks
  /\ "none" \notin Groups
  /\ Drainers \cap Closers = {}

Dispatches == 1 .. MaxDispatch

VARIABLES
  state,              \* r.state
  mu,                 \* holder of r.mu, when an operation spans two steps
  next,               \* r.next
  pending,            \* keys of r.pending
  scopes,             \* keys of r.scopes
  pc,                 \* where the owner of each token stands
  group,              \* ScopeSpec: the release group, "none" if not accounted
  resource,           \* closeFn and closeDone of each scope
  releaseSequences,   \* r.releaseSequences
  releaseSink,        \* r.releaseSink
  captured,           \* what markReleasedLocked returned to each scope's End
  replay,             \* calls SetReleaseSink has still to make
  received,           \* calls that the sinks have received
  drain,              \* where each Drain call stands
  toClose,            \* the scopes each Drain or Close call has still to visit
  closing,            \* where each Close call stands
  joining,            \* the scope whose resource a Close call waits for
  closeOnce,          \* r.closeStarted and r.closeDone
  waiting,            \* where each WaitPending call stands
  observedBarrier, pendingBarrierSequence, publishedBarrier,
  barrierNext,        \* history: r.next when each barrier was first observed
  snapshots,          \* r.snapshotRevision
  freeze              \* the last snapshot FreezeInFlight returned

registryVars == <<state, mu, next, pending, scopes, pc, group>>
releaseVars == <<releaseSequences, releaseSink, captured, replay, received>>
stopVars == <<drain, toClose, closing, joining, closeOnce, waiting>>
observationVars == <<observedBarrier, pendingBarrierSequence, publishedBarrier,
                     barrierNext, snapshots, freeze>>
vars == <<registryVars, resource, releaseVars, stopVars, observationVars>>

-----------------------------------------------------------------------------
(* The mutex.  Operations of one step need it free; the others name        *)
(* themselves and the token they work on.                                  *)

MuFree == [op |-> "free", id |-> 0]
Holding(op, d) == [op |-> op, id |-> d]

Lifecycle == {"accepting", "draining", "closed"}

OwnerPC == {"idle", "pending", "gone", "installed", "deactivated", "closing",
            "marked", "reported", "ended"}
MuStates == {MuFree, Holding("begin", 0)}
              \cup {Holding(op, d) : op \in {"install", "bind"}, d \in Dispatches}
DrainPC == {"idle", "snapshot", "visit", "check", "wait", "done", "failed"}
ClosePC == {"idle", "swap", "snapshot", "visit", "join", "await", "done"}
WaitPC == {"idle", "check", "wait", "done", "failed"}
Calls == (Sinks \cup {"none"}) \X (Groups \cup {"none"}) \X Nat

RegistryType ==
  /\ state \in Lifecycle
  /\ mu \in MuStates
  /\ next \in 0 .. MaxDispatch
  /\ pending \subseteq Dispatches
  /\ scopes \subseteq Dispatches
  /\ pc \in [Dispatches -> OwnerPC]
  /\ group \in [Dispatches -> Groups \cup {"none"}]

ResourceType == resource \in [Dispatches -> {"none", "bound", "closing", "closed"}]

ReleaseType ==
  /\ releaseSequences \in [Groups -> Nat]
  /\ releaseSink \in Sinks \cup {"none"}
  /\ captured \in [Dispatches -> [sink : Sinks \cup {"none"}, seq : Nat]]
  /\ replay \subseteq Calls
  /\ received \subseteq Calls

StopType ==
  /\ drain \in [Drainers -> DrainPC]
  /\ toClose \in [Drainers \cup Closers -> SUBSET Dispatches]
  /\ closing \in [Closers -> ClosePC]
  /\ joining \in [Closers -> 0 .. MaxDispatch]
  /\ closeOnce \in {"no", "started", "done"}
  /\ waiting \in [Waiters -> WaitPC]

ObservationType ==
  /\ observedBarrier \in 0 .. MaxBarrier
  /\ pendingBarrierSequence \in 0 .. MaxDispatch
  /\ publishedBarrier \in 0 .. MaxBarrier
  /\ barrierNext \in [0 .. MaxBarrier -> 0 .. MaxDispatch]
  /\ snapshots \in 0 .. MaxFreeze
  /\ freeze \in [barrier : 0 .. MaxBarrier, executions : SUBSET Dispatches]

(* Every variable has its type; the tokens in the maps are ones handed out. *)
TypeOK == RegistryType /\ ResourceType /\ ReleaseType /\ StopType /\ ObservationType

Init ==
  /\ state = "accepting"
  /\ mu = MuFree
  /\ next = 0
  /\ pending = {}
  /\ scopes = {}
  /\ pc = [d \in Dispatches |-> "idle"]
  /\ group = [d \in Dispatches |-> "none"]
  /\ resource = [d \in Dispatches |-> "none"]
  /\ releaseSequences = [g \in Groups |-> 0]
  /\ releaseSink = "none"
  /\ captured = [d \in Dispatches |-> [sink |-> "none", seq |-> 0]]
  /\ replay = {}
  /\ received = {}
  /\ drain = [x \in Drainers |-> "idle"]
  /\ toClose = [x \in Drainers \cup Closers |-> {}]
  /\ closing = [x \in Closers |-> "idle"]
  /\ joining = [x \in Closers |-> 0]
  /\ closeOnce = "no"
  /\ waiting = [x \in Waiters |-> "idle"]
  /\ observedBarrier = 0
  /\ pendingBarrierSequence = 0
  /\ publishedBarrier = 0
  /\ barrierNext = [b \in 0 .. MaxBarrier |-> 0]
  /\ snapshots = 0
  /\ freeze = [barrier |-> 0, executions |-> {}]

-----------------------------------------------------------------------------
(* signalLocked closes the channel r.changed.  A waiter takes the channel  *)
(* in the critical section in which it finds its condition false, so every *)
(* waiter of the moment is woken and none that comes later.                *)

Wake(f) == [x \in DOMAIN f |-> IF f[x] = "wait" THEN "check" ELSE f[x]]

SignalLocked ==
  /\ drain' = Wake(drain)
  /\ waiting' = Wake(waiting)
  /\ UNCHANGED <<toClose, closing, joining, closeOnce>>

(* startBoundResourceClose: the first caller takes closeFn and starts the  *)
(* close; a later caller finds closeDone.                                  *)
StartClose(d) ==
  resource' = [resource EXCEPT ![d] = IF @ = "bound" THEN "closing" ELSE @]

(* The close goroutine runs closeFn, logs its error and closes closeDone.  *)
CloseResource(d) ==
  /\ resource[d] = "closing"
  /\ resource' = [resource EXCEPT ![d] = "closed"]
  /\ UNCHANGED <<registryVars, releaseVars, stopVars, observationVars>>

-----------------------------------------------------------------------------
(* The owner of a token: BeginDispatch, End or Install, Bind, EndWithRelease *)

(* Mutated form of BeginDispatch: the state is not tested again under r.mu. *)
BeginDispatchUnchecked ==
  /\ mu = MuFree
  /\ next < MaxDispatch
  /\ mu' = Holding("begin", 0)
  /\ UNCHANGED <<state, next, pending, scopes, pc, group>>
  /\ UNCHANGED <<resource, releaseVars, stopVars, observationVars>>

BeginDispatch ==
  /\ mu = MuFree
  /\ state = "accepting"
  /\ next < MaxDispatch
  /\ mu' = Holding("begin", 0)
  /\ UNCHANGED <<state, next, pending, scopes, pc, group>>
  /\ UNCHANGED <<resource, releaseVars, stopVars, observationVars>>

(* Mutated form of BeginDispatchReserve: the token takes r.next before it   *)
(* is incremented.                                                          *)
BeginDispatchReserveStale ==
  /\ mu = Holding("begin", 0)
  /\ next' = next + 1
  /\ pending' = pending \cup {next}
  /\ pc' = [pc EXCEPT ![next + 1] = "pending"]
  /\ mu' = MuFree
  /\ UNCHANGED <<state, scopes, group>>
  /\ UNCHANGED <<resource, releaseVars, stopVars, observationVars>>

BeginDispatchReserve ==
  /\ mu = Holding("begin", 0)
  /\ next' = next + 1
  /\ pending' = pending \cup {next + 1}
  /\ pc' = [pc EXCEPT ![next + 1] = "pending"]
  /\ mu' = MuFree
  /\ UNCHANGED <<state, scopes, group>>
  /\ UNCHANGED <<resource, releaseVars, stopVars, observationVars>>

(* Mutated form of PendingEnd: the change is not signalled. *)
PendingEndSilent(d) ==
  /\ mu = MuFree
  /\ pc[d] = "pending"
  /\ pending' = pending \ {d}
  /\ pc' = [pc EXCEPT ![d] = "gone"]
  /\ UNCHANGED <<state, mu, next, scopes, group>>
  /\ UNCHANGED <<resource, releaseVars, stopVars, observationVars>>

PendingEnd(d) ==
  /\ mu = MuFree
  /\ pc[d] = "pending"
  /\ pending' = pending \ {d}
  /\ pc' = [pc EXCEPT ![d] = "gone"]
  /\ SignalLocked
  /\ UNCHANGED <<state, mu, next, scopes, group>>
  /\ UNCHANGED <<resource, releaseVars, observationVars>>

InstallRefused(d) ==
  /\ mu = MuFree
  /\ pc[d] = "pending"
  /\ state # "accepting"
  /\ pending' = pending \ {d}
  /\ pc' = [pc EXCEPT ![d] = "gone"]
  /\ SignalLocked
  /\ UNCHANGED <<state, mu, next, scopes, group>>
  /\ UNCHANGED <<resource, releaseVars, observationVars>>

Install(d) ==
  /\ mu = MuFree
  /\ pc[d] = "pending"
  /\ state = "accepting"
  /\ mu' = Holding("install", d)
  /\ UNCHANGED <<state, next, pending, scopes, pc, group>>
  /\ UNCHANGED <<resource, releaseVars, stopVars, observationVars>>

InstallScope(d, g) ==
  /\ mu = Holding("install", d)
  /\ pending' = pending \ {d}
  /\ scopes' = scopes \cup {d}
  /\ pc' = [pc EXCEPT ![d] = "installed"]
  /\ group' = [group EXCEPT ![d] = g]
  /\ SignalLocked
  /\ mu' = MuFree
  /\ UNCHANGED <<state, next>>
  /\ UNCHANGED <<resource, releaseVars, observationVars>>

(* Mutated form of Bind: a registry that has stopped still binds. *)
BindUnchecked(d) ==
  /\ mu = MuFree
  /\ pc[d] = "installed"
  /\ resource[d] = "none"
  /\ mu' = Holding("bind", d)
  /\ UNCHANGED <<state, next, pending, scopes, pc, group>>
  /\ UNCHANGED <<resource, releaseVars, stopVars, observationVars>>

(* A second Bind of a scope returns an error and changes nothing. *)
Bind(d) ==
  /\ mu = MuFree
  /\ pc[d] = "installed"
  /\ resource[d] = "none"
  /\ state = "accepting"
  /\ mu' = Holding("bind", d)
  /\ UNCHANGED <<state, next, pending, scopes, pc, group>>
  /\ UNCHANGED <<resource, releaseVars, stopVars, observationVars>>

BindResource(d) ==
  /\ mu = Holding("bind", d)
  /\ resource' = [resource EXCEPT ![d] = "bound"]
  /\ mu' = MuFree
  /\ UNCHANGED <<state, next, pending, scopes, pc, group>>
  /\ UNCHANGED <<releaseVars, stopVars, observationVars>>

(* Mutated form of EndDeactivate: EndWithRelease is not guarded by a Once. *)
EndDeactivateAgain(d) ==
  /\ mu = MuFree
  /\ pc[d] \in {"installed", "ended"}
  /\ pc' = [pc EXCEPT ![d] = "deactivated"]
  /\ UNCHANGED <<state, mu, next, pending, scopes, group>>
  /\ UNCHANGED <<resource, releaseVars, stopVars, observationVars>>

(* EndWithRelease runs once per scope, in five critical sections. *)
EndDeactivate(d) ==
  /\ mu = MuFree
  /\ pc[d] = "installed"
  /\ pc' = [pc EXCEPT ![d] = "deactivated"]
  /\ UNCHANGED <<state, mu, next, pending, scopes, group>>
  /\ UNCHANGED <<resource, releaseVars, stopVars, observationVars>>

EndCloseResource(d) ==
  /\ pc[d] = "deactivated"
  /\ pc' = [pc EXCEPT ![d] = "closing"]
  /\ StartClose(d)
  /\ UNCHANGED <<state, mu, next, pending, scopes, group>>
  /\ UNCHANGED <<releaseVars, stopVars, observationVars>>

(* markReleasedLocked: only an accounted scope is counted. *)
MarkReleasedLocked(d) ==
  \/ /\ group[d] = "none"
     /\ UNCHANGED <<releaseSequences, captured>>
  \/ /\ group[d] # "none"
     /\ releaseSequences' = [releaseSequences EXCEPT ![group[d]] = @ + 1]
     /\ captured' = [captured EXCEPT ![d] =
          [sink |-> releaseSink, seq |-> releaseSequences[group[d]] + 1]]

(* Mutated form of EndMarkReleased: the close of the resource is started    *)
(* and not awaited.                                                         *)
EndMarkReleasedEarly(d) ==
  /\ mu = MuFree
  /\ pc[d] = "closing"
  /\ pc' = [pc EXCEPT ![d] = "marked"]
  /\ MarkReleasedLocked(d)
  /\ UNCHANGED <<state, mu, next, pending, scopes, group, releaseSink, replay, received>>
  /\ UNCHANGED <<resource, stopVars, observationVars>>

EndMarkReleased(d) ==
  /\ mu = MuFree
  /\ pc[d] = "closing"
  /\ resource[d] # "closing"
  /\ pc' = [pc EXCEPT ![d] = "marked"]
  /\ MarkReleasedLocked(d)
  /\ UNCHANGED <<state, mu, next, pending, scopes, group, releaseSink, replay, received>>
  /\ UNCHANGED <<resource, stopVars, observationVars>>

EndReport(d) ==
  /\ pc[d] = "marked"
  /\ pc' = [pc EXCEPT ![d] = "reported"]
  /\ received' = received \cup
       {c \in {<<captured[d].sink, group[d], captured[d].seq>>} :
          captured[d].sink # "none" /\ captured[d].seq > 0}
  /\ UNCHANGED <<state, mu, next, pending, scopes, group>>
  /\ UNCHANGED <<releaseSequences, releaseSink, captured, replay>>
  /\ UNCHANGED <<resource, stopVars, observationVars>>

EndRemove(d) ==
  /\ mu = MuFree
  /\ pc[d] = "reported"
  /\ pc' = [pc EXCEPT ![d] = "ended"]
  /\ scopes' = scopes \ {d}
  /\ SignalLocked
  /\ UNCHANGED <<state, mu, next, pending, group>>
  /\ UNCHANGED <<resource, releaseVars, observationVars>>

-----------------------------------------------------------------------------
(* The release sink.  The replay happens after r.mu is released. *)

(* Mutated form of SetReleaseSink: the new sink gets no replay. *)
SetReleaseSinkNoReplay(s) ==
  /\ mu = MuFree
  /\ replay = {}
  /\ releaseSink' = s
  /\ UNCHANGED <<releaseSequences, captured, replay, received>>
  /\ UNCHANGED <<registryVars, resource, stopVars, observationVars>>

SetReleaseSink(s) ==
  /\ mu = MuFree
  /\ replay = {}
  /\ releaseSink' = s
  /\ replay' = {<<s, g, releaseSequences[g]>> :
                  g \in {h \in Groups : s # "none" /\ releaseSequences[h] > 0}}
  /\ UNCHANGED <<releaseSequences, captured, received>>
  /\ UNCHANGED <<registryVars, resource, stopVars, observationVars>>

ReplaySequence(g) ==
  \E c \in replay :
    /\ c[2] = g
    /\ replay' = replay \ {c}
    /\ received' = received \cup {c}
    /\ UNCHANGED <<releaseSequences, releaseSink, captured>>
    /\ UNCHANGED <<registryVars, resource, stopVars, observationVars>>

-----------------------------------------------------------------------------
(* Drain *)

DrainStart(x) ==
  /\ drain[x] = "idle"
  /\ state' = IF state = "accepting" THEN "draining" ELSE state
  /\ drain' = [drain EXCEPT ![x] = IF state = "closed" THEN "failed" ELSE "snapshot"]
  /\ UNCHANGED <<mu, next, pending, scopes, pc, group>>
  /\ UNCHANGED <<toClose, closing, joining, closeOnce, waiting>>
  /\ UNCHANGED <<resource, releaseVars, observationVars>>

DrainSnapshot(x) ==
  /\ mu = MuFree
  /\ drain[x] = "snapshot"
  /\ toClose' = [toClose EXCEPT ![x] = scopes]
  /\ drain' = [drain EXCEPT ![x] = "visit"]
  /\ UNCHANGED <<closing, joining, closeOnce, waiting>>
  /\ UNCHANGED <<registryVars, resource, releaseVars, observationVars>>

DrainVisit(x) ==
  /\ drain[x] = "visit"
  /\ \/ \E d \in toClose[x] :
          /\ StartClose(d)
          /\ toClose' = [toClose EXCEPT ![x] = @ \ {d}]
          /\ UNCHANGED drain
     \/ /\ toClose[x] = {}
        /\ drain' = [drain EXCEPT ![x] = "check"]
        /\ UNCHANGED <<resource, toClose>>
  /\ UNCHANGED <<closing, joining, closeOnce, waiting>>
  /\ UNCHANGED <<registryVars, releaseVars, observationVars>>

DrainCheck(x) ==
  /\ mu = MuFree
  /\ drain[x] = "check"
  /\ \/ /\ pending = {} /\ scopes = {}
        /\ state' = "closed"
        /\ drain' = [drain EXCEPT ![x] = "done"]
     \/ /\ pending # {} \/ scopes # {}
        /\ drain' = [drain EXCEPT ![x] = "wait"]
        /\ UNCHANGED state
  /\ UNCHANGED <<mu, next, pending, scopes, pc, group>>
  /\ UNCHANGED <<toClose, closing, joining, closeOnce, waiting>>
  /\ UNCHANGED <<resource, releaseVars, observationVars>>

DrainTimeout(x) ==
  /\ drain[x] = "wait"
  /\ drain' = [drain EXCEPT ![x] = "failed"]
  /\ UNCHANGED <<toClose, closing, joining, closeOnce, waiting>>
  /\ UNCHANGED <<registryVars, resource, releaseVars, observationVars>>

-----------------------------------------------------------------------------
(* Close.  closeOnce stands for closeStarted and closeDone. *)

CloseEnter(x) ==
  /\ closing[x] = "idle"
  /\ \/ /\ closeOnce # "no"
        /\ closing' = [closing EXCEPT ![x] = "await"]
        /\ UNCHANGED closeOnce
     \/ /\ closeOnce = "no" /\ state = "closed"
        /\ closing' = [closing EXCEPT ![x] = "done"]
        /\ UNCHANGED closeOnce
     \/ /\ closeOnce = "no" /\ state # "closed"
        /\ closing' = [closing EXCEPT ![x] = "swap"]
        /\ closeOnce' = "started"
  /\ UNCHANGED <<drain, toClose, joining, waiting>>
  /\ UNCHANGED <<registryVars, resource, releaseVars, observationVars>>

CloseSwap(x) ==
  /\ closing[x] = "swap"
  /\ state' = "closed"
  /\ closing' = [closing EXCEPT ![x] = "snapshot"]
  /\ UNCHANGED <<mu, next, pending, scopes, pc, group>>
  /\ UNCHANGED <<drain, toClose, joining, closeOnce, waiting>>
  /\ UNCHANGED <<resource, releaseVars, observationVars>>

CloseSnapshot(x) ==
  /\ mu = MuFree
  /\ closing[x] = "snapshot"
  /\ toClose' = [toClose EXCEPT ![x] = scopes]
  /\ closing' = [closing EXCEPT ![x] = "visit"]
  /\ UNCHANGED <<drain, joining, closeOnce, waiting>>
  /\ UNCHANGED <<registryVars, resource, releaseVars, observationVars>>

(* waitForBoundResourceClose: the close of one scope's resource is started *)
(* and awaited before the next scope is visited.                           *)
CloseVisit(x) ==
  /\ closing[x] = "visit"
  /\ \E d \in toClose[x] :
       /\ StartClose(d)
       /\ toClose' = [toClose EXCEPT ![x] = @ \ {d}]
       /\ joining' = [joining EXCEPT ![x] = d]
  /\ closing' = [closing EXCEPT ![x] = "join"]
  /\ UNCHANGED <<drain, closeOnce, waiting>>
  /\ UNCHANGED <<registryVars, releaseVars, observationVars>>

CloseJoin(x) ==
  /\ closing[x] = "join"
  /\ resource[joining[x]] # "closing"
  /\ closing' = [closing EXCEPT ![x] = "visit"]
  /\ UNCHANGED <<drain, toClose, joining, closeOnce, waiting>>
  /\ UNCHANGED <<registryVars, resource, releaseVars, observationVars>>

(* Mutated form of CloseFinish: closeDone is never closed. *)
CloseFinishSilent(x) ==
  /\ closing[x] = "visit"
  /\ toClose[x] = {}
  /\ closing' = [closing EXCEPT ![x] = "done"]
  /\ UNCHANGED <<drain, toClose, joining, closeOnce, waiting>>
  /\ UNCHANGED <<registryVars, resource, releaseVars, observationVars>>

CloseFinish(x) ==
  /\ closing[x] = "visit"
  /\ toClose[x] = {}
  /\ closing' = [closing EXCEPT ![x] = "done"]
  /\ closeOnce' = "done"
  /\ UNCHANGED <<drain, toClose, joining, waiting>>
  /\ UNCHANGED <<registryVars, resource, releaseVars, observationVars>>

CloseAwait(x) ==
  /\ closing[x] = "await"
  /\ closeOnce = "done"
  /\ closing' = [closing EXCEPT ![x] = "done"]
  /\ UNCHANGED <<drain, toClose, joining, closeOnce, waiting>>
  /\ UNCHANGED <<registryVars, resource, releaseVars, observationVars>>

-----------------------------------------------------------------------------
(* WaitPending *)

WaitPendingStart(x) ==
  /\ waiting[x] = "idle"
  /\ waiting' = [waiting EXCEPT ![x] = "check"]
  /\ UNCHANGED <<drain, toClose, joining, closing, closeOnce>>
  /\ UNCHANGED <<registryVars, resource, releaseVars, observationVars>>

WaitPendingCheck(x) ==
  /\ mu = MuFree
  /\ waiting[x] = "check"
  /\ waiting' = [waiting EXCEPT ![x] = IF pending = {} THEN "done" ELSE "wait"]
  /\ UNCHANGED <<drain, toClose, joining, closing, closeOnce>>
  /\ UNCHANGED <<registryVars, resource, releaseVars, observationVars>>

WaitPendingTimeout(x) ==
  /\ waiting[x] = "wait"
  /\ waiting' = [waiting EXCEPT ![x] = "failed"]
  /\ UNCHANGED <<drain, toClose, joining, closing, closeOnce>>
  /\ UNCHANGED <<registryVars, resource, releaseVars, observationVars>>

-----------------------------------------------------------------------------
(* Observation *)

ObserveBarrier(revision) ==
  /\ mu = MuFree
  /\ revision > observedBarrier
  /\ observedBarrier' = revision
  /\ pendingBarrierSequence' = next
  /\ barrierNext' = [barrierNext EXCEPT ![revision] = next]
  /\ UNCHANGED <<publishedBarrier, snapshots, freeze>>
  /\ UNCHANGED <<registryVars, resource, releaseVars, stopVars>>

(* Mutated form of FreezeBarrier: the last token before the barrier is      *)
(* taken for one after it.                                                  *)
FreezeBarrierOffByOne ==
  IF /\ observedBarrier > publishedBarrier
     /\ \A d \in pending : d >= pendingBarrierSequence
  THEN observedBarrier
  ELSE publishedBarrier

(* The barrier FreezeInFlight publishes: the observed one, unless a token  *)
(* handed out before it was observed is still unresolved.                  *)
FreezeBarrier ==
  IF /\ observedBarrier > publishedBarrier
     /\ \A d \in pending : d > pendingBarrierSequence
  THEN observedBarrier
  ELSE publishedBarrier

FreezeInFlight(revision) ==
  /\ mu = MuFree
  /\ revision = snapshots + 1
  /\ publishedBarrier' = FreezeBarrier
  /\ snapshots' = revision
  /\ freeze' = [barrier |-> FreezeBarrier, executions |-> scopes]
  /\ UNCHANGED <<observedBarrier, pendingBarrierSequence, barrierNext>>
  /\ UNCHANGED <<registryVars, resource, releaseVars, stopVars>>

-----------------------------------------------------------------------------
Begin == BeginDispatch \/ BeginDispatchReserve

Resolve(d) ==
  \/ PendingEnd(d)
  \/ InstallRefused(d)
  \/ Install(d)
  \/ \E g \in Groups \cup {"none"} : InstallScope(d, g)

Binding(d) == Bind(d) \/ BindResource(d)

End(d) ==
  \/ EndDeactivate(d)
  \/ EndCloseResource(d)
  \/ EndMarkReleased(d)
  \/ EndReport(d)
  \/ EndRemove(d)

Drain(x) ==
  \/ DrainStart(x)
  \/ DrainSnapshot(x)
  \/ DrainVisit(x)
  \/ DrainCheck(x)

Close(x) ==
  \/ CloseEnter(x)
  \/ CloseSwap(x)
  \/ CloseSnapshot(x)
  \/ CloseVisit(x)
  \/ CloseJoin(x)
  \/ CloseFinish(x)
  \/ CloseAwait(x)

WaitPending(x) == WaitPendingStart(x) \/ WaitPendingCheck(x)

Next ==
  \/ Begin
  \/ \E d \in Dispatches : Resolve(d) \/ Binding(d) \/ End(d) \/ CloseResource(d)
  \/ \E s \in Sinks \cup {"none"} : SetReleaseSink(s)
  \/ \E g \in Groups : ReplaySequence(g)
  \/ \E x \in Drainers : Drain(x) \/ DrainTimeout(x)
  \/ \E x \in Closers : Close(x)
  \/ \E x \in Waiters : WaitPending(x) \/ WaitPendingTimeout(x)
  \/ \E b \in 1 .. MaxBarrier : ObserveBarrier(b)
  \/ \E revision \in 1 .. MaxFreeze : FreezeInFlight(revision)

Spec == Init /\ [][Next]_vars

(* The steps that need nobody's decision: the goroutine that holds a token *)
(* resolves it and ends the scope it installed, closeFn returns, and a     *)
(* call that can go on does.  Timeouts, Bind and new requests and calls    *)
(* are not among them.                                                     *)
Progress ==
  \/ BeginDispatchReserve
  \/ \E d \in Dispatches : Resolve(d) \/ BindResource(d) \/ End(d) \/ CloseResource(d)
  \/ \E g \in Groups : ReplaySequence(g)
  \/ \E x \in Drainers : DrainSnapshot(x) \/ DrainVisit(x) \/ DrainCheck(x)
  \/ \E x \in Closers : Close(x) /\ closing[x] # "idle"
  \/ \E x \in Waiters : WaitPendingCheck(x)

(* Something goes on as long as something can.  Nobody can go on forever,  *)
(* so that in the end everybody has gone on as far as possible.            *)
Fairness == WF_vars(Progress)

FairSpec == Spec /\ Fairness

-----------------------------------------------------------------------------
(* Properties *)

Released == {"marked", "reported", "ended"}

(* Drain returns nil only over an empty registry, and the registry stays   *)
(* empty: a request that passed the state test before Drain swapped the    *)
(* state cannot slip a token or a scope in behind it.                      *)
DrainedRegistryIsEmpty ==
  (\E x \in Drainers : drain[x] = "done")
    => state = "closed" /\ pending = {} /\ scopes = {}

(* When Close returns, every resource that was ever bound is closed and no *)
(* Bind succeeds any more, whatever request was binding while it swapped   *)
(* the state.                                                              *)
CloseLeavesNoOpenResource ==
  (\E x \in Closers : closing[x] = "done")
    => \A d \in Dispatches : resource[d] \in {"none", "closed"}

(* A scope is counted as released to Home only when its resource can no    *)
(* longer use the credential, whoever closed it: its own End, Drain or     *)
(* Close.                                                                  *)
ReleasedResourceIsClosed ==
  \A d \in Dispatches : pc[d] \in Released => resource[d] \in {"none", "closed"}

(* The cumulative sequence of a group counts each accounted scope that     *)
(* ended exactly once.                                                     *)
ReleaseSequenceCounts ==
  \A g \in Groups :
    releaseSequences[g] =
      Cardinality({d \in Dispatches : group[d] = g /\ pc[d] \in Released})

(* No release is lost when the sink is replaced while scopes end: the      *)
(* highest sequence of every group reaches the sink now installed, by the  *)
(* End that counted it or by the replay.                                   *)
InFlightReports ==
  {<<captured[d].sink, group[d], captured[d].seq>> :
     d \in {e \in Dispatches : pc[e] = "marked"}}

NoReleaseIsLost ==
  \A g \in Groups :
    releaseSink # "none" /\ releaseSequences[g] > 0
      => <<releaseSink, g, releaseSequences[g]>>
           \in received \cup replay \cup InFlightReports

(* A snapshot that carries a barrier accounts for every dispatch begun     *)
(* before the barrier was observed: it lists the execution, or the         *)
(* execution is over for good.                                             *)
BarrierSnapshotIsComplete ==
  \A d \in 1 .. barrierNext[freeze.barrier] :
    d \in freeze.executions \/ pc[d] \in {"gone", "ended"}

(* A Drain call that is not timed out returns once the requests in flight  *)
(* are over: no change of the registry goes unsignalled.                   *)
DrainReturns ==
  \A x \in Drainers : drain[x] = "snapshot" ~> drain[x] \in {"done", "failed"}

(* WaitPending returns once no new dispatch is admitted. *)
WaitPendingReturns ==
  \A x \in Waiters :
    waiting[x] = "wait" /\ state # "accepting" ~> waiting[x] \in {"done", "failed"}

(* Close returns, the call that does the work and the ones that wait for   *)
(* it.                                                                     *)
CloseReturns ==
  \A x \in Closers : closing[x] # "idle" ~> closing[x] = "done"
=============================================================================
