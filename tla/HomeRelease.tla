----------------------------- MODULE HomeRelease -----------------------------
(***************************************************************************)
(* Dispatch, execution and release of Home's credentials from end to end:  *)
(* the execution registry, the release flusher that is its sink, and the   *)
(* admission control of Home.                                              *)
(*                                                                         *)
(* Home is external.  It admits a dispatch of a group while fewer than     *)
(* Limit are outstanding: admitted to this node and not yet covered by the *)
(* release sequence it holds for the group.                                *)
(*                                                                         *)
(* The code is pickHomeDispatchSelection in sdk/cliproxy/auth and the end  *)
(* of runHomeSubscriber in sdk/cliproxy, over the two components.          *)
(***************************************************************************)
EXTENDS ExecutionRegistry

CONSTANTS
  Limit,         \* Home's concurrency limit of a group
  MaxSequence, Senders, MaxRuns, Flushers

VARIABLES
  latest, acked, waiters, closed, sender, wake, force, run, runs, cancelled, due,
  backingOff, todo, current, via, failed, flushing, applied,
  admitted,      \* Home: the dispatches admitted to this node, per group
  grant,         \* the group of the tuple in Home's answer, "none" without one
  ambiguous,     \* the client was fenced by AbortAmbiguousDispatch
  unread,        \* history: Home counted the dispatch, its answer was unreadable
  stopping       \* runHomeSubscriber at its end: run, drain, flush, done

F == INSTANCE ReleaseFlusher

flusherVars == <<latest, acked, waiters, closed, sender, wake, force, run, runs, cancelled,
                 due, backingOff, todo, current, via, failed, flushing, applied>>
(* The flusher's bound on sequences lets every dispatch be released. *)
ASSUME HomeAssumption ==
  /\ Limit \in Nat
  /\ MaxRuns \in Nat
  /\ MaxSequence \in Nat
  /\ MaxDispatch <= MaxSequence
  /\ "none" \notin Senders
  /\ {"none", "run"} \cap Flushers = {}

homeVars == <<admitted, grant, ambiguous, unread, stopping>>
allVars == <<vars, flusherVars, homeVars>>

Outstanding(g) == admitted[g] - applied[g]

HomeInit ==
  /\ Init
  /\ F!FlusherInit
  /\ admitted = [g \in Groups |-> 0]
  /\ grant = [d \in Dispatches |-> "none"]
  /\ ambiguous = FALSE
  /\ unread = {}
  /\ stopping = "run"

-----------------------------------------------------------------------------
(* The request: BeginDispatch, RPopAuth, Install or End. *)

DispatchBegin ==
  /\ releaseSink # "none"
  /\ Begin
  /\ UNCHANGED <<flusherVars, homeVars>>

(* RPopAuth: Home answers with a credential and a concurrency tuple, and   *)
(* counts the dispatch.  A fenced client reaches Home no more.  Home does  *)
(* not count a dispatch that it answers without a tuple.                   *)
HomeAdmits(d, g) ==
  /\ ~ambiguous
  /\ pc[d] = "pending"
  /\ mu # Holding("install", d)
  /\ grant[d] = "none"
  /\ Outstanding(g) < Limit
  /\ grant' = [grant EXCEPT ![d] = g]
  /\ admitted' = [admitted EXCEPT ![g] = @ + 1]
  /\ UNCHANGED <<vars, flusherVars, ambiguous, unread, stopping>>

(* The answer carries a tuple and Install accepts it. *)
DispatchInstall(d) ==
  /\ \/ Install(d)
     \/ InstallScope(d, grant[d])
  /\ UNCHANGED <<flusherVars, homeVars>>

(* Mutated form of DispatchDropped: the client is not fenced. *)
DispatchDroppedUnfenced(d) ==
  /\ PendingEnd(d) \/ InstallRefused(d)
  /\ UNCHANGED <<flusherVars, admitted, grant, ambiguous, unread, stopping>>

(* The answer is an error, was lost or has a malformed tuple, or Install   *)
(* refuses it.  If Home may have counted the dispatch, the client is       *)
(* fenced.                                                                 *)
DispatchDropped(d) ==
  /\ PendingEnd(d) \/ InstallRefused(d)
  /\ ambiguous' = (ambiguous \/ grant[d] # "none")
  /\ UNCHANGED <<flusherVars, admitted, grant, unread, stopping>>

(* The answer is not UTF-8 or not an object: no tuple is present in it, so *)
(* the client is not fenced, although Home has counted the dispatch.       *)
DispatchUnread(d) ==
  /\ grant[d] # "none"
  /\ PendingEnd(d)
  /\ unread' = unread \cup {d}
  /\ UNCHANGED <<flusherVars, admitted, grant, ambiguous, stopping>>

(* The selection binds its resources, or the dispatch ends unbound.  The   *)
(* sink is called in EndReport.                                            *)
DispatchRun(d) ==
  \/ /\ \/ Binding(d) \/ CloseResource(d)
        \/ EndDeactivate(d) \/ EndCloseResource(d) \/ EndMarkReleased(d) \/ EndRemove(d)
     /\ UNCHANGED <<flusherVars, homeVars>>
  \/ /\ EndReport(d)
     /\ \/ /\ captured[d].sink # "none"
           /\ F!MarkDirty(group[d], captured[d].seq)
        \/ /\ captured[d].sink = "none"
           /\ UNCHANGED flusherVars
     /\ UNCHANGED homeVars

-----------------------------------------------------------------------------
(* The supervisor: it installs the flusher as the sink, and when its       *)
(* context is cancelled it drains the registry and then flushes.           *)

(* The first thing the supervisor does: no request has the registry yet. *)
SinkInstall ==
  /\ releaseSink = "none"
  /\ \E s \in Sinks : SetReleaseSink(s)
  /\ UNCHANGED <<flusherVars, homeVars>>

StopDrain(x) ==
  /\ releaseSink # "none"
  /\ stopping \in {"run", "drain"}
  /\ Drain(x) \/ DrainTimeout(x)
  /\ stopping' = "drain"
  /\ UNCHANGED <<flusherVars, admitted, grant, ambiguous, unread>>

(* Flush runs only after a Drain that returned nil. *)
StopFlush(f) ==
  /\ stopping = "drain"
  /\ \E x \in Drainers : drain[x] = "done"
  /\ F!FlushCall(f)
  /\ stopping' = "flush"
  /\ UNCHANGED <<vars, admitted, grant, ambiguous, unread>>

StopFlushed(f) ==
  /\ stopping = "flush"
  /\ \/ F!FlushIdle(f) /\ stopping' = "done"
     \/ F!FlushTimeout(f) /\ stopping' = "failed"
  /\ UNCHANGED <<vars, admitted, grant, ambiguous, unread>>

FlusherRuns ==
  /\ \/ \E s \in Senders : sender = "none" /\ F!SetSender(s)
     \/ F!RunStep
  /\ UNCHANGED <<vars, homeVars>>

HomeNext ==
  \/ DispatchBegin
  \/ \E d \in Dispatches :
       \/ \E g \in Groups : HomeAdmits(d, g)
       \/ DispatchInstall(d)
       \/ DispatchDropped(d) \/ DispatchUnread(d)
       \/ DispatchRun(d)
  \/ SinkInstall
  \/ \E x \in Drainers : StopDrain(x)
  \/ \E f \in Flushers : StopFlush(f) \/ StopFlushed(f)
  \/ FlusherRuns

HomeSpec == HomeInit /\ [][HomeNext]_allVars

-----------------------------------------------------------------------------
(* Properties *)

Using(g) == {d \in Dispatches : group[d] = g /\ resource[d] \in {"bound", "closing"}}

(* The credential of a group is never used by more requests at once than   *)
(* Home's limit allows: a release reaches Home only after the use is over, *)
(* although Home hears of it from a goroutine of its own, in any order and *)
(* more than once.                                                         *)
LimitIsRespected == \A g \in Groups : Cardinality(Using(g)) <= Limit

(* Home is never told of more releases of a group than it admitted         *)
(* dispatches: a frame that is repeated, reordered or sent again by the     *)
(* next lifetime of the flusher frees no slot twice.                        *)
NoSlotFreedTwice == \A g \in Groups : applied[g] <= admitted[g]

(* A supervisor that drained and flushed leaves at Home only the slots of  *)
(* the answers that could not be read (which the code neither releases nor *)
(* fences): every other dispatch Home admitted is released, unless the     *)
(* client was fenced because an answer was lost or refused.                *)
StopSettlesHome ==
  stopping = "done" /\ ~ambiguous =>
    \A g \in Groups : Outstanding(g) = Cardinality({d \in unread : grant[d] = g})
=============================================================================
