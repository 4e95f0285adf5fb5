--------------------------- MODULE ReleaseFlusher ---------------------------
(***************************************************************************)
(* The release flusher of internal/home/concurrency_release.go.  The       *)
(* registry marks a release group dirty with a cumulative sequence and     *)
(* gets a ticket; one Run loop sends the latest sequence of every dirty    *)
(* group to Home, without the mutex, and closes the tickets that Home's    *)
(* answer covers.                                                          *)
(*                                                                         *)
(* Home is external: it keeps the highest sequence it was sent.  A send    *)
(* that fails may have reached it.                                         *)
(***************************************************************************)
EXTENDS Naturals, FiniteSets

CONSTANTS
  Groups,        \* release groups: a credential and a model
  MaxSequence,   \* bound on the sequences that are marked
  Senders,       \* the Home lifetimes that may serve as sender
  MaxRuns,       \* bound on the Home lifetimes, each with a Run of its own
  Flushers       \* callers of Flush

ASSUME FlusherAssumption ==
  /\ MaxSequence \in Nat
  /\ MaxRuns \in Nat
  /\ "none" \notin Senders
  /\ {"none", "run"} \cap Flushers = {}

Sequences == 1 .. MaxSequence
Frames == Groups \X Sequences

VARIABLES
  latest, acked,  \* releaseState.Latest and Acked of each group
  waiters,        \* frames with an open ticket
  closed,         \* frames whose ticket was closed
  sender,         \* f.send
  wake,           \* the channel f.wake holds a token
  force,          \* the Flush call whose context is in the channel f.force
  run,            \* where Run stands: stopped, select, send, ack
  runs,           \* how many times Run was started
  cancelled,      \* the context of Run
  due,            \* the timer has fired
  backingOff,     \* Run's local of this name
  todo,           \* flush: the frames still to send
  current,        \* flush: the frame Home has just acknowledged
  via,            \* flush: whose context it sends with
  failed,         \* flush: a send has failed
  flushing,       \* where each Flush call stands
  applied         \* Home: the sequence it holds for each group

markVars == <<latest, acked, waiters, closed>>
loopVars == <<run, runs, cancelled, due, backingOff>>
sendVars == <<todo, current, via, failed>>
flusherVars == <<markVars, sender, wake, force, loopVars, sendVars, flushing, applied>>

NoFrame == <<"none", 0>>

(* Every variable has its type; a frame carries a sequence that was marked. *)
FlusherTypeOK ==
  /\ latest \in [Groups -> 0 .. MaxSequence]
  /\ acked \in [Groups -> 0 .. MaxSequence]
  /\ waiters \subseteq Frames
  /\ closed \subseteq Frames
  /\ sender \in Senders \cup {"none"}
  /\ wake \in BOOLEAN
  /\ force \in Flushers \cup {"none"}
  /\ run \in {"stopped", "select", "send", "ack"}
  /\ runs \in 0 .. MaxRuns
  /\ cancelled \in BOOLEAN
  /\ due \in BOOLEAN
  /\ backingOff \in BOOLEAN
  /\ todo \subseteq Frames
  /\ current \in Frames \cup {NoFrame}
  /\ via \in Flushers \cup {"run"}
  /\ failed \in BOOLEAN
  /\ flushing \in [Flushers -> {"idle", "poll", "done", "failed"}]
  /\ applied \in [Groups -> 0 .. MaxSequence]

FlusherInit ==
  /\ latest = [g \in Groups |-> 0]
  /\ acked = [g \in Groups |-> 0]
  /\ waiters = {}
  /\ closed = {}
  /\ sender = "none"
  /\ wake = FALSE
  /\ force = "none"
  /\ run = "stopped"
  /\ runs = 0
  /\ cancelled = FALSE
  /\ due = FALSE
  /\ backingOff = FALSE
  /\ todo = {}
  /\ current = NoFrame
  /\ via = "run"
  /\ failed = FALSE
  /\ flushing = [f \in Flushers |-> "idle"]
  /\ applied = [g \in Groups |-> 0]

Larger(a, b) == IF a > b THEN a ELSE b

-----------------------------------------------------------------------------
(* Mutated form of MarkDirty: the acknowledged sequence is not looked at. *)
MarkDirtyUnchecked(g, n) ==
  /\ waiters' = waiters \cup {<<g, n>>}
  /\ latest' = [latest EXCEPT ![g] = Larger(n, @)]
  /\ wake' = TRUE
  /\ UNCHANGED <<acked, closed, sender, force, loopVars, sendVars, flushing, applied>>

(* A sequence that Home has acknowledged gets a closed ticket. *)
MarkDirty(g, n) ==
  /\ \/ /\ n <= acked[g]
        /\ closed' = closed \cup {<<g, n>>}
        /\ UNCHANGED <<latest, waiters>>
     \/ /\ n > acked[g]
        /\ waiters' = waiters \cup {<<g, n>>}
        /\ latest' = [latest EXCEPT ![g] = Larger(n, @)]
        /\ UNCHANGED closed
  /\ wake' = TRUE
  /\ UNCHANGED <<acked, sender, force, loopVars, sendVars, flushing, applied>>

SetSender(s) ==
  /\ sender' = s
  /\ wake' = TRUE
  /\ UNCHANGED <<markVars, force, loopVars, sendVars, flushing, applied>>

-----------------------------------------------------------------------------
(* Run.  The supervisor cancels it and waits for it before it starts the   *)
(* next one, so there is never more than one.  The last lifetime of a run  *)
(* of the model is not cancelled.                                          *)

RunStart ==
  /\ run = "stopped"
  /\ runs < MaxRuns
  /\ run' = "select"
  /\ runs' = runs + 1
  /\ cancelled' = FALSE
  /\ due' = TRUE
  /\ backingOff' = FALSE
  /\ UNCHANGED <<markVars, sender, wake, force, sendVars, flushing, applied>>

RunCancel ==
  /\ run # "stopped"
  /\ runs < MaxRuns
  /\ ~cancelled
  /\ cancelled' = TRUE
  /\ UNCHANGED <<run, runs, due, backingOff>>
  /\ UNCHANGED <<markVars, sender, wake, force, sendVars, flushing, applied>>

RunReturn ==
  /\ run = "select"
  /\ cancelled
  /\ run' = "stopped"
  /\ UNCHANGED <<runs, cancelled, due, backingOff>>
  /\ UNCHANGED <<markVars, sender, wake, force, sendVars, flushing, applied>>

RunWake ==
  /\ run = "select"
  /\ wake
  /\ wake' = FALSE
  /\ due' = (due \/ ~backingOff)
  /\ UNCHANGED <<run, runs, cancelled, backingOff>>
  /\ UNCHANGED <<markVars, sender, force, sendVars, flushing, applied>>

(* Mutated form of RunElapse: no timer is armed after a failed send. *)
RunElapseNever ==
  /\ run = "select"
  /\ ~due
  /\ ~backingOff
  /\ due' = TRUE
  /\ UNCHANGED <<run, runs, cancelled, backingOff>>
  /\ UNCHANGED <<markVars, sender, wake, force, sendVars, flushing, applied>>

RunElapse ==
  /\ run = "select"
  /\ ~due
  /\ due' = TRUE
  /\ UNCHANGED <<run, runs, cancelled, backingOff>>
  /\ UNCHANGED <<markVars, sender, wake, force, sendVars, flushing, applied>>

(* flush takes the sender and the dirty groups in one critical section.    *)
(* Without a sender it returns at once and reports no failure.             *)
FlushSnapshot(ctx) ==
  /\ via' = ctx
  /\ failed' = FALSE
  /\ UNCHANGED <<runs, cancelled, current>>
  /\ \/ /\ sender = "none"
        /\ due' = FALSE
        /\ backingOff' = FALSE
        /\ UNCHANGED <<run, todo>>
     \/ /\ sender # "none"
        /\ run' = "send"
        /\ todo' = {<<g, latest[g]>> : g \in {h \in Groups : latest[h] > acked[h]}}
        /\ UNCHANGED <<due, backingOff>>
  /\ UNCHANGED <<markVars, sender, wake, flushing, applied>>

RunTimer ==
  /\ run = "select"
  /\ due
  /\ FlushSnapshot("run")
  /\ UNCHANGED force

(* The context in the channel may be that of a Flush call that gave up. *)
RunForce ==
  /\ run = "select"
  /\ force # "none"
  /\ FlushSnapshot(force)
  /\ force' = "none"

ContextLive == IF via = "run" THEN ~cancelled ELSE flushing[via] = "poll"

(* PushConcurrencyRelease: Home applies the frame and its answer arrives. *)
SendDelivered(c) ==
  /\ run = "send"
  /\ c \in todo
  /\ ContextLive
  /\ applied' = [applied EXCEPT ![c[1]] = Larger(c[2], @)]
  /\ run' = "ack"
  /\ current' = c
  /\ todo' = todo \ {c}
  /\ UNCHANGED <<runs, cancelled, due, backingOff, via, failed>>
  /\ UNCHANGED <<markVars, sender, wake, force, flushing>>

(* Mutated form of SendFailed: an error counts as an answer. *)
SendFailedAsAnswer(c) ==
  /\ run = "send"
  /\ c \in todo
  /\ run' = "ack"
  /\ current' = c
  /\ todo' = todo \ {c}
  /\ UNCHANGED <<runs, cancelled, due, backingOff, via, failed>>
  /\ UNCHANGED <<markVars, sender, wake, force, flushing, applied>>

(* The frame or the answer is lost. *)
SendFailed(c) ==
  /\ run = "send"
  /\ c \in todo
  /\ \/ applied' = [applied EXCEPT ![c[1]] = Larger(c[2], @)]
     \/ UNCHANGED applied
  /\ failed' = TRUE
  /\ todo' = todo \ {c}
  /\ UNCHANGED <<loopVars, current, via>>
  /\ UNCHANGED <<markVars, sender, wake, force, flushing>>

(* Mutated form of Acknowledge: every ticket of the group is closed. *)
AcknowledgeAll ==
  LET g == current[1]
      covered == {w \in waiters : w[1] = g}
  IN
  /\ run = "ack"
  /\ run' = "send"
  /\ acked' = [acked EXCEPT ![g] = Larger(current[2], @)]
  /\ waiters' = waiters \ covered
  /\ closed' = closed \cup covered
  /\ UNCHANGED <<latest, runs, cancelled, due, backingOff, sendVars>>
  /\ UNCHANGED <<sender, wake, force, flushing, applied>>

Acknowledge ==
  LET g == current[1]
      covered == {w \in waiters : w[1] = g /\ w[2] <= current[2]}
  IN
  /\ run = "ack"
  /\ run' = "send"
  /\ \/ /\ current[2] > acked[g]
        /\ acked' = [acked EXCEPT ![g] = current[2]]
        /\ waiters' = waiters \ covered
        /\ closed' = closed \cup covered
     \/ /\ current[2] <= acked[g]
        /\ UNCHANGED <<acked, waiters, closed>>
  /\ UNCHANGED <<latest, runs, cancelled, due, backingOff, sendVars>>
  /\ UNCHANGED <<sender, wake, force, flushing, applied>>

(* flush returns and nextDelay sets the timer. *)
FlushReturn ==
  /\ run = "send"
  /\ todo = {}
  /\ run' = "select"
  /\ backingOff' = failed
  /\ due' = FALSE
  /\ UNCHANGED <<runs, cancelled, sendVars>>
  /\ UNCHANGED <<markVars, sender, wake, force, flushing, applied>>

-----------------------------------------------------------------------------
(* Flush: hands its context to Run unless another one is there, and polls. *)

FlushCall(f) ==
  /\ flushing[f] = "idle"
  /\ flushing' = [flushing EXCEPT ![f] = "poll"]
  /\ force' = IF force = "none" THEN f ELSE force
  /\ UNCHANGED <<markVars, sender, wake, loopVars, sendVars, applied>>

FlushIdle(f) ==
  /\ flushing[f] = "poll"
  /\ \A g \in Groups : latest[g] <= acked[g]
  /\ flushing' = [flushing EXCEPT ![f] = "done"]
  /\ UNCHANGED <<markVars, sender, wake, force, loopVars, sendVars, applied>>

FlushTimeout(f) ==
  /\ flushing[f] = "poll"
  /\ flushing' = [flushing EXCEPT ![f] = "failed"]
  /\ UNCHANGED <<markVars, sender, wake, force, loopVars, sendVars, applied>>

-----------------------------------------------------------------------------
RunStep ==
  \/ RunStart \/ RunCancel \/ RunReturn \/ RunWake \/ RunElapse \/ RunTimer \/ RunForce
  \/ \E c \in todo : SendDelivered(c) \/ SendFailed(c)
  \/ Acknowledge
  \/ FlushReturn

FlushStep == \E f \in Flushers : FlushCall(f) \/ FlushIdle(f) \/ FlushTimeout(f)

FlusherNext ==
  \/ \E g \in Groups, n \in Sequences : MarkDirty(g, n)
  \/ \E s \in Senders : SetSender(s)
  \/ RunStep
  \/ FlushStep

FlusherSpec == FlusherInit /\ [][FlusherNext]_flusherVars

(* The supervisor starts Run and gives it a sender, Run's loop keeps       *)
(* going, and Home is reachable again and again: of the sends of a group   *)
(* that are repeated without end, one is answered.  A select chooses at    *)
(* random among its ready cases, so a cancelled Run takes ctx.Done in the  *)
(* end.                                                                    *)
FlusherFairness ==
  /\ \A s \in Senders : WF_flusherVars(sender = "none" /\ SetSender(s))
  /\ WF_flusherVars(RunStart)
  /\ SF_flusherVars(RunReturn)
  /\ WF_flusherVars(RunElapse)
  /\ WF_flusherVars(Acknowledge)
  /\ WF_flusherVars(FlushReturn)
  /\ WF_flusherVars(RunTimer)
  /\ WF_flusherVars(\E c \in todo : SendDelivered(c) \/ SendFailed(c))
  /\ \A g \in Groups : SF_flusherVars(\E n \in Sequences : SendDelivered(<<g, n>>))

FlusherFairSpec == FlusherSpec /\ FlusherFairness

-----------------------------------------------------------------------------
(* Properties *)

(* The flusher never takes a release for acknowledged that Home does not   *)
(* hold, and Home never holds one that was not marked.                     *)
AckedIsApplied ==
  \A g \in Groups : acked[g] <= applied[g] /\ applied[g] <= latest[g]

(* A closed ticket means that Home holds the release: whoever waits for it *)
(* before dispatching again finds the slot free.                           *)
ClosedTicketIsApplied == \A c \in closed : c[2] <= applied[c[1]]

(* No ticket is left behind: an open one is above the acknowledged         *)
(* sequence and below the next one to be sent, so an answer will cover it, *)
(* also when it was opened while the answer was on its way.                *)
OpenTicketIsPending == \A w \in waiters : acked[w[1]] < w[2] /\ w[2] <= latest[w[1]]

(* Every ticket is closed, whatever the interplay of wake-ups, backoff,    *)
(* forced flushes with an expired context and restarts of Run.             *)
TicketsClose ==
  \A c \in Frames : c \in waiters ~> c \in closed
=============================================================================
