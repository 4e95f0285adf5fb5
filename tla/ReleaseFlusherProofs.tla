----------------------- MODULE ReleaseFlusherProofs -----------------------
(***************************************************************************)
(* The safety properties of ReleaseFlusher, proved for any number of       *)
(* groups, sequences, senders, lifetimes of Run and callers of Flush.      *)
(*                                                                         *)
(* The three properties need each other and two facts about the frames     *)
(* that flush holds while it works without the mutex (Sending): what is    *)
(* still to be sent was marked, and what was answered is held by Home.     *)
(***************************************************************************)
EXTENDS ReleaseFlusher, TLAPS

(* A frame that waits to be sent is not above the latest mark of its       *)
(* group, and the one whose answer has come is held by Home.               *)
Sending ==
  /\ \A c \in todo : c[2] <= latest[c[1]]
  /\ run = "ack" => current \in Frames /\ current[2] <= applied[current[1]]

FlusherInv ==
  /\ FlusherTypeOK
  /\ AckedIsApplied
  /\ ClosedTicketIsApplied
  /\ OpenTicketIsPending
  /\ Sending

(* The initial state satisfies the inductive invariant.                    *)
LEMMA FlusherInitInv ==
  ASSUME FlusherInit
  PROVE  FlusherInv
<1> USE FlusherAssumption DEF FlusherInit
<1>1. /\ latest \in [Groups -> 0 .. MaxSequence]
      /\ acked \in [Groups -> 0 .. MaxSequence]
      /\ applied \in [Groups -> 0 .. MaxSequence]
      /\ runs \in 0 .. MaxRuns
  OBVIOUS
<1>2. flushing \in [Flushers -> {"idle", "poll", "done", "failed"}]
  OBVIOUS
<1>3. FlusherTypeOK
  BY <1>1, <1>2 DEF FlusherTypeOK
<1>4. AckedIsApplied /\ ClosedTicketIsApplied /\ OpenTicketIsPending /\ Sending
  BY DEF AckedIsApplied, ClosedTicketIsApplied, OpenTicketIsPending, Sending
<1> QED
  BY <1>3, <1>4 DEF FlusherInv

(* MarkDirty keeps the invariant: it opens a ticket above what is          *)
(* acknowledged or closes it at once.                                      *)
LEMMA MarkDirtyInv ==
  ASSUME FlusherInv, NEW g \in Groups, NEW n \in Sequences, MarkDirty(g, n)
  PROVE  FlusherInv'
<1> USE FlusherAssumption DEF FlusherInv, MarkDirty, Frames, Sequences
<1>1. latest' \in [Groups -> 0 .. MaxSequence] /\ \A h \in Groups : latest[h] <= latest'[h]
  BY DEF FlusherTypeOK, Larger
<1>2. n > acked[g] => n <= latest'[g]
  BY DEF FlusherTypeOK, Larger
<1>3. waiters' \subseteq Frames /\ closed' \subseteq Frames
  BY DEF FlusherTypeOK
<1>4. FlusherTypeOK'
  BY <1>1, <1>3 DEF FlusherTypeOK, loopVars, sendVars
<1>5. AckedIsApplied'
  BY <1>1 DEF FlusherTypeOK, AckedIsApplied
<1>6. ClosedTicketIsApplied'
  BY DEF FlusherTypeOK, AckedIsApplied, ClosedTicketIsApplied
<1>7. OpenTicketIsPending'
  BY <1>1, <1>2 DEF FlusherTypeOK, OpenTicketIsPending
<1>8. Sending'
  BY <1>1 DEF FlusherTypeOK, Sending, loopVars, sendVars
<1> QED
  BY <1>4, <1>5, <1>6, <1>7, <1>8

(* flush takes over the dirty groups with their latest marks.              *)
LEMMA FlushSnapshotInv ==
  ASSUME FlusherInv, NEW ctx \in Flushers \cup {"run"}, run = "select", FlushSnapshot(ctx),
         force' \in Flushers \cup {"none"}
  PROVE  FlusherInv'
<1> USE FlusherAssumption DEF FlusherInv, FlushSnapshot, Frames, Sequences
<1>1. \A c \in todo' : c \in Frames /\ c[2] <= latest[c[1]]
  BY DEF FlusherTypeOK, Sending
<1>2. FlusherTypeOK'
  BY <1>1 DEF FlusherTypeOK, markVars
<1>3. Sending'
  BY <1>1 DEF Sending, markVars
<1>4. AckedIsApplied' /\ ClosedTicketIsApplied' /\ OpenTicketIsPending'
  BY DEF AckedIsApplied, ClosedTicketIsApplied, OpenTicketIsPending, markVars
<1> QED
  BY <1>2, <1>3, <1>4

(* A frame reaches Home: what Home holds of the group grows, and not past  *)
(* what was marked.                                                        *)
LEMMA AppliedGrows ==
  ASSUME FlusherInv, NEW c \in todo,
         applied' = [applied EXCEPT ![c[1]] = Larger(c[2], @)]
  PROVE  /\ applied' \in [Groups -> 0 .. MaxSequence]
         /\ \A g \in Groups : applied[g] <= applied'[g] /\ applied'[g] <= latest[g]
         /\ c \in Frames /\ c[2] <= applied'[c[1]]
<1>1. c[1] \in Groups /\ c[2] \in 1 .. MaxSequence /\ c \in Frames /\ c[2] <= latest[c[1]]
  BY DEF FlusherInv, FlusherTypeOK, Frames, Sequences, Sending
<1> QED
  BY <1>1, FlusherAssumption DEF FlusherInv, FlusherTypeOK, AckedIsApplied, Larger

(* A send, answered or not, keeps the invariant.                           *)
LEMMA SendInv ==
  ASSUME FlusherInv, NEW c \in todo, SendDelivered(c) \/ SendFailed(c)
  PROVE  FlusherInv'
<1> USE FlusherAssumption DEF FlusherInv, SendDelivered, SendFailed, loopVars, markVars
<1>1. /\ applied' \in [Groups -> 0 .. MaxSequence]
      /\ \A g \in Groups : applied[g] <= applied'[g] /\ applied'[g] <= latest[g]
      /\ c \in Frames
      /\ SendDelivered(c) => c[2] <= applied'[c[1]]
  <2>1. CASE applied' = applied
    BY <2>1, AppliedGrows DEF FlusherTypeOK, AckedIsApplied
  <2>2. CASE applied' = [applied EXCEPT ![c[1]] = Larger(c[2], @)]
    BY <2>2, AppliedGrows
  <2> QED
    BY <2>1, <2>2
<1>2. FlusherTypeOK'
  BY <1>1 DEF FlusherTypeOK
<1>3. AckedIsApplied'
  BY <1>1 DEF FlusherTypeOK, AckedIsApplied
<1>4. ClosedTicketIsApplied'
  BY <1>1 DEF FlusherTypeOK, ClosedTicketIsApplied, Frames, Sequences
<1>5. OpenTicketIsPending'
  BY DEF OpenTicketIsPending
<1>6. Sending'
  BY <1>1 DEF FlusherTypeOK, Sending
<1> QED
  BY <1>2, <1>3, <1>4, <1>5, <1>6

(* The answer closes exactly the tickets it covers.                        *)
LEMMA AcknowledgeInv ==
  ASSUME FlusherInv, Acknowledge
  PROVE  FlusherInv'
<1> USE FlusherAssumption DEF FlusherInv, Acknowledge, sendVars
<1>1. /\ current[1] \in Groups /\ current[2] \in 1 .. MaxSequence
      /\ current[2] <= applied[current[1]]
  BY DEF Sending, Frames, Sequences
<1>2. FlusherTypeOK'
  BY <1>1 DEF FlusherTypeOK
<1>3. AckedIsApplied'
  BY <1>1 DEF FlusherTypeOK, AckedIsApplied
<1>4. ClosedTicketIsApplied'
  BY <1>1 DEF FlusherTypeOK, ClosedTicketIsApplied, Frames, Sequences
<1>5. OpenTicketIsPending'
  BY <1>1 DEF FlusherTypeOK, OpenTicketIsPending, Frames, Sequences
<1>6. Sending'
  BY DEF Sending
<1> QED
  BY <1>2, <1>3, <1>4, <1>5, <1>6

(* The other steps leave the marks, the tickets and Home alone.            *)
LEMMA OtherStepInv ==
  ASSUME FlusherInv,
         \/ \E s \in Senders : SetSender(s)
         \/ RunStart \/ RunCancel \/ RunReturn \/ RunWake \/ RunElapse \/ FlushReturn
         \/ FlushStep
         \/ UNCHANGED flusherVars
  PROVE  FlusherInv'
<1> USE FlusherAssumption
    DEF FlusherInv, SetSender, RunStart, RunCancel, RunReturn, RunWake, RunElapse, FlushReturn,
        FlushStep, FlushCall, FlushIdle, FlushTimeout, markVars, loopVars, sendVars, flusherVars
<1>1. FlusherTypeOK'
  <2>1. CASE \E s \in Senders : SetSender(s)
    BY <2>1 DEF FlusherTypeOK
  <2>2. CASE RunStart
    <3>1. runs' \in 0 .. MaxRuns
      BY <2>2 DEF FlusherTypeOK
    <3> QED
      BY <2>2, <3>1 DEF FlusherTypeOK
  <2>6. CASE RunCancel \/ RunReturn
    BY <2>6 DEF FlusherTypeOK
  <2>7. CASE RunElapse
    BY <2>7 DEF FlusherTypeOK
  <2>8. CASE FlushReturn
    BY <2>8 DEF FlusherTypeOK
  <2>3. CASE RunWake
    BY <2>3 DEF FlusherTypeOK
  <2>4. CASE FlushStep
    BY <2>4 DEF FlusherTypeOK
  <2>5. CASE UNCHANGED flusherVars
    BY <2>5 DEF FlusherTypeOK
  <2> QED
    BY <2>1, <2>2, <2>3, <2>4, <2>5, <2>6, <2>7, <2>8
<1>2. AckedIsApplied' /\ ClosedTicketIsApplied' /\ OpenTicketIsPending'
  BY DEF AckedIsApplied, ClosedTicketIsApplied, OpenTicketIsPending
<1>3. Sending'
  BY DEF Sending
<1> QED
  BY <1>1, <1>2, <1>3

(* A step of Run keeps the invariant.                                      *)
LEMMA RunStepInv ==
  ASSUME FlusherInv, RunStep
  PROVE  FlusherInv'
<1>1. CASE RunTimer
  BY <1>1, FlushSnapshotInv DEF RunTimer, FlusherInv, FlusherTypeOK
<1>2. CASE RunForce
  BY <1>2, FlushSnapshotInv DEF RunForce, FlusherInv, FlusherTypeOK
<1> QED
  BY <1>1, <1>2, SendInv, AcknowledgeInv, OtherStepInv DEF RunStep

(* Every step of the flusher keeps the inductive invariant.                *)
LEMMA FlusherStepInv ==
  ASSUME FlusherInv, [FlusherNext]_flusherVars
  PROVE  FlusherInv'
  BY MarkDirtyInv, RunStepInv, OtherStepInv DEF FlusherNext

(* FlusherInv is an invariant of the flusher.                              *)
LEMMA FlusherInvariance == FlusherSpec => []FlusherInv
  BY FlusherInitInv, FlusherStepInv, PTL DEF FlusherSpec

(* What a mark does to the flusher as its callers see it: the group's      *)
(* latest mark covers the sequence, and nothing was sent.                  *)
LEMMA MarkDirtyEffect ==
  ASSUME FlusherInv, NEW g \in Groups, NEW n \in Sequences, MarkDirty(g, n)
  PROVE  /\ n <= latest'[g] /\ latest'[g] \in {n, latest[g]}
         /\ \A h \in Groups : latest[h] <= latest'[h]
         /\ \A h \in Groups \ {g} : latest'[h] = latest[h]
         /\ UNCHANGED <<acked, applied>>
  BY FlusherAssumption
  DEF FlusherInv, FlusherTypeOK, AckedIsApplied, MarkDirty, Larger, Sequences

(* Run marks nothing, and what it has sent and heard of only grows.        *)
LEMMA RunEffect ==
  ASSUME FlusherInv, RunStep
  PROVE  /\ latest' = latest
         /\ \A g \in Groups : acked[g] <= acked'[g] /\ applied[g] <= applied'[g]
<1> USE FlusherAssumption DEF FlusherInv, FlusherTypeOK
<1>1. ASSUME NEW c \in todo, SendDelivered(c) \/ SendFailed(c)
      PROVE  /\ latest' = latest /\ acked' = acked
             /\ \A g \in Groups : applied[g] <= applied'[g]
  <2>1. CASE applied' = applied
    BY <1>1, <2>1 DEF SendDelivered, SendFailed, markVars
  <2>2. CASE applied' = [applied EXCEPT ![c[1]] = Larger(c[2], @)]
    BY <1>1, <2>2, AppliedGrows DEF SendDelivered, SendFailed, markVars
  <2> QED
    BY <1>1, <2>1, <2>2 DEF SendDelivered, SendFailed
<1>2. CASE Acknowledge
  BY <1>2 DEF Acknowledge, Sending, Frames, Sequences
<1>3. CASE RunStart \/ RunCancel \/ RunReturn \/ RunWake \/ RunElapse \/ RunTimer
           \/ RunForce \/ FlushReturn
  BY <1>3 DEF RunStart, RunCancel, RunReturn, RunWake, RunElapse, RunTimer, RunForce,
              FlushSnapshot, FlushReturn, markVars
<1> QED
  BY <1>1, <1>2, <1>3 DEF RunStep

-----------------------------------------------------------------------------
(* Every variable keeps its type, and no frame carries a sequence that was *)
(* not marked.                                                             *)
THEOREM FlusherTypeCorrect == FlusherSpec => []FlusherTypeOK
  BY FlusherInvariance, PTL DEF FlusherInv

(* The flusher takes no release for acknowledged that Home does not hold,  *)
(* and Home holds none that was not marked: an error of                    *)
(* PushConcurrencyRelease never counts as an answer.                       *)
THEOREM FlusherAcksWhatHomeHolds == FlusherSpec => []AckedIsApplied
  BY FlusherInvariance, PTL DEF FlusherInv

(* A ticket that the flusher closes stands for a release that Home holds.  *)
THEOREM FlusherClosesTruthfully == FlusherSpec => []ClosedTicketIsApplied
  BY FlusherInvariance, PTL DEF FlusherInv

(* No open ticket is left below the acknowledged sequence, where no answer *)
(* would close it.                                                         *)
THEOREM FlusherForgetsNoTicket == FlusherSpec => []OpenTicketIsPending
  BY FlusherInvariance, PTL DEF FlusherInv
=============================================================================
