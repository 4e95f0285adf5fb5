------------------------- MODULE HomeReleaseProofs -------------------------
(***************************************************************************)
(* The composition of HomeRelease: the limit Home sets on a credential,    *)
(* and what its admission control hears of the releases, proved for any    *)
(* number of dispatches, groups, lifetimes of the flusher and any limit.   *)
(*                                                                         *)
(* A step of the composition is a step of the registry and a step of the   *)
(* flusher (or leaves it alone), so the invariants of the two components   *)
(* carry over.  What is added ties them together: which dispatches Home    *)
(* has counted (Admissions), that the flusher's marks follow the           *)
(* registry's sequences (Reports), and what the end of the supervisor      *)
(* knows (Stopping).                                                       *)
(***************************************************************************)
EXTENDS MCHomeRelease, ExecutionRegistryProofs

FP == INSTANCE ReleaseFlusherProofs

(* The assumptions of the flusher hold of the composition's constants.     *)
LEMMA FlusherConstants == FP!FlusherAssumption
  BY HomeAssumption, ConstantsAssumption DEF FP!FlusherAssumption

Granted(g) == {d \in Dispatches : grant[d] = g}
ReleasedOf(g) == {d \in Dispatches : group[d] = g /\ pc[d] \in Released}
Unresolved == {"idle", "pending", "gone"}

HomeType ==
  /\ admitted \in [Groups -> Nat]
  /\ grant \in [Dispatches -> Groups \cup {"none"}]
  /\ ambiguous \in BOOLEAN
  /\ unread \subseteq Dispatches
  /\ stopping \in {"run", "drain", "flush", "done", "failed"}

(* Home has counted the dispatches it granted, a scope has the group of    *)
(* its grant, and a grant that no scope took has fenced the client or was  *)
(* not read.                                                               *)
Admissions ==
  /\ \A g \in Groups : admitted[g] = Cardinality(Granted(g))
  /\ \A g \in Groups : Outstanding(g) <= Limit
  /\ \A d \in Dispatches : pc[d] = "idle" => grant[d] = "none"
  /\ \A d \in Dispatches : pc[d] \in Unresolved => group[d] = "none"
  /\ \A d \in Dispatches : pc[d] \notin Unresolved => group[d] = grant[d]
  /\ \A d \in Dispatches : pc[d] = "gone" /\ grant[d] # "none" => ambiguous \/ d \in unread
  /\ \A d \in unread : pc[d] = "gone"

(* The sink is in place before the first dispatch, so that nothing is      *)
(* replayed, and the flusher's marks are sequences the registry has        *)
(* counted.                                                                *)
Reports ==
  /\ replay = {}
  /\ releaseSink = "none" => next = 0 /\ mu = MuFree
  /\ \A d \in Dispatches : pc[d] \notin Released => captured[d].sink = "none"
  /\ \A d \in Dispatches : captured[d].sink # "none" =>
       group[d] \in Groups /\ captured[d].seq \in 1 .. releaseSequences[group[d]]
  /\ \A g \in Groups : latest[g] <= releaseSequences[g]
  /\ \A s \in Sinks, g \in Groups, n \in Nat : <<s, g, n>> \in received => n <= latest[g]

(* The supervisor flushes a registry that is drained, and is done when     *)
(* every mark is acknowledged.                                             *)
Stopping ==
  /\ stopping \in {"flush", "done", "failed"} => \E x \in Drainers : drain[x] = "done"
  /\ stopping = "done" => \A g \in Groups : latest[g] <= acked[g]

HomeInv == IInv /\ FP!FlusherInv /\ HomeType /\ Admissions /\ Reports /\ Stopping

-----------------------------------------------------------------------------
(* What the parts say of one group.                                        *)
LEMMA GroupCounts ==
  ASSUME TypeOK, ReleaseSequenceCounts, NEW g \in Groups
  PROVE  /\ IsFiniteSet(Granted(g)) /\ IsFiniteSet(ReleasedOf(g))
         /\ Cardinality(Granted(g)) \in Nat
         /\ releaseSequences[g] = Cardinality(ReleasedOf(g))
         /\ releaseSequences[g] \in 0 .. MaxDispatch
<1>1. IsFiniteSet(Dispatches) /\ Cardinality(Dispatches) = MaxDispatch
  BY FS_Interval, ConstantsAssumption DEF Dispatches
<1>2. Granted(g) \in SUBSET Dispatches /\ ReleasedOf(g) \in SUBSET Dispatches
  BY DEF Granted, ReleasedOf
<1>3. /\ IsFiniteSet(Granted(g)) /\ IsFiniteSet(ReleasedOf(g))
      /\ Cardinality(ReleasedOf(g)) <= MaxDispatch
  BY <1>1, <1>2, FS_Subset
<1>4. releaseSequences[g] = Cardinality(ReleasedOf(g))
  BY DEF ReleaseSequenceCounts, ReleasedOf
<1>5. Cardinality(Granted(g)) \in Nat /\ Cardinality(ReleasedOf(g)) \in Nat
  BY <1>3, FS_CardinalityType
<1> QED
  BY <1>3, <1>4, <1>5, ConstantsAssumption

(* Every step of the composition is one of the registry, or leaves it      *)
(* alone.                                                                  *)
LEMMA HomeStepIsRegistryStep ==
  ASSUME HomeType, [HomeNext]_allVars
  PROVE  [Next]_vars
<1>1. CASE UNCHANGED allVars
  BY <1>1 DEF allVars
<1>2. CASE DispatchBegin
  BY <1>2 DEF DispatchBegin, Next
<1>3. ASSUME NEW d \in Dispatches, NEW g \in Groups, HomeAdmits(d, g) PROVE UNCHANGED vars
  BY <1>3 DEF HomeAdmits
<1>4. ASSUME NEW d \in Dispatches, DispatchInstall(d) PROVE Next
  BY <1>4 DEF DispatchInstall, Next, Resolve, HomeType
<1>5. ASSUME NEW d \in Dispatches, DispatchDropped(d) \/ DispatchUnread(d) PROVE Next
  BY <1>5 DEF DispatchDropped, DispatchUnread, Next, Resolve
<1>6. ASSUME NEW d \in Dispatches, DispatchRun(d) PROVE Next
  BY <1>6 DEF DispatchRun, Next, End
<1>7. CASE SinkInstall
  BY <1>7 DEF SinkInstall, Next
<1>8. ASSUME NEW x \in Drainers, StopDrain(x) PROVE Next
  BY <1>8 DEF StopDrain, Next
<1>9. ASSUME NEW f \in Flushers, StopFlush(f) \/ StopFlushed(f) PROVE UNCHANGED vars
  BY <1>9 DEF StopFlush, StopFlushed
<1>10. CASE FlusherRuns
  BY <1>10 DEF FlusherRuns
<1> QED
  BY <1>1, <1>2, <1>3, <1>4, <1>5, <1>6, <1>7, <1>8, <1>9, <1>10 DEF HomeNext

(* The sequence a scope reports is one the flusher can be marked with.     *)
LEMMA ReportedSequence ==
  ASSUME HomeInv, NEW d \in Dispatches, captured[d].sink # "none"
  PROVE  /\ group[d] \in Groups
         /\ captured[d].seq \in FP!Sequences
         /\ captured[d].seq <= releaseSequences[group[d]]
<1>1. group[d] \in Groups /\ captured[d].seq \in 1 .. releaseSequences[group[d]]
  BY DEF HomeInv, Reports
<1>2. releaseSequences[group[d]] \in 0 .. MaxDispatch
  BY <1>1, GroupCounts DEF HomeInv, IInv
<1> QED
  BY <1>1, <1>2, ConstantsAssumption, HomeAssumption DEF FP!Sequences

(* What a step of the composition does to the flusher: a scope's End marks *)
(* it, the supervisor's Flush call moves, Run or its sender does, or       *)
(* nothing.                                                                *)
LEMMA HomeFlusherFrame ==
  ASSUME [HomeNext]_allVars
  PROVE  \/ UNCHANGED flusherVars
         \/ \E d \in Dispatches :
              EndReport(d) /\ captured[d].sink # "none" /\ FP!MarkDirty(group[d], captured[d].seq)
         \/ \E f \in Flushers : FP!FlushCall(f) \/ FP!FlushIdle(f) \/ FP!FlushTimeout(f)
         \/ \E s \in Senders : FP!SetSender(s)
         \/ FP!RunStep
<1>1. ASSUME NEW d \in Dispatches, DispatchRun(d)
      PROVE  \/ UNCHANGED flusherVars
             \/ EndReport(d) /\ captured[d].sink # "none" /\ FP!MarkDirty(group[d], captured[d].seq)
  BY <1>1 DEF DispatchRun, F!MarkDirty, FP!MarkDirty, F!loopVars, FP!loopVars,
              F!sendVars, FP!sendVars, F!Larger, FP!Larger
<1>2. ASSUME NEW f \in Flushers, StopFlush(f) \/ StopFlushed(f)
      PROVE  FP!FlushCall(f) \/ FP!FlushIdle(f) \/ FP!FlushTimeout(f)
  BY <1>2 DEF StopFlush, StopFlushed, F!FlushCall, F!FlushIdle, F!FlushTimeout,
              FP!FlushCall, FP!FlushIdle, FP!FlushTimeout, F!markVars, FP!markVars,
              F!loopVars, FP!loopVars, F!sendVars, FP!sendVars
<1>3. ASSUME FlusherRuns PROVE (\E s \in Senders : FP!SetSender(s)) \/ FP!RunStep
  <2>1. ASSUME NEW s \in Senders, F!SetSender(s) PROVE FP!SetSender(s)
    BY <2>1 DEF F!SetSender, FP!SetSender, F!markVars, FP!markVars,
                F!loopVars, FP!loopVars, F!sendVars, FP!sendVars
  <2>2. ASSUME F!RunStep PROVE FP!RunStep
    BY <2>2
    DEF F!RunStep, FP!RunStep, F!RunStart, FP!RunStart, F!RunCancel, FP!RunCancel,
        F!RunReturn, FP!RunReturn, F!RunWake, FP!RunWake, F!RunElapse, FP!RunElapse,
        F!RunTimer, FP!RunTimer, F!RunForce, FP!RunForce, F!FlushSnapshot, FP!FlushSnapshot,
        F!SendDelivered, FP!SendDelivered, F!SendFailed, FP!SendFailed,
        F!Acknowledge, FP!Acknowledge, F!FlushReturn, FP!FlushReturn,
        F!ContextLive, FP!ContextLive, F!Larger, FP!Larger,
        F!markVars, FP!markVars, F!sendVars, FP!sendVars, F!loopVars, FP!loopVars
  <2> QED
    BY <1>3, <2>1, <2>2 DEF FlusherRuns
<1>4. CASE DispatchBegin \/ SinkInstall \/ \E x \in Drainers : StopDrain(x)
  BY <1>4 DEF DispatchBegin, SinkInstall, StopDrain
<1>5. ASSUME NEW d \in Dispatches,
             \/ \E g \in Groups : HomeAdmits(d, g)
             \/ DispatchInstall(d) \/ DispatchDropped(d) \/ DispatchUnread(d)
      PROVE  UNCHANGED flusherVars
  BY <1>5 DEF HomeAdmits, DispatchInstall, DispatchDropped, DispatchUnread
<1>6. CASE UNCHANGED allVars
  BY <1>6 DEF allVars
<1> QED
  BY <1>1, <1>2, <1>3, <1>4, <1>5, <1>6 DEF HomeNext

(* The flusher keeps its invariant, and its marks only grow, by reports.   *)
LEMMA HomeFlusherStep ==
  ASSUME HomeInv, [HomeNext]_allVars
  PROVE  /\ FP!FlusherInv'
         /\ \A g \in Groups : acked[g] <= acked'[g] /\ applied[g] <= applied'[g]
         /\ \/ latest' = latest
            \/ \E d \in Dispatches :
                 /\ EndReport(d) /\ captured[d].sink # "none"
                 /\ captured[d].seq <= latest'[group[d]]
                 /\ latest'[group[d]] \in {captured[d].seq, latest[group[d]]}
                 /\ \A g \in Groups : latest[g] <= latest'[g]
                 /\ \A g \in Groups \ {group[d]} : latest'[g] = latest[g]
<1> USE FlusherConstants
<1>1. acked \in [Groups -> 0 .. MaxSequence] /\ applied \in [Groups -> 0 .. MaxSequence]
  BY DEF HomeInv, FP!FlusherInv, FP!FlusherTypeOK
<1>2. CASE UNCHANGED flusherVars
  <2>1. UNCHANGED FP!flusherVars
    BY <1>2 DEF flusherVars, FP!flusherVars, FP!markVars, FP!loopVars, FP!sendVars
  <2> QED
    BY <1>1, <1>2, <2>1, FP!OtherStepInv, HomeAssumption DEF HomeInv, flusherVars
<1>3. ASSUME NEW d \in Dispatches, EndReport(d), captured[d].sink # "none",
             FP!MarkDirty(group[d], captured[d].seq)
      PROVE  /\ FP!FlusherInv'
             /\ UNCHANGED <<acked, applied>>
             /\ captured[d].seq <= latest'[group[d]]
             /\ latest'[group[d]] \in {captured[d].seq, latest[group[d]]}
             /\ \A g \in Groups : latest[g] <= latest'[g]
             /\ \A g \in Groups \ {group[d]} : latest'[g] = latest[g]
  <2>1. FP!FlusherInv'
    BY <1>3, ReportedSequence, FP!MarkDirtyInv DEF HomeInv
  <2> QED
    BY <1>3, <2>1, ReportedSequence, FP!MarkDirtyEffect DEF HomeInv
<1>4. ASSUME NEW f \in Flushers, FP!FlushCall(f) \/ FP!FlushIdle(f) \/ FP!FlushTimeout(f)
      PROVE  FP!FlusherInv' /\ UNCHANGED <<latest, acked, applied>>
  <2>1. FP!FlusherInv'
    BY <1>4, FP!OtherStepInv DEF HomeInv, FP!FlushStep
  <2> QED
    BY <1>4, <2>1 DEF FP!FlushCall, FP!FlushIdle, FP!FlushTimeout, FP!markVars
<1>5. ASSUME NEW s \in Senders, FP!SetSender(s)
      PROVE  FP!FlusherInv' /\ UNCHANGED <<latest, acked, applied>>
  <2>1. FP!FlusherInv'
    BY <1>5, FP!OtherStepInv DEF HomeInv
  <2> QED
    BY <1>5, <2>1 DEF FP!SetSender, FP!markVars
<1>6. CASE FP!RunStep
  BY <1>6, FP!RunStepInv, FP!RunEffect DEF HomeInv
<1>7. (UNCHANGED <<acked, applied>>) =>
        \A g \in Groups : acked[g] <= acked'[g] /\ applied[g] <= applied'[g]
  BY <1>1, HomeAssumption
<1> QED
  BY <1>2, <1>3, <1>4, <1>5, <1>6, <1>7, HomeFlusherFrame

-----------------------------------------------------------------------------
(* What a step of the composition does to the tables of Home and to the    *)
(* scopes: one dispatch is granted, or one is resolved, or neither.        *)
LEMMA GrantFrame ==
  ASSUME [HomeNext]_allVars
  PROVE  \/ \E d \in Dispatches, g \in Groups : HomeAdmits(d, g)
         \/ UNCHANGED <<admitted, grant>>
<1>1. CASE DispatchBegin \/ SinkInstall \/ FlusherRuns \/ UNCHANGED allVars
  BY <1>1 DEF DispatchBegin, SinkInstall, FlusherRuns, homeVars, allVars
<1>2. ASSUME NEW d \in Dispatches,
             DispatchInstall(d) \/ DispatchDropped(d) \/ DispatchUnread(d) \/ DispatchRun(d)
      PROVE  UNCHANGED <<admitted, grant>>
  BY <1>2 DEF DispatchInstall, DispatchDropped, DispatchUnread, DispatchRun, homeVars
<1>3. CASE \/ \E x \in Drainers : StopDrain(x)
           \/ \E f \in Flushers : StopFlush(f) \/ StopFlushed(f)
  BY <1>3 DEF StopDrain, StopFlush, StopFlushed
<1> QED
  BY <1>1, <1>2, <1>3 DEF HomeNext

(* A dispatch is resolved by Install, which takes the group of its grant,  *)
(* or by DispatchDropped or DispatchUnread; otherwise its group stays.     *)
LEMMA ResolveFrame ==
  ASSUME TypeOK, Tokens, HomeType, [HomeNext]_allVars, NEW d \in Dispatches
  PROVE  \/ pc[d] \in Unresolved /\ pc'[d] \in Unresolved /\ group'[d] = group[d]
              /\ (pc'[d] = "gone" => pc[d] = "gone" \/ DispatchDropped(d) \/ DispatchUnread(d))
              /\ (pc'[d] = "idle" => pc[d] = "idle")
         \/ pc[d] \notin Unresolved /\ pc'[d] \notin Unresolved /\ group'[d] = group[d]
         \/ pc'[d] \notin Unresolved /\ group'[d] = grant[d] /\ UNCHANGED grant
<1> USE DEF TypeOK, RegistryType, Unresolved, OwnerPC
<1>1. CASE UNCHANGED <<pc, group>>
  BY <1>1
<1>2. CASE DispatchBegin
  <2>1. /\ group' = group
        /\ \/ pc' = pc
           \/ pc' = [pc EXCEPT ![next + 1] = "pending"] /\ mu = Holding("begin", 0)
    BY <1>2 DEF DispatchBegin, Begin, BeginDispatch, BeginDispatchReserve
  <2>2. mu = Holding("begin", 0) => next + 1 \in Dispatches /\ pc[next + 1] = "idle"
    BY ConstantsAssumption DEF Tokens, ReserveBelowLimit, Dispatches
  <2> QED
    BY <2>1, <2>2
<1>3. ASSUME NEW e \in Dispatches, DispatchInstall(e)
      PROVE  \/ UNCHANGED <<pc, group>>
             \/ /\ pc' = [pc EXCEPT ![e] = "installed"]
                /\ group' = [group EXCEPT ![e] = grant[e]]
                /\ UNCHANGED grant
  BY <1>3 DEF DispatchInstall, Install, InstallScope, homeVars
<1>4. ASSUME NEW e \in Dispatches, DispatchDropped(e) \/ DispatchUnread(e)
      PROVE  pc[e] = "pending" /\ pc' = [pc EXCEPT ![e] = "gone"] /\ group' = group
  BY <1>4 DEF DispatchDropped, DispatchUnread, PendingEnd, InstallRefused
<1>5. ASSUME NEW e \in Dispatches, DispatchRun(e)
      PROVE  /\ group' = group
             /\ \/ pc' = pc
                \/ /\ pc[e] \notin Unresolved
                   /\ \E v \in OwnerPC \ Unresolved : pc' = [pc EXCEPT ![e] = v]
  <2>1. CASE Binding(e) \/ CloseResource(e)
    BY <2>1 DEF Binding, Bind, BindResource, CloseResource, registryVars
  <2>2. CASE EndDeactivate(e) \/ EndCloseResource(e) \/ EndMarkReleased(e)
    BY <2>2 DEF EndDeactivate, EndCloseResource, EndMarkReleased
  <2>3. CASE EndReport(e) \/ EndRemove(e)
    BY <2>3 DEF EndReport, EndRemove
  <2> QED
    BY <1>5, <2>1, <2>2, <2>3 DEF DispatchRun
<1>6. CASE SinkInstall \/ \E x \in Drainers : StopDrain(x)
  BY <1>6 DEF SinkInstall, SetReleaseSink, StopDrain, Drain, DrainStart, DrainSnapshot,
              DrainVisit, DrainCheck, DrainTimeout, registryVars
<1>7. CASE \/ FlusherRuns \/ UNCHANGED allVars
           \/ \E e \in Dispatches, g \in Groups : HomeAdmits(e, g)
           \/ \E f \in Flushers : StopFlush(f) \/ StopFlushed(f)
  BY <1>7 DEF FlusherRuns, HomeAdmits, StopFlush, StopFlushed, allVars, vars, registryVars
<1>8. ASSUME NEW e \in Dispatches, DispatchInstall(e)
      PROVE  \/ pc[d] \in Unresolved /\ pc'[d] \in Unresolved /\ group'[d] = group[d]
                  /\ (pc'[d] \in {"gone", "idle"} => pc'[d] = pc[d])
             \/ pc[d] \notin Unresolved /\ pc'[d] \notin Unresolved /\ group'[d] = group[d]
             \/ pc'[d] \notin Unresolved /\ group'[d] = grant[d] /\ UNCHANGED grant
  BY <1>3, <1>8
<1>9. ASSUME NEW e \in Dispatches, DispatchRun(e)
      PROVE  \/ pc[d] \in Unresolved /\ pc'[d] = pc[d] /\ group'[d] = group[d]
             \/ pc[d] \notin Unresolved /\ pc'[d] \notin Unresolved /\ group'[d] = group[d]
  BY <1>5, <1>9
<1>10. ASSUME NEW e \in Dispatches, DispatchDropped(e) \/ DispatchUnread(e)
       PROVE  \/ pc[d] \in Unresolved /\ pc'[d] \in Unresolved /\ group'[d] = group[d]
                  /\ (pc'[d] = "gone" => pc[d] = "gone" \/ d = e)
                  /\ (pc'[d] = "idle" => pc[d] = "idle")
              \/ pc[d] \notin Unresolved /\ pc'[d] \notin Unresolved /\ group'[d] = group[d]
  BY <1>4, <1>10
<1> QED
  BY <1>1, <1>2, <1>6, <1>7, <1>8, <1>9, <1>10 DEF HomeNext

(* A dispatch that was dropped stays so.                                   *)
LEMMA ResolvedStays ==
  ASSUME HomeInv, [HomeNext]_allVars, NEW d \in Dispatches, pc[d] = "gone"
  PROVE  pc'[d] = "gone"
<1> USE DEF HomeInv, IInv, TypeOK, RegistryType, OwnerPC
<1>1. CASE DispatchBegin
  <2>1. \/ pc' = pc
        \/ pc' = [pc EXCEPT ![next + 1] = "pending"] /\ mu = Holding("begin", 0)
    BY <1>1 DEF DispatchBegin, Begin, BeginDispatch, BeginDispatchReserve
  <2>2. mu = Holding("begin", 0) => next + 1 \in Dispatches /\ pc[next + 1] = "idle"
    BY ConstantsAssumption DEF Tokens, ReserveBelowLimit, Dispatches
  <2> QED
    BY <2>1, <2>2
<1>2. ASSUME NEW e \in Dispatches, DispatchInstall(e) PROVE pc'[d] = "gone"
  BY <1>2 DEF DispatchInstall, Install, InstallScope, Tokens
<1>3. ASSUME NEW e \in Dispatches, DispatchDropped(e) \/ DispatchUnread(e)
      PROVE  pc'[d] = "gone"
  BY <1>3 DEF DispatchDropped, DispatchUnread, PendingEnd, InstallRefused
<1>4. ASSUME NEW e \in Dispatches, DispatchRun(e) PROVE pc'[d] = "gone"
  <2>1. CASE Binding(e) \/ CloseResource(e)
    BY <2>1 DEF Binding, Bind, BindResource, CloseResource, registryVars
  <2>2. CASE EndDeactivate(e) \/ EndCloseResource(e) \/ EndMarkReleased(e)
    BY <2>2 DEF EndDeactivate, EndCloseResource, EndMarkReleased
  <2>3. CASE EndReport(e) \/ EndRemove(e)
    BY <2>3 DEF EndReport, EndRemove
  <2> QED
    BY <1>4, <2>1, <2>2, <2>3 DEF DispatchRun
<1>5. CASE SinkInstall \/ \E x \in Drainers : StopDrain(x)
  BY <1>5 DEF SinkInstall, SetReleaseSink, StopDrain, Drain, DrainStart, DrainSnapshot,
              DrainVisit, DrainCheck, DrainTimeout, registryVars
<1>6. CASE \/ FlusherRuns \/ UNCHANGED allVars
           \/ \E e \in Dispatches, g \in Groups : HomeAdmits(e, g)
           \/ \E f \in Flushers : StopFlush(f) \/ StopFlushed(f)
  BY <1>6 DEF FlusherRuns, HomeAdmits, StopFlush, StopFlushed, allVars, vars, registryVars
<1> QED
  BY <1>1, <1>2, <1>3, <1>4, <1>5, <1>6 DEF HomeNext

(* The tables of Home keep their types.                                    *)
LEMMA HomeTypeStep ==
  ASSUME HomeType, [HomeNext]_allVars
  PROVE  HomeType'
<1>1. admitted' \in [Groups -> Nat] /\ grant' \in [Dispatches -> Groups \cup {"none"}]
  BY GrantFrame DEF HomeType, HomeAdmits
<1>2. /\ ambiguous' \in BOOLEAN /\ unread' \subseteq Dispatches
      /\ stopping' \in {"run", "drain", "flush", "done", "failed"}
  <2> USE DEF HomeType
  <2>1. CASE DispatchBegin \/ SinkInstall \/ FlusherRuns \/ UNCHANGED allVars
    BY <2>1 DEF DispatchBegin, SinkInstall, FlusherRuns, homeVars, allVars
  <2>2. ASSUME NEW d \in Dispatches, NEW g \in Groups, HomeAdmits(d, g)
        PROVE  UNCHANGED <<ambiguous, unread, stopping>>
    BY <2>2 DEF HomeAdmits
  <2>3. ASSUME NEW d \in Dispatches, DispatchInstall(d) \/ DispatchRun(d)
        PROVE  UNCHANGED <<ambiguous, unread, stopping>>
    BY <2>3 DEF DispatchInstall, DispatchRun, homeVars
  <2>4. ASSUME NEW d \in Dispatches, DispatchDropped(d) \/ DispatchUnread(d)
        PROVE  ambiguous' \in BOOLEAN /\ unread' \subseteq Dispatches /\ UNCHANGED stopping
    BY <2>4 DEF DispatchDropped, DispatchUnread
  <2>5. ASSUME NEW x \in Drainers, StopDrain(x)
        PROVE  UNCHANGED <<ambiguous, unread>> /\ stopping' = "drain"
    BY <2>5 DEF StopDrain
  <2>6. ASSUME NEW f \in Flushers, StopFlush(f) \/ StopFlushed(f)
        PROVE  UNCHANGED <<ambiguous, unread>> /\ stopping' \in {"flush", "done", "failed"}
    BY <2>6 DEF StopFlush, StopFlushed
  <2> QED
    BY <2>1, <2>2, <2>3, <2>4, <2>5, <2>6 DEF HomeNext
<1> QED
  BY <1>1, <1>2 DEF HomeType

(* The client, once fenced, stays fenced, and an answer is left unread by  *)
(* DispatchUnread only.                                                    *)
LEMMA FenceStays ==
  ASSUME [HomeNext]_allVars
  PROVE  /\ ambiguous => ambiguous'
         /\ \/ UNCHANGED unread
            \/ \E d \in Dispatches : DispatchUnread(d)
<1>1. CASE DispatchBegin \/ SinkInstall \/ FlusherRuns \/ UNCHANGED allVars
  BY <1>1 DEF DispatchBegin, SinkInstall, FlusherRuns, homeVars, allVars
<1>2. ASSUME NEW d \in Dispatches, NEW g \in Groups, HomeAdmits(d, g)
      PROVE  UNCHANGED <<ambiguous, unread>>
  BY <1>2 DEF HomeAdmits
<1>3. ASSUME NEW d \in Dispatches, DispatchInstall(d) \/ DispatchRun(d)
      PROVE  UNCHANGED <<ambiguous, unread>>
  BY <1>3 DEF DispatchInstall, DispatchRun, homeVars
<1>4. ASSUME NEW d \in Dispatches, DispatchDropped(d)
      PROVE  (ambiguous => ambiguous') /\ UNCHANGED unread
  BY <1>4 DEF DispatchDropped
<1>5. ASSUME NEW d \in Dispatches, DispatchUnread(d) PROVE UNCHANGED ambiguous
  BY <1>5 DEF DispatchUnread
<1>6. ASSUME NEW x \in Drainers, StopDrain(x) PROVE UNCHANGED <<ambiguous, unread>>
  BY <1>6 DEF StopDrain
<1>7. ASSUME NEW f \in Flushers, StopFlush(f) \/ StopFlushed(f)
      PROVE  UNCHANGED <<ambiguous, unread>>
  BY <1>7 DEF StopFlush, StopFlushed
<1> QED
  BY <1>1, <1>2, <1>3, <1>4, <1>5, <1>6, <1>7 DEF HomeNext

(* Home's counts stay those of its grants and within the limit, and every  *)
(* scope has the group that was granted to it.                             *)
LEMMA AdmissionsStep ==
  ASSUME HomeInv, [HomeNext]_allVars
  PROVE  Admissions'
<1>1. applied \in [Groups -> 0 .. MaxSequence] /\ applied' \in [Groups -> 0 .. MaxSequence]
  BY HomeFlusherStep DEF HomeInv, FP!FlusherInv, FP!FlusherTypeOK
<1>2. ASSUME NEW h \in Groups
      PROVE  admitted'[h] = Cardinality(Granted(h)') /\ Outstanding(h)' <= Limit
  <2>1. IsFiniteSet(Granted(h)) /\ Cardinality(Granted(h)) \in Nat
    BY GroupCounts DEF HomeInv, IInv
  <2>2. /\ admitted[h] = Cardinality(Granted(h))
        /\ Outstanding(h) <= Limit
        /\ applied[h] <= applied'[h]
    BY HomeFlusherStep DEF HomeInv, Admissions
  <2>3. ASSUME NEW d \in Dispatches, NEW g \in Groups, HomeAdmits(d, g)
        PROVE  admitted'[h] = Cardinality(Granted(h)') /\ Outstanding(h)' <= Limit
    <3>1. CASE g = h
      <4>0. grant[d] = "none" /\ grant' = [grant EXCEPT ![d] = h]
        BY <2>3, <3>1 DEF HomeAdmits
      <4>1. d \notin Granted(h) /\ Granted(h)' = Granted(h) \cup {d}
        <5>1. h # "none" /\ grant \in [Dispatches -> Groups \cup {"none"}]
          BY ConstantsAssumption DEF HomeInv, HomeType
        <5>2. d \notin Granted(h)
          BY <4>0, <5>1 DEF Granted
        <5>3. \A e \in Dispatches : grant'[e] = h <=> e = d \/ grant[e] = h
          BY <4>0, <5>1
        <5>4. Granted(h)' = {e \in Dispatches : grant'[e] = h}
          BY DEF Granted
        <5> QED
          BY <5>2, <5>3, <5>4 DEF Granted
      <4>2. admitted'[h] = admitted[h] + 1 /\ Outstanding(h) < Limit /\ applied' = applied
        BY <2>3, <3>1 DEF HomeAdmits, HomeInv, HomeType, flusherVars
      <4>3. admitted'[h] = Cardinality(Granted(h)')
        BY <2>1, <2>2, <4>1, <4>2, FS_AddElement
      <4> QED
        BY <1>1, <2>1, <2>2, <4>2, <4>3, HomeAssumption DEF Outstanding
    <3>2. CASE g # h
      <4>1. Granted(h)' = Granted(h) /\ admitted'[h] = admitted[h] /\ applied' = applied
        <5>1. /\ grant[d] = "none" /\ grant' = [grant EXCEPT ![d] = g] /\ h # "none"
              /\ grant \in [Dispatches -> Groups \cup {"none"}]
          BY <2>3, ConstantsAssumption DEF HomeAdmits, HomeInv, HomeType
        <5>2. \A e \in Dispatches : grant'[e] = h <=> grant[e] = h
          BY <3>2, <5>1
        <5>3. Granted(h)' = {e \in Dispatches : grant'[e] = h}
          BY DEF Granted
        <5>4. admitted'[h] = admitted[h] /\ applied' = applied
          BY <2>3, <3>2 DEF HomeAdmits, HomeInv, HomeType, flusherVars
        <5> QED
          BY <5>2, <5>3, <5>4 DEF Granted
      <4> QED
        BY <2>2, <4>1 DEF Outstanding
    <3> QED
      BY <3>1, <3>2
  <2>4. CASE UNCHANGED <<admitted, grant>>
    <3>1. Granted(h)' = Granted(h)
      BY <2>4 DEF Granted
    <3> QED
      BY <1>1, <2>1, <2>2, <2>4, <3>1, HomeAssumption DEF Outstanding
  <2> QED
    BY <2>3, <2>4, GrantFrame
<1>3. ASSUME NEW d \in Dispatches
      PROVE  /\ pc'[d] \in Unresolved => group'[d] = "none"
             /\ pc'[d] \notin Unresolved => group'[d] = grant'[d]
             /\ pc'[d] = "gone" /\ grant'[d] # "none" => ambiguous' \/ d \in unread'
             /\ d \in unread' => pc'[d] = "gone"
             /\ pc'[d] = "idle" => grant'[d] = "none"
  <2>1. pc[d] # "pending" => grant'[d] = grant[d]
    BY GrantFrame DEF HomeAdmits, HomeInv, HomeType
  <2>2. /\ DispatchDropped(d) /\ grant'[d] # "none" => ambiguous'
        /\ DispatchUnread(d) => d \in unread'
    BY DEF DispatchDropped, DispatchUnread
  <2>3. {"idle", "pending", "gone"} = Unresolved
    BY DEF Unresolved
  <2>4. TypeOK /\ Tokens /\ HomeType /\ Admissions
    BY DEF HomeInv, IInv
  <2>5. d \in unread => d \in unread'
    BY FenceStays DEF DispatchUnread
  <2>6. d \in unread' => pc'[d] = "gone"
    <3>1. CASE UNCHANGED unread
      <4>1. pc[d] = "gone" => pc'[d] = "gone"
        BY ResolvedStays DEF HomeInv
      <4> QED
        BY <2>4, <3>1, <4>1 DEF Admissions
    <3>2. ASSUME NEW e \in Dispatches, DispatchUnread(e) PROVE d \in unread' => pc'[d] = "gone"
      BY <2>4, <3>2 DEF DispatchUnread, PendingEnd, Admissions, TypeOK, RegistryType
    <3> QED
      BY <3>1, <3>2, FenceStays
  <2>7. /\ pc'[d] \in Unresolved => group'[d] = "none"
        /\ pc'[d] \notin Unresolved => group'[d] = grant'[d]
        /\ pc'[d] = "idle" => grant'[d] = "none"
    BY <2>1, <2>3, <2>4, ResolveFrame DEF Admissions
  <2>8. pc'[d] = "gone" /\ grant'[d] # "none" => ambiguous' \/ d \in unread'
    BY <2>1, <2>2, <2>3, <2>4, <2>5, ResolveFrame, FenceStays DEF Admissions
  <2> QED
    BY <2>6, <2>7, <2>8
<1>4. unread' \subseteq Dispatches
  BY HomeTypeStep DEF HomeInv, HomeType
<1> QED
  BY <1>2, <1>3, <1>4 DEF Admissions

(* Before the sink is installed nothing has happened: no token was handed  *)
(* out and nothing was counted.                                            *)
LEMMA NothingBeforeSink ==
  ASSUME HomeInv, releaseSink = "none"
  PROVE  /\ \A d \in Dispatches : pc[d] = "idle"
         /\ \A g \in Groups : releaseSequences[g] = 0
<1>1. \A d \in Dispatches : pc[d] = "idle"
  BY ConstantsAssumption DEF HomeInv, Reports, IInv, Tokens, Dispatches
<1>2. \A g \in Groups : ReleasedOf(g) = {}
  BY <1>1 DEF ReleasedOf, Released
<1> QED
  BY <1>1, <1>2, GroupCounts, FS_EmptySet DEF HomeInv, IInv

(* The flusher's marks stay behind the registry's sequences, and the calls *)
(* the sink has received stay behind the marks.                            *)
LEMMA ReportsStep ==
  ASSUME HomeInv, [HomeNext]_allVars
  PROVE  Reports'
<1>0. TypeOK /\ Tokens /\ Reports /\ [Next]_vars /\ TypeOK' /\ ReleaseSequenceCounts
  BY HomeStepIsRegistryStep, IInvStep DEF HomeInv, IInv
<1>1. \/ UNCHANGED releaseVars
      \/ \E d \in Dispatches : EndMarkReleased(d)
      \/ \E d \in Dispatches :
           EndReport(d) /\ (captured[d].sink = "none" \/ captured[d].seq <= latest'[group[d]])
      \/ releaseSink = "none" /\ \E s \in Sinks : SetReleaseSink(s)
  <2>1. CASE DispatchBegin
    BY <2>1 DEF DispatchBegin, Begin, BeginDispatch, BeginDispatchReserve
  <2>2. ASSUME NEW d \in Dispatches, DispatchInstall(d) \/ DispatchDropped(d) \/ DispatchUnread(d)
        PROVE  UNCHANGED releaseVars
    BY <2>2 DEF DispatchInstall, DispatchDropped, DispatchUnread, Install, InstallScope,
                PendingEnd, InstallRefused
  <2>3. ASSUME NEW d \in Dispatches, DispatchRun(d)
        PROVE  \/ UNCHANGED releaseVars
               \/ EndMarkReleased(d)
               \/ /\ EndReport(d)
                  /\ captured[d].sink = "none" \/ captured[d].seq <= latest'[group[d]]
    <3>1. \/ UNCHANGED releaseVars
          \/ EndMarkReleased(d)
          \/ /\ EndReport(d)
             /\ captured[d].sink = "none" \/ FP!MarkDirty(group[d], captured[d].seq)
      BY <2>3 DEF DispatchRun, Binding, Bind, BindResource, CloseResource, EndDeactivate,
                  EndCloseResource, EndRemove, F!MarkDirty, FP!MarkDirty, F!loopVars,
                  FP!loopVars, F!sendVars, FP!sendVars, F!Larger, FP!Larger
    <3>2. ASSUME captured[d].sink # "none", FP!MarkDirty(group[d], captured[d].seq)
          PROVE  captured[d].seq <= latest'[group[d]]
      BY <3>2, FlusherConstants, ReportedSequence, FP!MarkDirtyEffect DEF HomeInv
    <3> QED
      BY <3>1, <3>2
  <2>4. CASE SinkInstall
    BY <2>4 DEF SinkInstall
  <2>5. CASE \E x \in Drainers : StopDrain(x)
    BY <2>5 DEF StopDrain, Drain, DrainStart, DrainSnapshot, DrainVisit, DrainCheck, DrainTimeout
  <2>6. CASE \/ FlusherRuns \/ UNCHANGED allVars
             \/ \E e \in Dispatches, g \in Groups : HomeAdmits(e, g)
             \/ \E f \in Flushers : StopFlush(f) \/ StopFlushed(f)
    BY <2>6 DEF FlusherRuns, HomeAdmits, StopFlush, StopFlushed, allVars, vars
  <2> QED
    BY <2>1, <2>2, <2>3, <2>4, <2>5, <2>6 DEF HomeNext
<1>2. replay' = {}
  <2>1. ASSUME releaseSink = "none", NEW s \in Sinks, SetReleaseSink(s) PROVE replay' = {}
    BY <2>1, NothingBeforeSink DEF SetReleaseSink
  <2> QED
    BY <1>0, <1>1, <2>1 DEF Reports, releaseVars, EndMarkReleased, EndReport
<1>3. releaseSink' = "none" => next' = 0 /\ mu' = MuFree
  <2> SUFFICES ASSUME releaseSink' = "none" PROVE next' = 0 /\ mu' = MuFree
    OBVIOUS
  <2>1. releaseSink = "none"
    BY <1>1, ConstantsAssumption DEF releaseVars, EndMarkReleased, EndReport, SetReleaseSink
  <2>2. \A d \in Dispatches : pc[d] = "idle"
    BY <2>1, NothingBeforeSink
  <2>3. ~ DispatchBegin /\ mu = MuFree
    BY <1>0, <2>1 DEF DispatchBegin, Reports
  <2>4. ~ \E d \in Dispatches : DispatchInstall(d) \/ DispatchDropped(d) \/ DispatchUnread(d)
    BY <2>2, <2>3 DEF DispatchInstall, DispatchDropped, DispatchUnread, Install, InstallScope, PendingEnd,
                      InstallRefused, MuFree, Holding
  <2>5. ASSUME NEW d \in Dispatches, DispatchRun(d) PROVE UNCHANGED <<next, mu>>
    BY <2>2, <2>3, <2>5
    DEF DispatchRun, Binding, Bind, BindResource, CloseResource, EndDeactivate, MuFree, Holding,
        EndCloseResource, EndMarkReleased, EndReport, EndRemove, registryVars
  <2>6. ASSUME SinkInstall PROVE UNCHANGED <<next, mu>>
    BY <2>6 DEF SinkInstall, SetReleaseSink, registryVars
  <2>7. ASSUME \E x \in Drainers : StopDrain(x) PROVE UNCHANGED <<next, mu>>
    BY <2>7 DEF StopDrain, Drain, DrainStart, DrainSnapshot, DrainVisit, DrainCheck,
                DrainTimeout, registryVars
  <2>8. ASSUME \/ FlusherRuns \/ UNCHANGED allVars
               \/ \E e \in Dispatches, g \in Groups : HomeAdmits(e, g)
               \/ \E f \in Flushers : StopFlush(f) \/ StopFlushed(f)
        PROVE  UNCHANGED <<next, mu>>
    BY <2>8 DEF FlusherRuns, HomeAdmits, StopFlush, StopFlushed, allVars, vars, registryVars
  <2>9. UNCHANGED <<next, mu>>
    BY <2>3, <2>4, <2>5, <2>6, <2>7, <2>8 DEF HomeNext
  <2> QED
    BY <1>0, <2>1, <2>9 DEF Reports
<1>4. ASSUME NEW d \in Dispatches
      PROVE  /\ pc'[d] \notin Released => captured'[d].sink = "none"
             /\ captured'[d].sink # "none" =>
                  group'[d] \in Groups /\ captured'[d].seq \in 1 .. releaseSequences'[group'[d]]
  <2>1. /\ pc[d] \in Released => group'[d] = group[d] /\ pc'[d] \in Released
        /\ pc[d] \notin Released => captured[d].sink = "none"
        /\ captured[d].sink # "none" =>
             group[d] \in Groups /\ captured[d].seq \in 1 .. releaseSequences[group[d]]
    BY <1>0, MarkedOnlyByEnd DEF Reports
  <2>2. ASSUME NEW e \in Dispatches, EndMarkReleased(e)
        PROVE  /\ pc'[d] \notin Released => captured'[d].sink = "none"
               /\ captured'[d].sink # "none" =>
                    group'[d] \in Groups /\ captured'[d].seq \in 1 .. releaseSequences'[group'[d]]
    <3>1. \A g \in Groups : releaseSequences[g] <= releaseSequences'[g]
      BY <1>0, <2>2 DEF EndMarkReleased, MarkReleasedLocked, TypeOK, ReleaseType
    <3>2. CASE captured'[d] = captured[d]
      BY <1>0, <2>1, <3>1, <3>2 DEF TypeOK, ReleaseType
    <3>3. CASE captured'[d] # captured[d]
      <4>1. e = d /\ group[d] # "none" /\ pc'[d] = "marked"
        BY <1>0, <2>2, <3>3 DEF EndMarkReleased, MarkReleasedLocked, TypeOK, ReleaseType, RegistryType
      <4>2. /\ captured'[d].seq = releaseSequences[group[d]] + 1
            /\ releaseSequences'[group[d]] = releaseSequences[group[d]] + 1
            /\ group[d] \in Groups /\ group' = group
        BY <1>0, <2>2, <4>1 DEF EndMarkReleased, MarkReleasedLocked, TypeOK, ReleaseType, RegistryType
      <4> QED
        BY <1>0, <4>1, <4>2 DEF TypeOK, ReleaseType, Released
    <3> QED
      BY <3>2, <3>3
  <2>3. CASE UNCHANGED <<captured, releaseSequences>>
    BY <2>1, <2>3
  <2> QED
    BY <1>1, <2>2, <2>3 DEF releaseVars, EndReport, SetReleaseSink
<1>5. ASSUME NEW g \in Groups PROVE latest'[g] <= releaseSequences'[g]
  <2>1. /\ releaseSequences[g] <= releaseSequences'[g]
        /\ releaseSequences[g] \in Nat /\ releaseSequences'[g] \in Nat
    BY <1>0, <1>1
    DEF TypeOK, ReleaseType, releaseVars, EndMarkReleased, MarkReleasedLocked, EndReport, SetReleaseSink
  <2>2. latest'[g] = latest[g] \/ latest'[g] <= releaseSequences[g]
    BY <1>0, HomeFlusherStep, ReportedSequence DEF Reports
  <2>3. latest[g] <= releaseSequences[g] /\ latest[g] \in Nat /\ latest'[g] \in Nat
    BY <1>0, HomeFlusherStep, HomeAssumption DEF Reports, HomeInv, FP!FlusherInv, FP!FlusherTypeOK
  <2> QED
    BY <2>1, <2>2, <2>3
<1>6. ASSUME NEW s \in Sinks, NEW g \in Groups, NEW n \in Nat, <<s, g, n>> \in received'
      PROVE  n <= latest'[g]
  <2>1. latest[g] <= latest'[g] /\ latest[g] \in Nat /\ latest'[g] \in Nat
    BY HomeFlusherStep, HomeAssumption DEF HomeInv, FP!FlusherInv, FP!FlusherTypeOK
  <2>2. CASE <<s, g, n>> \in received
    BY <1>0, <2>1, <2>2 DEF Reports
  <2>3. ASSUME NEW d \in Dispatches, EndReport(d), <<s, g, n>> \notin received
        PROVE  s = captured[d].sink /\ g = group[d] /\ n = captured[d].seq
    BY <1>6, <2>3 DEF EndReport
  <2> QED
    BY <1>1, <1>6, <2>2, <2>3, ConstantsAssumption DEF releaseVars, EndMarkReleased, SetReleaseSink
<1> QED
  BY <1>2, <1>3, <1>4, <1>5, <1>6 DEF Reports

(* The supervisor's knowledge lasts: a drained registry reports nothing.   *)
LEMMA StoppingStep ==
  ASSUME HomeInv, [HomeNext]_allVars
  PROVE  Stopping'
<1>0. TypeOK /\ Tokens /\ Drained /\ [Next]_vars /\ Stopping
  BY HomeStepIsRegistryStep DEF HomeInv, IInv
<1>1. ASSUME NEW x \in Drainers, drain[x] = "done" PROVE drain'[x] = "done"
  <2>1. CASE UNCHANGED stopVars \/ SignalLocked
    BY <1>0, <1>1, <2>1 DEF stopVars, SignalLocked, Wake, TypeOK, StopType
  <2>2. ASSUME NEW y \in Drainers, Drain(y) \/ DrainTimeout(y) PROVE drain'[x] = "done"
    BY <1>0, <1>1, <2>2 DEF Drain, DrainStart, DrainSnapshot, DrainVisit, DrainCheck,
                            DrainTimeout, TypeOK, StopType
  <2>3. CASE \/ \E y \in Closers : Close(y)
             \/ \E y \in Waiters : WaitPending(y) \/ WaitPendingTimeout(y)
    BY <1>1, <2>3 DEF Close, CloseEnter, CloseSwap, CloseSnapshot, CloseVisit, CloseJoin,
                      CloseFinish, CloseAwait, WaitPending, WaitPendingStart, WaitPendingCheck,
                      WaitPendingTimeout
  <2> QED
    BY <1>0, <2>1, <2>2, <2>3, StopFrame
<1>2. /\ \/ stopping' = stopping
         \/ stopping' = "drain"
         \/ stopping' = "flush" /\ \E x \in Drainers : drain[x] = "done"
         \/ stopping = "flush" /\ stopping' \in {"done", "failed"}
      /\ stopping' = "done" =>
           stopping = "done" \/ \A g \in Groups : latest[g] <= acked[g] /\ UNCHANGED <<latest, acked>>
  <2>1. CASE DispatchBegin \/ SinkInstall \/ FlusherRuns \/ UNCHANGED allVars
    BY <2>1 DEF DispatchBegin, SinkInstall, FlusherRuns, homeVars, allVars
  <2>2. ASSUME NEW d \in Dispatches, (\E g \in Groups : HomeAdmits(d, g)) \/ DispatchDropped(d)
                                       \/ DispatchUnread(d) \/ DispatchInstall(d) \/ DispatchRun(d)
        PROVE  UNCHANGED stopping
    BY <2>2 DEF HomeAdmits, DispatchDropped, DispatchUnread, DispatchInstall, DispatchRun, homeVars
  <2>3. ASSUME NEW x \in Drainers, StopDrain(x) PROVE stopping' = "drain"
    BY <2>3 DEF StopDrain
  <2>4. ASSUME NEW f \in Flushers, StopFlush(f)
        PROVE  stopping' = "flush" /\ \E x \in Drainers : drain[x] = "done"
    BY <2>4 DEF StopFlush
  <2>5. ASSUME NEW f \in Flushers, StopFlushed(f)
        PROVE  /\ stopping = "flush" /\ stopping' \in {"done", "failed"}
               /\ stopping' = "done" =>
                    (\A g \in Groups : latest[g] <= acked[g]) /\ UNCHANGED <<latest, acked>>
    BY <2>5 DEF StopFlushed, F!FlushIdle, F!FlushTimeout, F!markVars
  <2> QED
    BY <2>1, <2>2, <2>3, <2>4, <2>5 DEF HomeNext
<1>3. (\E x \in Drainers : drain[x] = "done") => latest' = latest
  <2>1. (\E x \in Drainers : drain[x] = "done") => \A d \in Dispatches : pc[d] # "marked"
    BY <1>0 DEF Drained, Tokens, Live
  <2> QED
    BY <2>1, HomeFlusherStep DEF EndReport
<1>4. stopping = "done" => \A g \in Groups : latest'[g] <= acked'[g]
  <2>1. \A g \in Groups : latest[g] \in Nat /\ acked[g] \in Nat /\ acked'[g] \in Nat
                          /\ acked[g] <= acked'[g]
    BY HomeFlusherStep, HomeAssumption DEF HomeInv, FP!FlusherInv, FP!FlusherTypeOK
  <2> QED
    BY <1>0, <1>3, <2>1 DEF Stopping
<1> QED
  BY <1>0, <1>1, <1>2, <1>4 DEF Stopping

(* The initial state satisfies the invariant of the composition.           *)
LEMMA HomeInitInv ==
  ASSUME HomeInit
  PROVE  HomeInv
<1>1. IInv
  BY InitIInv DEF HomeInit
<1>2. FP!FlusherInv
  <2>1. FP!FlusherInit
    BY DEF HomeInit, F!FlusherInit, FP!FlusherInit, F!NoFrame, FP!NoFrame
  <2> QED
    BY <2>1, FlusherConstants, FP!FlusherInitInv
<1>3. HomeType
  BY DEF HomeInit, HomeType
<1>4. Admissions
  <2>1. \A g \in Groups : Granted(g) = {}
    BY ConstantsAssumption DEF HomeInit, Granted
  <2>2. \A g \in Groups : Outstanding(g) = 0
    BY DEF HomeInit, F!FlusherInit, Outstanding
  <2> QED
    <3>1. \A g \in Groups : admitted[g] = Cardinality(Granted(g)) /\ Outstanding(g) <= Limit
      BY <2>1, <2>2, FS_EmptySet, HomeAssumption DEF HomeInit
    <3>2. \A d \in Dispatches : pc[d] = "idle" /\ group[d] = "none" /\ grant[d] = "none"
      BY DEF HomeInit, Init
    <3> QED
      BY <3>1, <3>2 DEF Admissions, Unresolved, HomeInit
<1>5. Reports /\ Stopping
  BY DEF HomeInit, Init, F!FlusherInit, Reports, Stopping, Released
<1> QED
  BY <1>1, <1>2, <1>3, <1>4, <1>5 DEF HomeInv

(* Every step of the composition keeps its invariant.                      *)
LEMMA HomeStepInv ==
  ASSUME HomeInv, [HomeNext]_allVars
  PROVE  HomeInv'
<1>1. IInv'
  BY HomeStepIsRegistryStep, IInvStep DEF HomeInv
<1> QED
  BY <1>1, HomeFlusherStep, HomeTypeStep, AdmissionsStep, ReportsStep, StoppingStep DEF HomeInv

(* HomeInv is an invariant of the composition.                             *)
LEMMA HomeInvariance == HomeSpec => []HomeInv
  BY HomeInitInv, HomeStepInv, PTL DEF HomeSpec

-----------------------------------------------------------------------------
(* Of one group: what Home holds was released, and what was released was   *)
(* granted.                                                                *)
LEMMA ReleasedWasGranted ==
  ASSUME HomeInv, NEW g \in Groups
  PROVE  /\ ReleasedOf(g) \subseteq Granted(g)
         /\ applied[g] <= Cardinality(ReleasedOf(g))
         /\ Cardinality(ReleasedOf(g)) <= admitted[g]
         /\ Cardinality(ReleasedOf(g)) \in Nat /\ admitted[g] \in Nat /\ applied[g] \in Nat
<1>1. /\ IsFiniteSet(Granted(g)) /\ releaseSequences[g] = Cardinality(ReleasedOf(g))
      /\ releaseSequences[g] \in Nat /\ Cardinality(Granted(g)) \in Nat
      /\ admitted[g] = Cardinality(Granted(g))
  BY GroupCounts, ConstantsAssumption DEF HomeInv, IInv, Admissions
<1>2. ReleasedOf(g) \subseteq Granted(g)
  BY DEF HomeInv, Admissions, ReleasedOf, Granted, Released, Unresolved
<1>3. Cardinality(ReleasedOf(g)) <= Cardinality(Granted(g))
  BY <1>1, <1>2, FS_Subset
<1>4. /\ applied[g] \in Nat /\ latest[g] \in Nat
      /\ applied[g] <= latest[g] /\ latest[g] <= releaseSequences[g]
  BY HomeAssumption DEF HomeInv, FP!FlusherInv, FP!FlusherTypeOK, FP!AckedIsApplied, Reports
<1> QED
  BY <1>1, <1>2, <1>3, <1>4

(* Home frees no slot twice: a release frame that is repeated, reordered   *)
(* or sent again by the next lifetime of the flusher never makes Home hold *)
(* more releases of a group than it admitted dispatches.                   *)
THEOREM HomeFreesNoSlotTwice == HomeSpec => []NoSlotFreedTwice
<1>1. HomeInv => NoSlotFreedTwice
  BY ReleasedWasGranted DEF NoSlotFreedTwice
<1> QED
  BY <1>1, HomeInvariance, PTL

(* The dispatches that use a credential are among the granted ones that    *)
(* are not released.                                                       *)
LEMMA LimitHolds == HomeInv => LimitIsRespected
<1> SUFFICES ASSUME HomeInv, NEW g \in Groups PROVE Cardinality(Using(g)) <= Limit
  BY DEF LimitIsRespected
<1>1. IsFiniteSet(Granted(g)) /\ IsFiniteSet(ReleasedOf(g)) /\ admitted[g] = Cardinality(Granted(g))
  BY GroupCounts DEF HomeInv, IInv, Admissions
<1>2. Using(g) \subseteq Granted(g) \ ReleasedOf(g)
  BY ConstantsAssumption
  DEF HomeInv, IInv, Resources, Admissions, Using, Granted, ReleasedOf, Released, Unresolved
<1>3. Granted(g) \cap ReleasedOf(g) = ReleasedOf(g)
  BY ReleasedWasGranted
<1>4. /\ IsFiniteSet(Granted(g) \ ReleasedOf(g))
      /\ Cardinality(Granted(g) \ ReleasedOf(g)) = admitted[g] - Cardinality(ReleasedOf(g))
  BY <1>1, <1>3, FS_Difference
<1>5. Cardinality(Using(g)) <= Cardinality(Granted(g) \ ReleasedOf(g)) /\ IsFiniteSet(Using(g))
  BY <1>2, <1>4, FS_Subset
<1>6. Cardinality(Using(g)) \in Nat
  BY <1>5, FS_CardinalityType
<1>7. Outstanding(g) <= Limit
  BY DEF HomeInv, Admissions
<1> QED
  BY <1>4, <1>5, <1>6, <1>7, ReleasedWasGranted, HomeAssumption DEF Outstanding

(* No credential is used by more requests at once than Home's limit        *)
(* allows, although Home hears of the releases from a goroutine of its     *)
(* own.                                                                    *)
THEOREM HomeLimitHolds == HomeSpec => []LimitIsRespected
  BY LimitHolds, HomeInvariance, PTL

(* The same of the two instances that the model checker runs as one.       *)
THEOREM HomeLimitHoldsWithHome == MCSpec => []HomeLimitIsRespected
<1>1. MCInit => (home => HomeInv)
  BY HomeInitInv DEF MCInit
<1>2. (home => HomeInv) /\ [MCNext]_<<allVars, home>> => (home => HomeInv)'
  BY HomeStepInv DEF MCNext
<1>3. (home => HomeInv) => HomeLimitIsRespected
  BY LimitHolds DEF HomeLimitIsRespected
<1> QED
  BY <1>1, <1>2, <1>3, PTL DEF MCSpec

(* A supervisor that drained and flushed leaves nothing behind at Home but *)
(* the slots of the answers that could not be read, unless the client was  *)
(* fenced: Drain lets no report come after it, and Flush returns only when *)
(* every mark is acknowledged.                                             *)
THEOREM HomeIsSettled == HomeSpec => []StopSettlesHome
<1>1. ASSUME HomeInv, stopping = "done", ~ambiguous, NEW g \in Groups
      PROVE  Outstanding(g) = Cardinality({d \in unread : grant[d] = g})
  <2> DEFINE left == {d \in unread : grant[d] = g}
  <2>1. pending = {} /\ scopes = {}
    BY <1>1 DEF HomeInv, IInv, Stopping, Drained
  <2>2. \A d \in Dispatches : pc[d] \in {"idle", "gone", "ended"}
    BY <1>1, <2>1 DEF HomeInv, IInv, TypeOK, RegistryType, OwnerPC, Tokens, Live
  <2>3. Granted(g) = ReleasedOf(g) \cup left /\ ReleasedOf(g) \cap left = {}
    <3>1. Granted(g) \subseteq ReleasedOf(g) \cup left
      BY <1>1, <2>2, ConstantsAssumption
      DEF HomeInv, Admissions, Granted, ReleasedOf, Released, Unresolved
    <3>2. left \subseteq Granted(g) /\ ReleasedOf(g) \cap left = {}
      BY <1>1 DEF HomeInv, HomeType, Admissions, Granted, ReleasedOf, Released
    <3> QED
      BY <1>1, <3>1, <3>2, ReleasedWasGranted
  <2>4. /\ admitted[g] = releaseSequences[g] + Cardinality(left)
        /\ releaseSequences[g] \in Nat /\ Cardinality(left) \in Nat
    <3>1. /\ IsFiniteSet(Granted(g)) /\ IsFiniteSet(ReleasedOf(g))
          /\ releaseSequences[g] = Cardinality(ReleasedOf(g)) /\ releaseSequences[g] \in Nat
          /\ admitted[g] = Cardinality(Granted(g))
      BY <1>1, GroupCounts, ConstantsAssumption DEF HomeInv, IInv, Admissions
    <3>2. IsFiniteSet(left)
      BY <2>3, <3>1, FS_Subset
    <3>3. Cardinality(ReleasedOf(g) \cup left) =
            Cardinality(ReleasedOf(g)) + Cardinality(left) - Cardinality(ReleasedOf(g) \cap left)
      BY <3>1, <3>2, FS_Union
    <3>4. Cardinality(ReleasedOf(g) \cap left) = 0 /\ Cardinality(left) \in Nat
      BY <2>3, <3>2, FS_EmptySet, FS_CardinalityType
    <3> HIDE DEF left
    <3> QED
      BY <2>3, <3>1, <3>3, <3>4
  <2>5. releaseSequences[g] <= latest[g] /\ latest[g] \in Nat
    <3>1. latest[g] \in Nat
      BY <1>1, HomeAssumption DEF HomeInv, FP!FlusherInv, FP!FlusherTypeOK
    <3>2. CASE releaseSequences[g] = 0
      BY <3>1, <3>2
    <3>3. CASE releaseSequences[g] > 0
      <4>1. releaseSink \in Sinks
        BY <1>1, <3>3, NothingBeforeSink DEF HomeInv, IInv, TypeOK, ReleaseType
      <4>2. InFlightReports = {} /\ replay = {}
        BY <1>1, <2>2 DEF InFlightReports, HomeInv, Reports
      <4>3. <<releaseSink, g, releaseSequences[g]>> \in received
        BY <1>1, <3>3, <4>1, <4>2, ConstantsAssumption DEF HomeInv, IInv, NoReleaseIsLost
      <4> QED
        BY <1>1, <2>4, <3>1, <4>1, <4>3 DEF HomeInv, Reports
    <3> QED
      BY <2>4, <3>2, <3>3
  <2>6. /\ latest[g] <= acked[g] /\ acked[g] <= applied[g] /\ applied[g] <= latest[g]
        /\ latest[g] <= releaseSequences[g] /\ acked[g] \in Nat /\ applied[g] \in Nat
    BY <1>1, HomeAssumption
    DEF HomeInv, Stopping, FP!FlusherInv, FP!FlusherTypeOK, FP!AckedIsApplied, Reports
  <2> HIDE DEF left
  <2>7. Outstanding(g) = Cardinality(left)
    BY <2>4, <2>5, <2>6 DEF Outstanding
  <2> QED
    BY <2>7 DEF left
<1>2. HomeInv => StopSettlesHome
  BY <1>1 DEF StopSettlesHome
<1> QED
  BY <1>2, HomeInvariance, PTL
=============================================================================
