---------------------- MODULE ExecutionRegistryProofs ----------------------
(***************************************************************************)
(* The safety properties of ExecutionRegistry, proved for any number of    *)
(* tokens, groups, sinks and concurrent Drain, Close and WaitPending calls. *)
(*                                                                         *)
(* The frame lemmas say which operations touch which part of the state;    *)
(* with them each conjunct of the inductive invariant IInv is proved       *)
(* against the operations that can disturb it.                             *)
(***************************************************************************)
EXTENDS ExecutionRegistry, FiniteSetTheorems, TLAPS

(* BeginDispatch tested the bound on r.next before it took the mutex's      *)
(* second step.                                                            *)
ReserveBelowLimit == mu = Holding("begin", 0) => next < MaxDispatch

(* Only requests, DrainStart, DrainCheck and CloseSwap change the state    *)
(* word and the maps.                                                      *)
LEMMA RegistryFrame ==
  ASSUME [Next]_vars
  PROVE  \/ UNCHANGED registryVars
         \/ Begin
         \/ \E d \in Dispatches : Resolve(d) \/ Binding(d) \/ End(d)
         \/ \E x \in Drainers : DrainStart(x) \/ DrainCheck(x)
         \/ \E x \in Closers : CloseSwap(x)
  BY DEF Next, vars, CloseResource, SetReleaseSink, ReplaySequence, Drain,
         DrainSnapshot, DrainVisit, DrainTimeout, Close, CloseEnter,
         CloseSnapshot, CloseVisit, CloseJoin, CloseFinish, CloseAwait,
         WaitPending, WaitPendingStart, WaitPendingCheck, WaitPendingTimeout,
         ObserveBarrier, FreezeInFlight

(* Only EndWithRelease and SetReleaseSink change the release bookkeeping.  *)
LEMMA ReleaseFrame ==
  ASSUME [Next]_vars
  PROVE  \/ UNCHANGED releaseVars
         \/ \E d \in Dispatches : EndMarkReleased(d) \/ EndReport(d)
         \/ \E s \in Sinks \cup {"none"} : SetReleaseSink(s)
         \/ \E g \in Groups : ReplaySequence(g)
  BY DEF Next, vars, Begin, BeginDispatch, BeginDispatchReserve, Resolve, PendingEnd, InstallRefused, Install, InstallScope,
         Binding, Bind, BindResource, End, EndDeactivate, EndCloseResource, EndRemove, CloseResource, Drain,
         DrainStart, DrainCheck, DrainSnapshot, DrainVisit, DrainTimeout, Close, CloseEnter, CloseSwap,
         CloseSnapshot, CloseVisit, CloseJoin, CloseFinish, CloseAwait,
         WaitPending, WaitPendingStart, WaitPendingCheck, WaitPendingTimeout,
         ObserveBarrier, FreezeInFlight

(* Every step keeps the types of the state word, the mutex and the maps.   *)
LEMMA RegistryTypeStep ==
  ASSUME RegistryType, ReserveBelowLimit, [Next]_vars
  PROVE  RegistryType'
<1> USE ConstantsAssumption DEF RegistryType
<1>1. CASE UNCHANGED registryVars
  BY <1>1 DEF registryVars
<1>2. CASE BeginDispatch
  BY <1>2 DEF BeginDispatch, MuStates
<1>3. CASE BeginDispatchReserve
  <2>1. next + 1 \in Dispatches
    BY <1>3 DEF BeginDispatchReserve, ReserveBelowLimit, Dispatches
  <2>2. next' \in 0 .. MaxDispatch /\ pending' \subseteq Dispatches
    BY <1>3, <2>1 DEF BeginDispatchReserve, Dispatches
  <2>3. pc' \in [Dispatches -> OwnerPC]
    BY <1>3, <2>1 DEF BeginDispatchReserve, OwnerPC
  <2>4. mu' \in MuStates
    BY <1>3 DEF BeginDispatchReserve, MuStates
  <2> QED
    BY <1>3, <2>2, <2>3, <2>4 DEF BeginDispatchReserve
<1>4. ASSUME NEW d \in Dispatches, PendingEnd(d) PROVE RegistryType'
  BY <1>4 DEF PendingEnd, OwnerPC
<1>5. ASSUME NEW d \in Dispatches, InstallRefused(d) PROVE RegistryType'
  BY <1>5 DEF InstallRefused, OwnerPC
<1>6. ASSUME NEW d \in Dispatches, Install(d) PROVE RegistryType'
  BY <1>6 DEF Install, MuStates
<1>7. ASSUME NEW d \in Dispatches, NEW g \in Groups \cup {"none"}, InstallScope(d, g)
      PROVE  RegistryType'
  BY <1>7 DEF InstallScope, OwnerPC, MuStates
<1>8. ASSUME NEW d \in Dispatches, Binding(d) PROVE RegistryType'
  BY <1>8 DEF Binding, Bind, BindResource, MuStates
<1>9. ASSUME NEW d \in Dispatches, End(d) PROVE RegistryType'
  BY <1>9 DEF End, EndDeactivate, EndCloseResource, EndMarkReleased, EndReport,
              EndRemove, OwnerPC
<1>10. ASSUME NEW x \in Drainers, DrainStart(x) \/ DrainCheck(x) PROVE RegistryType'
  BY <1>10 DEF DrainStart, DrainCheck, Lifecycle
<1>11. ASSUME NEW x \in Closers, CloseSwap(x) PROVE RegistryType'
  BY <1>11 DEF CloseSwap, Lifecycle
<1> QED
  BY <1>1, <1>2, <1>3, <1>4, <1>5, <1>6, <1>7, <1>8, <1>9, <1>10, <1>11, RegistryFrame
  DEF Begin, Resolve

(* A resource changes only by Bind, by its close goroutine and by the      *)
(* operations that start a close.                                          *)
LEMMA ResourceFrame ==
  ASSUME [Next]_vars
  PROVE  \/ UNCHANGED resource
         \/ \E d \in Dispatches : BindResource(d) \/ EndCloseResource(d) \/ CloseResource(d)
         \/ \E x \in Drainers : DrainVisit(x)
         \/ \E x \in Closers : CloseVisit(x)
  BY DEF Next, vars, Begin, BeginDispatch, BeginDispatchReserve, Resolve, PendingEnd,
         InstallRefused, Install, InstallScope, Binding, Bind, End, EndDeactivate,
         EndMarkReleased, EndReport, EndRemove, SetReleaseSink, ReplaySequence, Drain,
         DrainStart, DrainSnapshot, DrainCheck, DrainTimeout, Close, CloseEnter, CloseSwap,
         CloseSnapshot, CloseJoin, CloseFinish, CloseAwait, WaitPending,
         WaitPendingStart, WaitPendingCheck, WaitPendingTimeout, ObserveBarrier,
         FreezeInFlight

(* The stopping calls change by their own steps and by signalLocked.       *)
LEMMA StopFrame ==
  ASSUME [Next]_vars
  PROVE  \/ UNCHANGED stopVars
         \/ SignalLocked
         \/ \E x \in Drainers : Drain(x) \/ DrainTimeout(x)
         \/ \E x \in Closers : Close(x)
         \/ \E x \in Waiters : WaitPending(x) \/ WaitPendingTimeout(x)
  BY DEF Next, vars, Begin, BeginDispatch, BeginDispatchReserve, Resolve, PendingEnd,
         InstallRefused, Install, InstallScope, Binding, Bind, BindResource, End,
         EndDeactivate, EndCloseResource, EndMarkReleased, EndReport, EndRemove,
         CloseResource, SetReleaseSink, ReplaySequence, ObserveBarrier, FreezeInFlight

(* Only ObserveBarrier and FreezeInFlight change the barrier bookkeeping.  *)
LEMMA ObservationFrame ==
  ASSUME [Next]_vars
  PROVE  \/ UNCHANGED observationVars
         \/ \E b \in 1 .. MaxBarrier : ObserveBarrier(b)
         \/ \E revision \in 1 .. MaxFreeze : FreezeInFlight(revision)
  BY DEF Next, vars, Begin, BeginDispatch, BeginDispatchReserve, Resolve, PendingEnd,
         InstallRefused, Install, InstallScope, Binding, Bind, BindResource, End,
         EndDeactivate, EndCloseResource, EndMarkReleased, EndReport, EndRemove,
         CloseResource, SetReleaseSink, ReplaySequence, Drain, DrainStart,
         DrainSnapshot, DrainVisit, DrainCheck, DrainTimeout, Close, CloseEnter,
         CloseSwap, CloseSnapshot, CloseVisit, CloseJoin, CloseFinish, CloseAwait,
         WaitPending, WaitPendingStart, WaitPendingCheck, WaitPendingTimeout

(* Every step keeps the type of the resources.                             *)
LEMMA ResourceTypeStep ==
  ASSUME TypeOK, [Next]_vars
  PROVE  ResourceType'
<1> USE DEF TypeOK, ResourceType
<1>1. CASE UNCHANGED resource
  BY <1>1
<1>2. ASSUME NEW d \in Dispatches, BindResource(d) \/ EndCloseResource(d) \/ CloseResource(d)
      PROVE  ResourceType'
  BY <1>2 DEF BindResource, EndCloseResource, StartClose, CloseResource
<1>3. ASSUME NEW x \in Drainers, DrainVisit(x) PROVE ResourceType'
  BY <1>3 DEF DrainVisit, StartClose, StopType
<1>4. ASSUME NEW x \in Closers, CloseVisit(x) PROVE ResourceType'
  BY <1>4 DEF CloseVisit, StartClose, StopType
<1> QED
  BY <1>1, <1>2, <1>3, <1>4, ResourceFrame

(* Every step keeps the types of the release bookkeeping.                  *)
LEMMA ReleaseTypeStep ==
  ASSUME TypeOK, [Next]_vars
  PROVE  ReleaseType'
<1> USE DEF TypeOK, ReleaseType
<1>1. CASE UNCHANGED releaseVars
  BY <1>1 DEF releaseVars
<1>2. ASSUME NEW d \in Dispatches, EndMarkReleased(d) PROVE ReleaseType'
  BY <1>2 DEF EndMarkReleased, MarkReleasedLocked, RegistryType
<1>3. ASSUME NEW d \in Dispatches, EndReport(d) PROVE ReleaseType'
  BY <1>3 DEF EndReport, RegistryType, Calls
<1>4. ASSUME NEW s \in Sinks \cup {"none"}, SetReleaseSink(s) PROVE ReleaseType'
  BY <1>4 DEF SetReleaseSink, Calls
<1>5. CASE \E g \in Groups : ReplaySequence(g)
  BY <1>5 DEF ReplaySequence
<1> QED
  BY <1>1, <1>2, <1>3, <1>4, <1>5, ReleaseFrame

(* Every step keeps the types of the stopping calls.                       *)
LEMMA StopTypeStep ==
  ASSUME TypeOK, [Next]_vars
  PROVE  StopType'
<1> USE DEF TypeOK, StopType
<1>1. CASE UNCHANGED stopVars
  BY <1>1 DEF stopVars
<1>2. CASE SignalLocked
  BY <1>2 DEF SignalLocked, Wake, DrainPC, WaitPC
<1>3. ASSUME NEW x \in Drainers, DrainStart(x) \/ DrainCheck(x) \/ DrainTimeout(x)
      PROVE  StopType'
  BY <1>3 DEF DrainStart, DrainCheck, DrainTimeout, DrainPC
<1>4. ASSUME NEW x \in Drainers, DrainSnapshot(x) \/ DrainVisit(x) PROVE StopType'
  BY <1>4 DEF DrainSnapshot, DrainVisit, DrainPC, RegistryType
<1>5. ASSUME NEW x \in Closers, CloseEnter(x) \/ CloseSwap(x) PROVE StopType'
  BY <1>5 DEF CloseEnter, CloseSwap, ClosePC
<1>6. ASSUME NEW x \in Closers, CloseSnapshot(x) PROVE StopType'
  BY <1>6 DEF CloseSnapshot, ClosePC, RegistryType
<1>7. ASSUME NEW x \in Closers, CloseVisit(x) PROVE StopType'
  BY <1>7, ConstantsAssumption DEF CloseVisit, ClosePC, Dispatches
<1>8. ASSUME NEW x \in Closers, CloseJoin(x) \/ CloseFinish(x) \/ CloseAwait(x)
      PROVE  StopType'
  BY <1>8 DEF CloseJoin, CloseFinish, CloseAwait, ClosePC
<1>9. ASSUME NEW x \in Waiters, WaitPending(x) \/ WaitPendingTimeout(x) PROVE StopType'
  BY <1>9 DEF WaitPending, WaitPendingStart, WaitPendingCheck, WaitPendingTimeout, WaitPC
<1> QED
  BY <1>1, <1>2, <1>3, <1>4, <1>5, <1>6, <1>7, <1>8, <1>9, StopFrame DEF Drain, Close

(* Every step keeps the types of the barrier bookkeeping.                  *)
LEMMA ObservationTypeStep ==
  ASSUME TypeOK, [Next]_vars
  PROVE  ObservationType'
<1> USE DEF TypeOK, ObservationType, RegistryType
<1>1. CASE UNCHANGED observationVars
  BY <1>1 DEF observationVars
<1>2. ASSUME NEW b \in 1 .. MaxBarrier, ObserveBarrier(b) PROVE ObservationType'
  BY <1>2, ConstantsAssumption DEF ObserveBarrier
<1>3. CASE \E revision \in 1 .. MaxFreeze : FreezeInFlight(revision)
  BY <1>3, ConstantsAssumption DEF FreezeInFlight, FreezeBarrier
<1> QED
  BY <1>1, <1>2, <1>3, ObservationFrame

-----------------------------------------------------------------------------
(* The strengthening.  Tokens says what the maps hold and what the holder  *)
(* of the mutex has tested.                                                *)

Live == {"installed", "deactivated", "closing", "marked", "reported"}

Tokens ==
  /\ ReserveBelowLimit
  /\ pending = {d \in Dispatches : pc[d] = "pending"}
  /\ scopes = {d \in Dispatches : pc[d] \in Live}
  /\ \A d \in Dispatches : pc[d] = "idle" <=> d > next
  /\ \A d \in Dispatches : mu = Holding("install", d) => pc[d] = "pending"
  /\ \A d \in Dispatches : mu = Holding("bind", d)
                              => pc[d] = "installed" /\ resource[d] = "none"

Resources ==
  \A d \in Dispatches :
    /\ pc[d] \in {"idle", "pending", "gone"} => resource[d] = "none"
    /\ pc[d] = "closing" => resource[d] # "bound"
    /\ pc[d] \in Released => resource[d] \in {"none", "closed"}

(* A resource goes from none to bound to closing to closed, and is bound   *)
(* by Bind alone.                                                          *)
LEMMA ResourceProgress ==
  ASSUME TypeOK, [Next]_vars, NEW d \in Dispatches
  PROVE  \/ resource'[d] = resource[d]
         \/ resource'[d] = "bound" /\ BindResource(d)
         \/ resource[d] = "bound" /\ resource'[d] = "closing"
         \/ resource[d] = "closing" /\ resource'[d] = "closed"
<1> USE DEF TypeOK, ResourceType
<1>1. CASE UNCHANGED resource
  BY <1>1
<1>2. ASSUME NEW e \in Dispatches, BindResource(e) \/ EndCloseResource(e) \/ CloseResource(e)
      PROVE  \/ resource'[d] = resource[d]
             \/ resource'[d] = "bound" /\ BindResource(d)
             \/ resource[d] = "bound" /\ resource'[d] = "closing"
             \/ resource[d] = "closing" /\ resource'[d] = "closed"
  BY <1>2 DEF BindResource, EndCloseResource, StartClose, CloseResource
<1>3. ASSUME NEW x \in Drainers, DrainVisit(x)
      PROVE  resource'[d] = resource[d] \/ (resource[d] = "bound" /\ resource'[d] = "closing")
  BY <1>3 DEF DrainVisit, StartClose
<1>4. ASSUME NEW x \in Closers, CloseVisit(x)
      PROVE  resource'[d] = resource[d] \/ (resource[d] = "bound" /\ resource'[d] = "closing")
  BY <1>4 DEF CloseVisit, StartClose
<1> QED
  BY <1>1, <1>2, <1>3, <1>4, ResourceFrame

(* Every step keeps the maps in agreement with where the owners of the     *)
(* tokens stand.                                                           *)
LEMMA TokensStep ==
  ASSUME TypeOK, Tokens, [Next]_vars
  PROVE  Tokens'
<1> USE DEF TypeOK, Tokens, RegistryType, ReserveBelowLimit, Live, Holding, MuFree
<1>1. ASSUME UNCHANGED registryVars PROVE Tokens'
  <2>1. \A d \in Dispatches : mu = Holding("bind", d) => resource'[d] = "none"
    BY <1>1, ResourceProgress DEF registryVars, BindResource
  <2> QED
    BY <1>1, <2>1 DEF registryVars
<1>2. CASE BeginDispatch
  BY <1>2 DEF BeginDispatch
<1>3. CASE BeginDispatchReserve
  BY <1>3, ConstantsAssumption DEF BeginDispatchReserve, Dispatches
<1>4. ASSUME NEW d \in Dispatches, PendingEnd(d) PROVE Tokens'
  BY <1>4 DEF PendingEnd
<1>5. ASSUME NEW d \in Dispatches, InstallRefused(d) PROVE Tokens'
  BY <1>5 DEF InstallRefused
<1>6. ASSUME NEW d \in Dispatches, Install(d) PROVE Tokens'
  BY <1>6 DEF Install
<1>7. ASSUME NEW d \in Dispatches, NEW g \in Groups \cup {"none"}, InstallScope(d, g)
      PROVE  Tokens'
  BY <1>7 DEF InstallScope
<1>8. ASSUME NEW d \in Dispatches, Binding(d) PROVE Tokens'
  BY <1>8 DEF Binding, Bind, BindResource
<1>9. ASSUME NEW d \in Dispatches, End(d) PROVE Tokens'
  <2>1. CASE EndDeactivate(d) \/ EndMarkReleased(d)
    BY <2>1 DEF EndDeactivate, EndMarkReleased
  <2>2. CASE EndCloseResource(d)
    BY <2>2 DEF EndCloseResource, StartClose, ResourceType
  <2>3. CASE EndReport(d)
    BY <2>3 DEF EndReport
  <2>4. CASE EndRemove(d)
    BY <2>4 DEF EndRemove
  <2> QED
    BY <1>9, <2>1, <2>2, <2>3, <2>4 DEF End
<1>10. ASSUME NEW x \in Drainers, DrainStart(x) \/ DrainCheck(x) PROVE Tokens'
  BY <1>10 DEF DrainStart, DrainCheck
<1>11. ASSUME NEW x \in Closers, CloseSwap(x) PROVE Tokens'
  BY <1>11 DEF CloseSwap
<1> QED
  BY <1>1, <1>2, <1>3, <1>4, <1>5, <1>6, <1>7, <1>8, <1>9, <1>10, <1>11, RegistryFrame
  DEF Begin, Resolve

(* Every step keeps the resources in agreement with where the owners of    *)
(* the tokens stand.                                                       *)
LEMMA ResourcesStep ==
  ASSUME TypeOK, Tokens, Resources, [Next]_vars
  PROVE  Resources'
<1> USE DEF TypeOK, Resources, RegistryType, ResourceType, Released
<1>1. ASSUME UNCHANGED registryVars PROVE Resources'
  BY <1>1, ResourceProgress DEF registryVars, BindResource, Tokens
<1>2. CASE Begin
  BY <1>2, ConstantsAssumption
  DEF Begin, BeginDispatch, BeginDispatchReserve, Tokens, ReserveBelowLimit, Dispatches
<1>3. ASSUME NEW d \in Dispatches, Resolve(d) PROVE Resources'
  BY <1>3 DEF Resolve, PendingEnd, InstallRefused, Install, InstallScope, Tokens
<1>4. ASSUME NEW d \in Dispatches, Binding(d) PROVE Resources'
  BY <1>4 DEF Binding, Bind, BindResource, Tokens
<1>5. ASSUME NEW d \in Dispatches, End(d) PROVE Resources'
  BY <1>5 DEF End, EndDeactivate, EndCloseResource, StartClose, EndMarkReleased,
              EndReport, EndRemove
<1>6. ASSUME NEW x \in Drainers, DrainStart(x) \/ DrainCheck(x) PROVE Resources'
  BY <1>6 DEF DrainStart, DrainCheck
<1>7. ASSUME NEW x \in Closers, CloseSwap(x) PROVE Resources'
  BY <1>7 DEF CloseSwap
<1> QED
  BY <1>1, <1>2, <1>3, <1>4, <1>5, <1>6, <1>7, RegistryFrame

-----------------------------------------------------------------------------
(* Drain: once it returned nil, nobody holds the mutex with a token to add. *)

Drained ==
  (\E x \in Drainers : drain[x] = "done")
    => state = "closed" /\ pending = {} /\ scopes = {} /\ mu # Holding("begin", 0)

(* A drained registry stays empty: nobody holds the mutex with a token to  *)
(* add.                                                                    *)
LEMMA DrainedStep ==
  ASSUME TypeOK, Tokens, Drained, [Next]_vars
  PROVE  Drained'
<1> USE DEF TypeOK, Drained
<1>1. CASE \E x \in Drainers : DrainCheck(x)
  BY <1>1 DEF DrainCheck, MuFree, Holding, StopType
<1>2. CASE ~ \E x \in Drainers : DrainCheck(x)
  <2>1. (\E x \in Drainers : drain'[x] = "done") => (\E x \in Drainers : drain[x] = "done")
    <3>1. CASE UNCHANGED drain
      BY <3>1
    <3>2. CASE SignalLocked
      BY <3>2 DEF SignalLocked, Wake, StopType
    <3>3. ASSUME NEW x \in Drainers,
                 DrainStart(x) \/ DrainSnapshot(x) \/ DrainVisit(x) \/ DrainTimeout(x)
          PROVE  (\E y \in Drainers : drain'[y] = "done") => (\E y \in Drainers : drain[y] = "done")
      BY <3>3 DEF DrainStart, DrainSnapshot, DrainVisit, DrainTimeout, StopType
    <3> QED
      BY <1>2, <3>1, <3>2, <3>3, StopFrame
      DEF stopVars, Drain, Close, CloseEnter, CloseSwap, CloseSnapshot, CloseVisit, CloseJoin,
          CloseFinish, CloseAwait, WaitPending, WaitPendingStart, WaitPendingCheck,
          WaitPendingTimeout
  <2> SUFFICES ASSUME state = "closed", pending = {}, scopes = {}, mu # Holding("begin", 0)
               PROVE  state' = "closed" /\ pending' = {} /\ scopes' = {} /\ mu' # Holding("begin", 0)
    BY <2>1
  <2>2. CASE UNCHANGED registryVars
    BY <2>2 DEF registryVars
  <2>3. ~Begin
    BY DEF Begin, BeginDispatch, BeginDispatchReserve
  <2>4. ASSUME NEW d \in Dispatches PROVE ~Resolve(d) /\ ~Binding(d) /\ ~End(d)
    BY DEF Tokens, Live, Resolve, PendingEnd, InstallRefused, Install, InstallScope,
           Binding, Bind, BindResource, End, EndDeactivate, EndCloseResource,
           EndMarkReleased, EndReport, EndRemove
  <2>5. ASSUME NEW x \in Drainers, DrainStart(x)
        PROVE  state' = "closed" /\ UNCHANGED <<pending, scopes, mu>>
    BY <2>5 DEF DrainStart
  <2>6. ASSUME NEW x \in Closers, CloseSwap(x)
        PROVE  state' = "closed" /\ UNCHANGED <<pending, scopes, mu>>
    BY <2>6 DEF CloseSwap
  <2> QED
    BY <1>2, <2>2, <2>3, <2>4, <2>5, <2>6, RegistryFrame
<1> QED
  BY <1>1, <1>2

-----------------------------------------------------------------------------
(* Close: a resource that is still open is one the call has still to visit *)
(* or the one it waits for.                                                *)

NotBinding == \A d \in Dispatches : mu # Holding("bind", d)

NoOpenResource ==
  /\ state = "closed"
  /\ NotBinding
  /\ \A d \in Dispatches : resource[d] \in {"none", "closed"}

StillOpen(x, d) ==
  \/ resource[d] \in {"none", "closed"}
  \/ d \in toClose[x]
  \/ closing[x] = "join" /\ d = joining[x] /\ resource[d] = "closing"

Closing ==
  /\ closeOnce = "done" \/ (closeOnce = "no" /\ state = "closed") => NoOpenResource
  /\ \A x \in Closers :
       /\ closing[x] = "done" => NoOpenResource
       /\ closing[x] \in {"swap", "snapshot", "visit", "join"} => closeOnce # "no"
       /\ closing[x] \in {"snapshot", "visit", "join"} => state = "closed"
       /\ closing[x] \in {"visit", "join"} =>
            NotBinding /\ \A d \in Dispatches : StillOpen(x, d)

(* The registry never leaves the closed state, and no Bind starts in it.   *)
LEMMA ClosedIsFinal ==
  ASSUME TypeOK, [Next]_vars, state = "closed"
  PROVE  state' = "closed" /\ (NotBinding => NotBinding')
<1> USE DEF NotBinding, Holding, MuFree
<1>1. CASE UNCHANGED registryVars
  BY <1>1 DEF registryVars
<1>2. CASE Begin
  BY <1>2 DEF Begin, BeginDispatch, BeginDispatchReserve
<1>3. ASSUME NEW d \in Dispatches, Resolve(d) \/ Binding(d) \/ End(d)
      PROVE  state' = "closed" /\ (NotBinding => NotBinding')
  BY <1>3 DEF Resolve, PendingEnd, InstallRefused, Install, InstallScope, Binding,
              Bind, BindResource, End, EndDeactivate, EndCloseResource, EndMarkReleased,
              EndReport, EndRemove
<1>4. ASSUME NEW x \in Drainers, DrainStart(x) \/ DrainCheck(x)
      PROVE  state' = "closed" /\ (NotBinding => NotBinding')
  BY <1>4 DEF DrainStart, DrainCheck
<1>5. ASSUME NEW x \in Closers, CloseSwap(x)
      PROVE  state' = "closed" /\ (NotBinding => NotBinding')
  BY <1>5 DEF CloseSwap
<1> QED
  BY <1>1, <1>2, <1>3, <1>4, <1>5, RegistryFrame

(* With no Bind under way no resource is opened.                           *)
LEMMA ClosedResourcesStayClosed ==
  ASSUME TypeOK, [Next]_vars, NotBinding, NEW d \in Dispatches
  PROVE  /\ resource[d] \in {"none", "closed"} => resource'[d] = resource[d]
         /\ resource[d] = "closing" => resource'[d] \in {"closing", "closed"}
  BY ResourceProgress DEF NotBinding, BindResource, Holding

(* A closed registry without open resources stays so.                      *)
LEMMA NoOpenResourceIsFinal ==
  ASSUME TypeOK, [Next]_vars, NoOpenResource
  PROVE  NoOpenResource'
  BY ClosedIsFinal, ClosedResourcesStayClosed DEF NoOpenResource

(* A resource that is open belongs to a scope that Close finds in          *)
(* r.scopes.                                                               *)
LEMMA OpenResourceIsScope ==
  ASSUME TypeOK, Tokens, Resources
  PROVE  \A d \in Dispatches : resource[d] \in {"none", "closed"} \/ d \in scopes
  BY DEF TypeOK, RegistryType, ResourceType, Tokens, Resources, Live, Released, OwnerPC

(* The part of Closing about one call, when no call of Close takes a step. *)
LEMMA StillOpenStep ==
  ASSUME TypeOK, [Next]_vars, NotBinding, NEW x \in Closers,
         toClose'[x] = toClose[x], joining'[x] = joining[x], closing'[x] = closing[x],
         NEW d \in Dispatches, StillOpen(x, d)
  PROVE  StillOpen(x, d)'
  BY ClosedResourcesStayClosed DEF StillOpen, TypeOK, ResourceType

(* Every step keeps the open resources within reach of the Close call at   *)
(* work.                                                                   *)
LEMMA ClosingStep ==
  ASSUME TypeOK, Tokens, Resources, Closing, [Next]_vars
  PROVE  Closing'
<1> USE DEF TypeOK, StopType
<1>1. ASSUME NEW y \in Closers, Close(y) PROVE Closing'
  <2>0. /\ \A x \in Closers \ {y} :
              closing'[x] = closing[x] /\ joining'[x] = joining[x] /\ toClose'[x] = toClose[x]
    BY <1>1 DEF Close, CloseEnter, CloseSwap, CloseSnapshot, CloseVisit, CloseJoin,
                CloseFinish, CloseAwait
  <2>a. \A x \in Closers \ {y}, d \in Dispatches :
           NotBinding /\ StillOpen(x, d) => StillOpen(x, d)'
    BY <2>0, StillOpenStep
  <2>1. CASE CloseEnter(y)
    BY <2>1, <2>0, <2>a, NoOpenResourceIsFinal, ClosedIsFinal DEF CloseEnter, Closing, registryVars
  <2>2. CASE CloseSwap(y)
    BY <2>2, <2>0, <2>a, NoOpenResourceIsFinal, ClosedIsFinal DEF CloseSwap, Closing
  <2>3. CASE CloseSnapshot(y)
    <3>1. NotBinding' /\ \A d \in Dispatches : StillOpen(y, d)'
      BY <2>3, OpenResourceIsScope
      DEF CloseSnapshot, StillOpen, NotBinding, MuFree, Holding, registryVars
    <3> QED
      BY <2>3, <3>1, <2>0, <2>a, NoOpenResourceIsFinal, ClosedIsFinal
      DEF CloseSnapshot, Closing, registryVars
  <2>4. CASE CloseVisit(y)
    <3>1. NotBinding /\ NotBinding' /\ state' = "closed" /\ closeOnce' # "no"
      BY <2>4, ClosedIsFinal DEF CloseVisit, Closing
    <3>2. ASSUME NEW d \in Dispatches PROVE StillOpen(y, d)'
      <4>1. PICK e \in toClose[y] :
              /\ StartClose(e)
              /\ toClose' = [toClose EXCEPT ![y] = @ \ {e}]
              /\ joining' = [joining EXCEPT ![y] = e]
        BY <2>4 DEF CloseVisit
      <4>2. toClose'[y] = toClose[y] \ {e} /\ joining'[y] = e /\ closing'[y] = "join"
        BY <2>4, <4>1 DEF CloseVisit
      <4>3. resource'[d] = IF d = e /\ resource[d] = "bound" THEN "closing" ELSE resource[d]
        BY <4>1 DEF StartClose, ResourceType
      <4>4. StillOpen(y, d)
        BY <2>4 DEF CloseVisit, Closing
      <4> QED
        BY <2>4, <4>2, <4>3, <4>4 DEF StillOpen, CloseVisit, ResourceType
    <3> QED
      BY <2>4, <3>1, <3>2, <2>0, <2>a, NoOpenResourceIsFinal, ClosedIsFinal
      DEF CloseVisit, Closing
  <2>5. CASE CloseJoin(y)
    <3>1. NotBinding' /\ \A d \in Dispatches : StillOpen(y, d)'
      BY <2>5, ClosedIsFinal DEF CloseJoin, Closing, StillOpen
    <3> QED
      BY <2>5, <3>1, <2>0, <2>a, NoOpenResourceIsFinal, ClosedIsFinal DEF CloseJoin, Closing
  <2>6. CASE CloseFinish(y)
    <3>1. NoOpenResource
      BY <2>6 DEF CloseFinish, Closing, NoOpenResource, StillOpen
    <3> QED
      BY <2>6, <3>1, <2>0, <2>a, NoOpenResourceIsFinal, ClosedIsFinal DEF CloseFinish, Closing
  <2>7. CASE CloseAwait(y)
    BY <2>7, <2>0, <2>a, NoOpenResourceIsFinal, ClosedIsFinal DEF CloseAwait, Closing
  <2> QED
    BY <1>1, <2>1, <2>2, <2>3, <2>4, <2>5, <2>6, <2>7 DEF Close
<1>2. CASE ~ \E y \in Closers : Close(y)
  <2>1. /\ UNCHANGED <<closing, joining, closeOnce>>
        /\ \A x \in Closers : toClose'[x] = toClose[x]
    <3>1. ASSUME NEW y \in Drainers, Drain(y) \/ DrainTimeout(y)
          PROVE  /\ UNCHANGED <<closing, joining, closeOnce>>
                 /\ \A x \in Closers : toClose'[x] = toClose[x]
      BY <3>1, ConstantsAssumption
      DEF Drain, DrainStart, DrainSnapshot, DrainVisit, DrainCheck, DrainTimeout
    <3> QED
      BY <1>2, <3>1, StopFrame
      DEF stopVars, SignalLocked, WaitPending, WaitPendingStart, WaitPendingCheck,
          WaitPendingTimeout
  <2>2. \A x \in Closers, d \in Dispatches : NotBinding /\ StillOpen(x, d) => StillOpen(x, d)'
    BY <2>1, StillOpenStep
  <2>3. closeOnce = "no" /\ state' = "closed" => NoOpenResource'
    <3>1. CASE state = "closed"
      BY <3>1, NoOpenResourceIsFinal DEF Closing
    <3>2. ASSUME NEW x \in Drainers, DrainCheck(x), state' = "closed"
          PROVE  state = "closed" \/ NoOpenResource'
      BY <3>2, OpenResourceIsScope
      DEF DrainCheck, NoOpenResource, NotBinding, Holding, MuFree
    <3>3. state' = "closed" => state = "closed" \/ \E x \in Drainers : DrainCheck(x)
      BY <1>2, RegistryFrame
      DEF registryVars, Begin, BeginDispatch, BeginDispatchReserve, Resolve, PendingEnd,
          InstallRefused, Install, InstallScope, Binding, Bind, BindResource, End,
          EndDeactivate, EndCloseResource, EndMarkReleased, EndReport, EndRemove,
          DrainStart, Close
    <3> QED
      BY <3>1, <3>2, <3>3
  <2> QED
    BY <2>1, <2>2, <2>3, NoOpenResourceIsFinal, ClosedIsFinal DEF Closing
<1> QED
  BY <1>1, <1>2

-----------------------------------------------------------------------------
(* Releases *)

(* A scope counts as released from its own EndMarkReleased on, and its     *)
(* group is fixed by then.                                                 *)
LEMMA MarkedOnlyByEnd ==
  ASSUME TypeOK, Tokens, [Next]_vars, NEW d \in Dispatches
  PROVE  /\ pc[d] \in Released => group'[d] = group[d] /\ pc'[d] \in Released
         /\ pc'[d] \in Released => pc[d] \in Released \/ EndMarkReleased(d)
         /\ pc'[d] = "marked" => pc[d] = "marked" \/ EndMarkReleased(d)
         /\ pc[d] = "marked" => pc'[d] = "marked" \/ EndReport(d)
<1> USE DEF TypeOK, RegistryType, Tokens, Released
<1>1. CASE UNCHANGED registryVars
  BY <1>1 DEF registryVars
<1>2. CASE Begin
  BY <1>2, ConstantsAssumption
  DEF Begin, BeginDispatch, BeginDispatchReserve, ReserveBelowLimit, Dispatches
<1>3. ASSUME NEW e \in Dispatches, Resolve(e) \/ Binding(e)
      PROVE  UNCHANGED <<pc[d], group[d]>> \/ {pc[d], pc'[d]} \cap Released = {}
  BY <1>3 DEF Resolve, PendingEnd, InstallRefused, Install, InstallScope, Binding, Bind,
              BindResource
<1>4. ASSUME NEW e \in Dispatches, End(e)
      PROVE  /\ group'[d] = group[d]
             /\ e # d => pc'[d] = pc[d]
             /\ e = d /\ pc[d] \in Released => pc'[d] \in Released \ {"marked"}
             /\ e = d /\ pc[d] = "marked" => EndReport(d)
             /\ e = d /\ pc[d] \notin Released =>
                  pc'[d] \notin Released \/ EndMarkReleased(d)
  BY <1>4 DEF End, EndDeactivate, EndCloseResource, EndMarkReleased, EndReport, EndRemove
<1>5. ASSUME NEW x \in Drainers, DrainStart(x) \/ DrainCheck(x) PROVE UNCHANGED <<pc, group>>
  BY <1>5 DEF DrainStart, DrainCheck
<1>6. ASSUME NEW x \in Closers, CloseSwap(x) PROVE UNCHANGED <<pc, group>>
  BY <1>6 DEF CloseSwap
<1> QED
  BY <1>1, <1>2, <1>3, <1>4, <1>5, <1>6, RegistryFrame

(* Every step keeps the latest release of a group received, in replay or   *)
(* in flight.                                                              *)
LEMMA NoReleaseIsLostStep ==
  ASSUME TypeOK, Tokens, NoReleaseIsLost, [Next]_vars
  PROVE  NoReleaseIsLost'
<1> SUFFICES ASSUME NEW g \in Groups, releaseSink' # "none", releaseSequences'[g] > 0
             PROVE  <<releaseSink', g, releaseSequences'[g]>>
                      \in received' \cup replay' \cup InFlightReports'
  BY DEF NoReleaseIsLost
<1> DEFINE call == <<releaseSink, g, releaseSequences[g]>>
<1>1. ASSUME NEW d \in Dispatches, pc'[d] = "marked", captured'[d] = captured[d],
             group'[d] = group[d], call = <<captured[d].sink, group[d], captured[d].seq>>
      PROVE  call \in InFlightReports'
  BY <1>1 DEF InFlightReports
<1>2. call \in InFlightReports =>
        \E d \in Dispatches : pc[d] = "marked" /\ call = <<captured[d].sink, group[d], captured[d].seq>>
  BY DEF InFlightReports
<1>3. CASE UNCHANGED releaseVars
  <2>1. releaseSink' = releaseSink /\ releaseSequences' = releaseSequences
        /\ UNCHANGED <<captured, replay, received>>
    BY <1>3 DEF releaseVars
  <2>2. ASSUME NEW d \in Dispatches, pc[d] = "marked"
        PROVE  (pc'[d] = "marked" /\ group'[d] = group[d]) \/ EndReport(d)
    BY <2>2, MarkedOnlyByEnd DEF Released
  <2>3. ASSUME NEW d \in Dispatches, EndReport(d), pc[d] = "marked",
               call = <<captured[d].sink, group[d], captured[d].seq>>
        PROVE  call \in received'
    BY <2>1, <2>3 DEF EndReport
  <2> QED
    BY <1>1, <1>2, <2>1, <2>2, <2>3 DEF NoReleaseIsLost
<1>4. ASSUME NEW d \in Dispatches, EndMarkReleased(d)
      PROVE  <<releaseSink', g, releaseSequences'[g]>>
               \in received' \cup replay' \cup InFlightReports'
  <2>1. /\ UNCHANGED <<releaseSink, received, replay, group>>
        /\ pc'[d] = "marked" /\ pc[d] = "closing"
        /\ \A e \in Dispatches \ {d} : pc'[e] = pc[e] /\ captured'[e] = captured[e]
    BY <1>4 DEF EndMarkReleased, MarkReleasedLocked, TypeOK, RegistryType, ReleaseType
  <2>2. CASE group[d] = g
    <3>1. captured'[d] = [sink |-> releaseSink, seq |-> releaseSequences'[g]]
      BY <1>4, <2>2, ConstantsAssumption
      DEF EndMarkReleased, MarkReleasedLocked, TypeOK, ReleaseType
    <3>2. <<captured'[d].sink, group'[d], captured'[d].seq>>
            = <<releaseSink', g, releaseSequences'[g]>>
      BY <2>1, <2>2, <3>1
    <3> QED
      BY <2>1, <3>2 DEF InFlightReports
  <2>3. CASE group[d] # g
    <3>1. releaseSequences'[g] = releaseSequences[g]
      BY <1>4, <2>3 DEF EndMarkReleased, MarkReleasedLocked, TypeOK, ReleaseType
    <3> QED
      BY <1>1, <1>2, <2>1, <3>1 DEF NoReleaseIsLost
  <2> QED
    BY <2>2, <2>3
<1>5. ASSUME NEW d \in Dispatches, EndReport(d)
      PROVE  <<releaseSink', g, releaseSequences'[g]>>
               \in received' \cup replay' \cup InFlightReports'
  <2>1. /\ UNCHANGED <<releaseSink, releaseSequences, captured, replay, group>>
        /\ received \subseteq received'
        /\ \A e \in Dispatches \ {d} : pc'[e] = pc[e]
    BY <1>5 DEF EndReport, TypeOK, RegistryType
  <2>2. ASSUME call = <<captured[d].sink, group[d], captured[d].seq>>
        PROVE  call \in received'
    BY <1>5, <2>1, <2>2 DEF EndReport
  <2> QED
    BY <1>1, <1>2, <2>1, <2>2 DEF NoReleaseIsLost
<1>6. ASSUME NEW s \in Sinks \cup {"none"}, SetReleaseSink(s)
      PROVE  <<releaseSink', g, releaseSequences'[g]>>
               \in received' \cup replay' \cup InFlightReports'
  BY <1>6 DEF SetReleaseSink
<1>7. CASE \E h \in Groups : ReplaySequence(h)
  <2>1. /\ UNCHANGED <<releaseSink, releaseSequences, captured, pc, group>>
        /\ received \cup replay \subseteq received' \cup replay'
    BY <1>7 DEF ReplaySequence, registryVars
  <2> QED
    BY <1>1, <1>2, <2>1 DEF NoReleaseIsLost
<1> QED
  BY <1>3, <1>4, <1>5, <1>6, <1>7, ReleaseFrame

(* Every step keeps the release sequence equal to the number of ended      *)
(* scopes.                                                                 *)
LEMMA ReleaseSequenceCountsStep ==
  ASSUME TypeOK, Tokens, ReleaseSequenceCounts, [Next]_vars
  PROVE  ReleaseSequenceCounts'
<1> SUFFICES ASSUME NEW g \in Groups
             PROVE  releaseSequences'[g] =
                      Cardinality({d \in Dispatches : group'[d] = g /\ pc'[d] \in Released})
  BY DEF ReleaseSequenceCounts
<1> DEFINE over == {d \in Dispatches : group[d] = g /\ pc[d] \in Released}
           over2 == {d \in Dispatches : group'[d] = g /\ pc'[d] \in Released}
<1>1. releaseSequences[g] = Cardinality(over)
  BY DEF ReleaseSequenceCounts
<1>2. IsFiniteSet(over)
  BY FS_Interval, FS_Subset, ConstantsAssumption DEF Dispatches
<1>3. ASSUME NEW d \in Dispatches, EndMarkReleased(d)
      PROVE  releaseSequences'[g] = Cardinality(over2)
  <2>1. /\ d \notin over /\ group' = group /\ pc'[d] = "marked"
        /\ \A e \in Dispatches \ {d} : pc'[e] = pc[e]
    BY <1>3 DEF EndMarkReleased, TypeOK, RegistryType, Released
  <2>2. CASE group[d] = g
    <3>1. over2 = over \cup {d}
      BY <2>1, <2>2 DEF Released
    <3>2. releaseSequences'[g] = releaseSequences[g] + 1
      BY <1>3, <2>2, ConstantsAssumption
      DEF EndMarkReleased, MarkReleasedLocked, TypeOK, ReleaseType
    <3>3. d \notin over
      BY <2>1
    <3> HIDE DEF over, over2
    <3>4. Cardinality(over \cup {d}) = Cardinality(over) + 1
      BY <1>2, <3>3, FS_AddElement
    <3> QED
      BY <1>1, <3>1, <3>2, <3>4
  <2>3. CASE group[d] # g
    <3>1. over2 = over
      BY <2>1, <2>3
    <3>2. releaseSequences'[g] = releaseSequences[g]
      BY <1>3, <2>3 DEF EndMarkReleased, MarkReleasedLocked, TypeOK, ReleaseType
    <3> QED
      BY <1>1, <3>1, <3>2
  <2> QED
    BY <2>2, <2>3
<1>4. CASE ~ \E d \in Dispatches : EndMarkReleased(d)
  <2>1. over2 \subseteq over
    BY <1>4, MarkedOnlyByEnd
  <2>2. over \subseteq over2
    BY MarkedOnlyByEnd
  <2>3. releaseSequences' = releaseSequences
    BY <1>4, ReleaseFrame DEF releaseVars, EndReport, SetReleaseSink, ReplaySequence
  <2> QED
    BY <1>1, <2>1, <2>2, <2>3
<1> QED
  BY <1>3, <1>4

-----------------------------------------------------------------------------
(* Barriers *)

Barriers ==
  /\ freeze.barrier = publishedBarrier
  /\ publishedBarrier <= observedBarrier
  /\ barrierNext[observedBarrier] = pendingBarrierSequence
  /\ pendingBarrierSequence <= next
  /\ barrierNext[publishedBarrier] <= next
  /\ \A d \in 1 .. barrierNext[publishedBarrier] : pc[d] \notin {"idle", "pending"}
  /\ BarrierSnapshotIsComplete

(* A token that was resolved stays resolved, and one that is over stays    *)
(* over.                                                                   *)
LEMMA ResolvedIsFinal ==
  ASSUME TypeOK, Tokens, [Next]_vars
  PROVE  /\ next <= next'
         /\ \A d \in Dispatches : pc[d] \notin {"idle", "pending"} =>
              pc'[d] \notin {"idle", "pending"}
         /\ \A d \in Dispatches : pc[d] \in {"gone", "ended"} => pc'[d] = pc[d]
<1> USE DEF TypeOK, RegistryType, Tokens
<1>1. CASE UNCHANGED registryVars
  BY <1>1, ConstantsAssumption DEF registryVars
<1>2. CASE Begin
  BY <1>2, ConstantsAssumption
  DEF Begin, BeginDispatch, BeginDispatchReserve, ReserveBelowLimit, Dispatches
<1>3. ASSUME NEW e \in Dispatches, Resolve(e) \/ Binding(e) \/ End(e)
      PROVE  /\ next' = next
             /\ \A d \in Dispatches : pc'[d] = pc[d] \/
                  (pc[d] \notin {"gone", "ended"} /\ pc'[d] \notin {"idle", "pending"})
  BY <1>3 DEF Resolve, PendingEnd, InstallRefused, Install, InstallScope, Binding, Bind,
              BindResource, End, EndDeactivate, EndCloseResource, EndMarkReleased,
              EndReport, EndRemove
<1>4. ASSUME NEW x \in Drainers, DrainStart(x) \/ DrainCheck(x) PROVE UNCHANGED <<next, pc>>
  BY <1>4 DEF DrainStart, DrainCheck
<1>5. ASSUME NEW x \in Closers, CloseSwap(x) PROVE UNCHANGED <<next, pc>>
  BY <1>5 DEF CloseSwap
<1> QED
  BY <1>1, <1>2, <1>3, <1>4, <1>5, RegistryFrame

(* Every step keeps the published barrier behind every unresolved token    *)
(* begun before it.                                                        *)
LEMMA BarriersStep ==
  ASSUME TypeOK, Tokens, Barriers, [Next]_vars
  PROVE  Barriers'
<1> USE ConstantsAssumption DEF TypeOK, ObservationType, RegistryType, Dispatches
<1>1. CASE UNCHANGED observationVars
  <2>1. /\ UNCHANGED <<observedBarrier, pendingBarrierSequence, publishedBarrier, barrierNext, freeze>>
    BY <1>1 DEF observationVars
  <2>2. next <= next' /\ next' \in Nat
    BY ResolvedIsFinal, RegistryTypeStep DEF Tokens
  <2>3. \A d \in 1 .. barrierNext[publishedBarrier] : d \in Dispatches
    BY DEF Barriers
  <2>4. \A d \in 1 .. barrierNext[publishedBarrier] : pc'[d] \notin {"idle", "pending"}
    BY <2>3, ResolvedIsFinal DEF Barriers
  <2>5. BarrierSnapshotIsComplete'
    <3>1. \A d \in 1 .. barrierNext[publishedBarrier] :
            d \in freeze.executions \/ pc'[d] \in {"gone", "ended"}
      BY <2>3, ResolvedIsFinal DEF Barriers, BarrierSnapshotIsComplete
    <3> QED
      BY <2>1, <3>1 DEF Barriers, BarrierSnapshotIsComplete
  <2>6. pendingBarrierSequence <= next' /\ barrierNext[publishedBarrier] <= next'
    BY <2>2 DEF Barriers
  <2> QED
    BY <2>1, <2>4, <2>5, <2>6 DEF Barriers
<1>2. ASSUME NEW b \in 1 .. MaxBarrier, ObserveBarrier(b) PROVE Barriers'
  BY <1>2 DEF ObserveBarrier, Barriers, BarrierSnapshotIsComplete, registryVars
<1>3. CASE \E revision \in 1 .. MaxFreeze : FreezeInFlight(revision)
  <2> DEFINE fb == FreezeBarrier
  <2>1. /\ freeze' = [barrier |-> fb, executions |-> scopes] /\ publishedBarrier' = fb
        /\ UNCHANGED <<observedBarrier, pendingBarrierSequence, barrierNext, next, pc>>
    BY <1>3 DEF FreezeInFlight, registryVars
  <2>2. fb \in 0 .. MaxBarrier /\ fb <= observedBarrier /\ barrierNext[fb] <= next
    BY DEF FreezeBarrier, Barriers
  <2>3. \A d \in 1 .. barrierNext[fb] : pc[d] \notin {"idle", "pending"}
    BY <2>2 DEF FreezeBarrier, Barriers, Tokens
  <2>4. \A d \in 1 .. barrierNext[fb] : d \in scopes \/ pc[d] \in {"gone", "ended"}
    BY <2>2, <2>3 DEF Tokens, Live, OwnerPC
  <2> HIDE DEF fb
  <2> QED
    BY <2>1, <2>2, <2>3, <2>4 DEF Barriers, BarrierSnapshotIsComplete
<1> QED
  BY <1>1, <1>2, <1>3, ObservationFrame

-----------------------------------------------------------------------------
(* The inductive invariant and what it implies *)

IInv == TypeOK /\ Tokens /\ Resources /\ Drained /\ Closing /\ NoReleaseIsLost
          /\ ReleaseSequenceCounts /\ Barriers

(* New starts in the invariant.                                            *)
LEMMA InitIInv == Init => IInv
<1> SUFFICES ASSUME Init PROVE IInv
  OBVIOUS
<1> USE ConstantsAssumption DEF Init
<1>1. RegistryType /\ ResourceType
  BY DEF RegistryType, ResourceType, Lifecycle, MuStates, OwnerPC, Dispatches
<1>2. ReleaseType
  BY DEF ReleaseType
<1>3. StopType
  BY DEF StopType, DrainPC, ClosePC, WaitPC
<1>4. ObservationType
  BY DEF ObservationType
<1>5. Tokens /\ Resources
  BY DEF Tokens, ReserveBelowLimit, Live, Resources, Released, Dispatches, MuFree, Holding
<1>6. Drained /\ Closing
  BY DEF Drained, Closing
<1>7. NoReleaseIsLost
  BY DEF NoReleaseIsLost
<1>8. ReleaseSequenceCounts
  <2>1. ASSUME NEW g \in Groups
        PROVE  {d \in Dispatches : group[d] = g /\ pc[d] \in Released} = {}
    BY DEF Released
  <2> QED
    BY <2>1, FS_EmptySet DEF ReleaseSequenceCounts
<1>9. Barriers
  BY DEF Barriers, BarrierSnapshotIsComplete
<1> QED
  BY <1>1, <1>2, <1>3, <1>4, <1>5, <1>6, <1>7, <1>8, <1>9 DEF IInv, TypeOK

(* Every step preserves the invariant.                                     *)
LEMMA IInvStep == IInv /\ [Next]_vars => IInv'
<1> SUFFICES ASSUME IInv, [Next]_vars PROVE IInv'
  OBVIOUS
<1>1. TypeOK'
  BY RegistryTypeStep, ResourceTypeStep, ReleaseTypeStep, StopTypeStep, ObservationTypeStep
  DEF IInv, TypeOK, Tokens
<1>2. Tokens' /\ Resources' /\ Drained' /\ Closing'
  BY TokensStep, ResourcesStep, DrainedStep, ClosingStep DEF IInv
<1>3. NoReleaseIsLost' /\ ReleaseSequenceCounts' /\ Barriers'
  BY NoReleaseIsLostStep, ReleaseSequenceCountsStep, BarriersStep DEF IInv
<1> QED
  BY <1>1, <1>2, <1>3 DEF IInv

(* The invariant holds in every reachable state.                           *)
LEMMA Invariance == Spec => []IInv
  BY InitIInv, IInvStep, PTL DEF Spec

(* The registry keeps its types: no token outside the ones BeginDispatch    *)
(* handed out ever gets into r.pending or r.scopes.                         *)
THEOREM TypeCorrect == Spec => []TypeOK
<1>1. IInv => TypeOK
  BY DEF IInv
<1> QED
  BY <1>1, Invariance, PTL

(* Drain returns nil only over a registry that is empty and stays empty,    *)
(* for any number of requests, Drain and Close calls.                       *)
THEOREM DrainIsFinal == Spec => []DrainedRegistryIsEmpty
<1>1. IInv => DrainedRegistryIsEmpty
  BY DEF IInv, Drained, DrainedRegistryIsEmpty
<1> QED
  BY <1>1, Invariance, PTL

(* Close returns only when every resource is closed, and none is bound      *)
(* afterwards.                                                              *)
THEOREM CloseIsFinal == Spec => []CloseLeavesNoOpenResource
<1>1. IInv => CloseLeavesNoOpenResource
  BY DEF IInv, Closing, NoOpenResource, CloseLeavesNoOpenResource
<1> QED
  BY <1>1, Invariance, PTL

(* EndWithRelease counts a scope as released only after its resource is     *)
(* closed, whoever closed it.                                               *)
THEOREM ReleaseFollowsClose == Spec => []ReleasedResourceIsClosed
<1>1. IInv => ReleasedResourceIsClosed
  BY DEF IInv, Resources, ReleasedResourceIsClosed
<1> QED
  BY <1>1, Invariance, PTL

(* The release sequence of a group is the number of its scopes that ended.  *)
THEOREM SequencesCountReleases == Spec => []ReleaseSequenceCounts
<1>1. IInv => ReleaseSequenceCounts
  BY DEF IInv
<1> QED
  BY <1>1, Invariance, PTL

(* SetReleaseSink loses no release, however Ends interleave with it.        *)
THEOREM ReleasesSurviveSinkChange == Spec => []NoReleaseIsLost
<1>1. IInv => NoReleaseIsLost
  BY DEF IInv
<1> QED
  BY <1>1, Invariance, PTL

(* A snapshot that FreezeInFlight stamps with a barrier misses no dispatch  *)
(* begun before the barrier was observed.                                   *)
THEOREM SnapshotsRespectBarriers == Spec => []BarrierSnapshotIsComplete
<1>1. IInv => BarrierSnapshotIsComplete
  BY DEF IInv, Barriers
<1> QED
  BY <1>1, Invariance, PTL
=============================================================================
