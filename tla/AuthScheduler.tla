---------------------------- MODULE AuthScheduler ----------------------------
(***************************************************************************)
(* The routing of a request to a credential by authScheduler               *)
(* (sdk/cliproxy/auth/scheduler.go): per provider and model a shard that   *)
(* files the credentials by priority in ready views and by retry time in   *)
(* the blocked queue, kept up to date one credential at a time, and picked *)
(* from with rotating cursors or smooth weighted credits.                  *)
(*                                                                         *)
(* Every operation runs under the scheduler's mutex and is one step.  A    *)
(* pick is a function of the state (its outcome, below) that the action    *)
(* applies.                                                                *)
(*                                                                         *)
(* A credential is given by the fields routing reads.  Whether it is       *)
(* blocked for a model is a reason and a time, as isAuthBlockedForModel    *)
(* returns them; CredentialCooldown models where these come from.          *)
(***************************************************************************)
EXTENDS Integers, Sequences, FiniteSets, SequencesExt

CONSTANTS
  Auths,               \* credential IDs: numbers, in the order of the IDs
  Route,               \* the providers of a mixed request, in order
  WebsocketProviders,  \* providerPrefersWebsocketTransport
  Models,              \* canonical model keys
  Profiles,            \* Profiles[a]: the forms credential a takes in a run
  Requests,            \* the requests of a run
  MaxTime              \* bound: the clock stops here

Providers == Range(Route)
Strategies == {"round-robin", "fill-first", "weighted-round-robin"}
Reasons == {"none", "cooldown", "disabled", "other"}
NoAuth == 0

ProfileType ==
  [provider : Providers, priority : Int, weight : Int, websocket : BOOLEAN, disabled : BOOLEAN,
   supports : SUBSET Models, block : [Models -> [reason : Reasons, until : Nat]]]

RequestType ==
  [kind : {"single", "mixed"}, provider : Providers, model : Models, websocket : BOOLEAN,
   pinned : Auths \cup {NoAuth}, excluded : SUBSET Auths]

ASSUME SchedulerAssumption ==
  /\ Auths \subseteq Nat \ {NoAuth} /\ IsFiniteSet(Auths)
  /\ Route \in Seq(Providers) /\ Len(Route) > 1 /\ Cardinality(Providers) = Len(Route)
  /\ WebsocketProviders \subseteq Providers
  /\ \A a \in Auths : Profiles[a] \subseteq ProfileType
  /\ \A a \in Auths : \A f \in Profiles[a], m \in Models :
       /\ f.block[m].reason = "cooldown" => f.block[m].until > 0
       /\ f.block[m].reason = "disabled" => f.block[m].until = 0
  /\ Requests \subseteq RequestType
  /\ MaxTime \in Nat \ {0}

VARIABLES
  now,
  strategy,       \* s.strategy
  providers,      \* keys of s.providers
  metas,          \* the credentials known: s.authProviders and the auths of the providers
  shards,         \* [provider, model] -> shard
  mixedCursors,   \* model -> cursor of the route
  mixedCredits,   \* model -> smooth weighted state of the route
  stretch         \* history: consecutive picks from one unchanged pool

vars == <<now, strategy, providers, metas, shards, mixedCursors, mixedCredits, stretch>>

-----------------------------------------------------------------------------
(* Shards and views *)

(* smoothWeightedState; a view has one and a cursor. *)
NoCredits == [current |-> <<>>, weights |-> <<>>]
NoView == [flat |-> <<>>, cursor |-> 0, credits |-> NoCredits]
NoBucket == [all |-> NoView, ws |-> NoView]
NoShard == [built |-> FALSE, entries |-> <<>>, ready |-> <<>>]

Members(view) == Range(view.flat)

(* The IDs of S in order: the i-th has i - 1 before it. *)
Sorted(S) ==
  [i \in 1 .. Cardinality(S) |-> CHOOSE a \in S : Cardinality({b \in S : b < a}) = i - 1]

(* The sum of f, whose values are natural numbers. *)
Total(f) == Cardinality(UNION {{a} \X (1 .. f[a]) : a \in DOMAIN f})

(* scheduledWeightVectorMatching, for the credentials of S known as ms. *)
WeightVector(S, ms) == [a \in {x \in S : ms[x].weight > 0} |-> ms[a].weight]

(* isAuthBlockedForModel, as upsertEntryLocked and promoteExpiredLocked    *)
(* file its answer.                                                        *)
Classify(meta, m) ==
  LET block == meta.block[m]
  IN  CASE block.reason = "disabled" -> [state |-> "disabled", next |-> 0]
        [] block.reason = "none" \/ block.until \in 1 .. now -> [state |-> "ready", next |-> 0]
        [] block.reason = "cooldown" /\ block.until > now ->
             [state |-> "cooldown", next |-> block.until]
        [] OTHER -> [state |-> "blocked", next |-> block.until]

(* Mutated form of RestoreCursors: a view starts over when it is rebuilt. *)
RestoreCursorsAnew(S, old, ms) == [flat |-> Sorted(S), cursor |-> 0, credits |-> NoCredits]

(* The view of the credentials of S, with the cursor of the old view and,  *)
(* if the weights are the same, its credits.                               *)
RestoreCursors(S, old, ms) ==
  [flat |-> Sorted(S),
   cursor |-> IF S = {} THEN 0 ELSE old.cursor % Cardinality(S),
   credits |-> IF old.credits.current # <<>> /\ old.credits.weights = WeightVector(S, ms)
               THEN old.credits ELSE NoCredits]

(* rebuildIndexesLocked *)
RebuildIndexes(shard, entries, ms) ==
  LET ready == {a \in DOMAIN entries : entries[a].state = "ready"}
      At(p) == {a \in ready : ms[a].priority = p}
      Old(p) == IF p \in DOMAIN shard.ready THEN shard.ready[p] ELSE NoBucket
  IN  [built |-> TRUE,
       entries |-> entries,
       ready |-> [p \in {ms[a].priority : a \in ready} |->
                    [all |-> RestoreCursors(At(p), Old(p).all, ms),
                     ws |-> RestoreCursors({a \in At(p) : ms[a].websocket}, Old(p).ws, ms)]]]

(* Mutated form of UpsertEntry: a change of the priority alone goes unnoticed. *)
UpsertEntrySamePriority(shard, a, m, before, ms) ==
  LET entry == Classify(ms[a], m)
  IN  IF a \in DOMAIN shard.entries /\ shard.entries[a] = entry
         /\ before.websocket = ms[a].websocket
      THEN shard
      ELSE RebuildIndexes(shard, [x \in DOMAIN shard.entries \cup {a} |->
                                    IF x = a THEN entry ELSE shard.entries[x]], ms)

(* upsertEntryLocked: the indexes are rebuilt only when the order changes. *)
UpsertEntry(shard, a, m, before, ms) ==
  LET entry == Classify(ms[a], m)
  IN  IF a \in DOMAIN shard.entries /\ shard.entries[a] = entry
         /\ before.priority = ms[a].priority /\ before.websocket = ms[a].websocket
      THEN shard
      ELSE RebuildIndexes(shard, [x \in DOMAIN shard.entries \cup {a} |->
                                    IF x = a THEN entry ELSE shard.entries[x]], ms)

(* removeEntryLocked *)
RemoveEntry(shard, a, ms) ==
  IF a \in DOMAIN shard.entries
  THEN RebuildIndexes(shard, Restrict(shard.entries, DOMAIN shard.entries \ {a}), ms)
  ELSE shard

(* promoteExpiredLocked *)
PromoteExpired(shard, m) ==
  LET due == {a \in DOMAIN shard.entries :
                /\ shard.entries[a].state \in {"cooldown", "blocked"}
                /\ shard.entries[a].next \in 1 .. now}
  IN  IF due = {} THEN shard
      ELSE RebuildIndexes(shard, [a \in DOMAIN shard.entries |->
                                    IF a \in due THEN Classify(metas[a], m)
                                    ELSE shard.entries[a]], metas)

(* ensureModelLocked: the shard is built at the first request for it. *)
EnsureModel(p, m) ==
  IF shards[<<p, m>>].built THEN PromoteExpired(shards[<<p, m>>], m)
  ELSE LET supported == {a \in DOMAIN metas : metas[a].provider = p /\ m \in metas[a].supports}
       IN  RebuildIndexes(NoShard, [a \in supported |-> Classify(metas[a], m)], metas)

-----------------------------------------------------------------------------
(* Picking from a view: the credential, the view after it, and whether     *)
(* the credits start from nothing.                                         *)

(* pickFirst *)
PickFirst(view, ok) ==
  [auth |-> view.flat[Min({i \in DOMAIN view.flat : view.flat[i] \in ok})],
   view |-> view, clean |-> TRUE]

(* pickRoundRobin *)
PickRoundRobin(view, ok) ==
  LET n == Len(view.flat)
      Index(offset) == ((view.cursor % n) + offset) % n
      hit == Index(Min({o \in 0 .. n - 1 : view.flat[Index(o) + 1] \in ok}))
  IN  [auth |-> view.flat[hit + 1], view |-> [view EXCEPT !.cursor = hit + 1], clean |-> TRUE]

(* prepare and pickSmoothWeightedScheduled, on the IDs of flat that match: *)
(* everyone earns its weight, the richest is picked and pays the total.    *)
Spend(credits, S) ==
  LET weights == WeightVector(S, metas)
      kept == credits.current # <<>> /\ credits.weights = weights
      earned == [a \in DOMAIN weights |-> weights[a] + IF kept THEN credits.current[a] ELSE 0]
      picked == Min({a \in DOMAIN weights : \A b \in DOMAIN weights : earned[b] <= earned[a]})
  IN  [auth |-> picked, clean |-> ~kept,
       credits |-> [weights |-> weights,
                    current |-> [earned EXCEPT ![picked] = @ - Total(weights)]]]

(* pickWeighted *)
PickWeighted(view, ok) ==
  LET spent == Spend(view.credits, Members(view) \cap ok)
  IN  [auth |-> spent.auth, view |-> [view EXCEPT !.credits = spent.credits],
       clean |-> spent.clean]

PickFrom(view, ok, strat) ==
  CASE strat = "fill-first" -> PickFirst(view, ok)
    [] strat = "weighted-round-robin" -> PickWeighted(view, ok)
    [] OTHER -> PickRoundRobin(view, ok)

(* scheduledAuthPredicate *)
Matching(r) ==
  {a \in DOMAIN metas :
     /\ a \notin r.excluded
     /\ strategy = "weighted-round-robin" => metas[a].weight > 0
     /\ r.pinned # NoAuth => a = r.pinned}

(* highestReadyPriorityLocked *)
Tiers(shard, kind, ok) == {p \in DOMAIN shard.ready : Members(shard.ready[p][kind]) \cap ok # {}}

(* unavailableErrorLocked and mixedUnavailableErrorLocked *)
Refusal(entries) ==
  LET cooling == {e \in entries : e.state = "cooldown"}
  IN  CASE entries = {} -> [error |-> "auth_not_found", until |-> 0]
        [] entries # {} /\ cooling = entries ->
             [error |-> "model_cooldown", until |-> Min({e.next : e \in cooling})]
        [] OTHER -> [error |-> "auth_unavailable", until |-> 0]

Entries(shard, ok) == {shard.entries[a] : a \in DOMAIN shard.entries \cap ok}

(* The views a pick rotates through, and the order of their credentials. *)
Lane(kind, mixed, of, m, tier) ==
  [kind |-> kind, mixed |-> mixed, of |-> of, model |-> m, tier |-> tier]
NoLane == Lane("none", FALSE, {}, CHOOSE m \in Models : TRUE, 0)

Flats(lane, sh) ==
  [p \in lane.of |-> IF lane.tier \in DOMAIN sh[<<p, lane.model>>].ready
                     THEN sh[<<p, lane.model>>].ready[lane.tier][lane.kind].flat ELSE <<>>]

(* What a request does: the credential or the refusal, the state it        *)
(* leaves, the credentials that were competing.                            *)
Outcome(auth, error, until, sh, cursors, credits, pool, lane, clean) ==
  [auth |-> auth, error |-> error, until |-> until, shards |-> sh, cursors |-> cursors,
   credits |-> credits, pool |-> pool, lane |-> lane, clean |-> clean]

Refused(refusal, sh) ==
  Outcome(NoAuth, refusal.error, refusal.until, sh, mixedCursors, mixedCredits, {}, NoLane, FALSE)

Picked(auth, sh, cursors, credits, pool, lane, clean) ==
  Outcome(auth, "none", 0, sh, cursors, credits, pool, lane, clean)

NotFound == [error |-> "auth_not_found", until |-> 0]

(* pickReadyAtPriorityLocked *)
PickTier(p, m, ok, shard, kind, tier) ==
  LET pick == PickFrom(shard.ready[tier][kind], ok, strategy)
  IN  Picked(pick.auth,
             [shards EXCEPT ![<<p, m>>] = [shard EXCEPT !.ready[tier][kind] = pick.view]],
             mixedCursors, mixedCredits, Members(shard.ready[tier][kind]) \cap ok,
             Lane(kind, FALSE, {p}, m, tier), pick.clean)

(* pickReadyLocked on one shard *)
PickReady(p, m, ok, shard, kind) ==
  IF Tiers(shard, kind, ok) = {}
  THEN Refused(Refusal(Entries(shard, ok)), [shards EXCEPT ![<<p, m>>] = shard])
  ELSE PickTier(p, m, ok, shard, kind, Max(Tiers(shard, kind, ok)))

PreferredKind(shard, ok, preferWebsocket) ==
  IF preferWebsocket /\ Tiers(shard, "ws", ok) # {} THEN "ws" ELSE "all"

PickShard(p, m, ok, preferWebsocket) ==
  LET shard == EnsureModel(p, m)
  IN  PickReady(p, m, ok, shard, PreferredKind(shard, ok, preferWebsocket))

(* pickSingleWithStrategy *)
PickSingle(r) ==
  IF r.provider \notin providers THEN Refused(NotFound, shards)
  ELSE PickShard(r.provider, r.model, Matching(r),
                 r.websocket /\ r.provider \in WebsocketProviders /\ r.pinned = NoAuth)

(* pickMixedWithStrategy with a pinned credential *)
PickPinned(r) ==
  IF r.pinned \notin DOMAIN metas THEN Refused(NotFound, shards)
  ELSE PickShard(metas[r.pinned].provider, r.model, Matching(r), FALSE)

(* The views of a tier, by provider *)
TierViews(m, ensured, tier) ==
  [p \in Providers |-> IF p \in providers /\ tier \in DOMAIN ensured[<<p, m>>].ready
                       THEN ensured[<<p, m>>].ready[tier].all ELSE NoView]

(* The second half of pickMixedWithStrategy, on the views of the best      *)
(* tier: the providers take turns in proportion to their matching          *)
(* credentials, and each provider rotates its own.                         *)
PickViews(m, ok, ensured, tier, views) ==
  LET Count(i) == Cardinality(Members(views[Route[i]]) \cap ok)
      SegmentEnd(i) == Total([j \in 1 .. i |-> Count(j)])
      pool == UNION {Members(views[p]) \cap ok : p \in Providers}
      lane == Lane("all", TRUE, Providers, m, tier)
      slot == mixedCursors[m] % SegmentEnd(Len(Route))
      start == Route[Min({i \in DOMAIN Route : slot < SegmentEnd(i)})]
      first == Route[Min({i \in DOMAIN Route : Count(i) > 0})]
      spent == Spend(mixedCredits[m], pool)
      turn == PickRoundRobin(views[start], ok)
  IN  CASE strategy = "fill-first" ->
             Picked(PickFirst(views[first], ok).auth, ensured, mixedCursors, mixedCredits, pool,
                    lane, TRUE)
        [] strategy = "weighted-round-robin" ->
             Picked(spent.auth, ensured, mixedCursors,
                    [mixedCredits EXCEPT ![m] = spent.credits], pool, lane, spent.clean)
        [] OTHER ->
             Picked(turn.auth, [ensured EXCEPT ![<<start, m>>].ready[tier].all = turn.view],
                    [mixedCursors EXCEPT ![m] = slot + 1], mixedCredits, pool, lane, TRUE)

(* The first half: the shards of all providers are brought up to date and  *)
(* the best tier of them all is taken.                                     *)
PickMixedTier(m, ok, ensured, tiers) ==
  IF tiers = {}
  THEN Refused(Refusal(UNION {Entries(ensured[<<p, m>>], ok) : p \in providers}), ensured)
  ELSE PickViews(m, ok, ensured, Max(tiers), TierViews(m, ensured, Max(tiers)))

PickMixed(r) ==
  LET ok == Matching(r)
      ensured == [q \in DOMAIN shards |->
                    IF q[2] = r.model /\ q[1] \in providers THEN EnsureModel(q[1], q[2])
                    ELSE shards[q]]
  IN  PickMixedTier(r.model, ok, ensured,
                    UNION {Tiers(ensured[<<p, r.model>>], "all", ok) : p \in providers})

(* The outcome of a request. *)
Serve(r) ==
  CASE r.kind = "single" -> PickSingle(r)
    [] r.kind = "mixed" /\ r.pinned # NoAuth -> PickPinned(r)
    [] OTHER -> PickMixed(r)

-----------------------------------------------------------------------------
(* The history: how often each credential was picked since the pool of the *)
(* last picks came together.                                               *)

NoStretch ==
  [lane |-> NoLane, vector |-> <<>>, n |-> 0, served |-> <<>>, fresh |-> FALSE, over |-> TRUE]

(* The competitors of a pool, by what they compete with. *)
Vector(pool, ms) ==
  IF strategy = "weighted-round-robin" THEN WeightVector(pool, ms) ELSE [a \in pool |-> 1]

(* A stretch is over when the views it is about are filed anew or one of   *)
(* its credentials changes its weight.                                     *)
Outlast(sh, ms) ==
  IF /\ Flats(stretch.lane, sh) = Flats(stretch.lane, shards)
     /\ \A a \in DOMAIN stretch.vector \cap DOMAIN ms \cap DOMAIN metas :
          Vector({a}, ms) = Vector({a}, metas)
  THEN stretch
  ELSE [stretch EXCEPT !.n = 0, !.served = [a \in DOMAIN @ |-> 0], !.over = TRUE]

(* Whole rounds are left out of the count. *)
RoundsOff(s) ==
  IF \A a \in DOMAIN s.vector : s.served[a] >= s.vector[a]
  THEN [s EXCEPT !.n = @ - Total(s.vector),
                 !.served = [a \in DOMAIN @ |-> @[a] - s.vector[a]]]
  ELSE s

(* The stretch after the pick o.  It goes on while the views and the       *)
(* weights of the competitors are the same; weighted picks from a part of  *)
(* a view go on only if the view's credits do.  A new one is fresh if it   *)
(* owes nothing to earlier picks, as it must when the weights are others.  *)
Extend(o) ==
  LET vector == Vector(o.pool, metas)
      flats == Flats(o.lane, o.shards)
      old == Outlast(o.shards, metas)
      whole == o.pool = UNION {Range(flats[p]) : p \in DOMAIN flats}
      goesOn == /\ old.lane = o.lane /\ old.vector = vector /\ ~old.over
                /\ whole \/ o.lane.mixed \/ ~o.clean
      from == IF goesOn THEN old
              ELSE [lane |-> o.lane, vector |-> vector, n |-> 0,
                    served |-> [a \in DOMAIN vector |-> 0],
                    fresh |-> o.clean \/ (old.lane = o.lane /\ old.vector # vector),
                    over |-> FALSE]
  IN  RoundsOff([from EXCEPT !.n = @ + 1, !.served[o.auth] = @ + 1])

-----------------------------------------------------------------------------
(* The operations *)

(* newAuthScheduler *)
SchedulerInit ==
  /\ now = 1
  /\ strategy \in Strategies
  /\ providers = {}
  /\ metas = <<>>
  /\ shards = [q \in Providers \X Models |-> NoShard]
  /\ mixedCursors = [m \in Models |-> 0]
  /\ mixedCredits = [m \in Models |-> NoCredits]
  /\ stretch = NoStretch

(* The shards once credential a is filed as ms says: the built shards of   *)
(* its provider hold it if it supports their model, no other shard does.   *)
Filed(a, ms) ==
  [q \in DOMAIN shards |->
     CASE ~shards[q].built -> shards[q]
       [] shards[q].built /\ a \in DOMAIN ms /\ ms[a].provider = q[1] /\ q[2] \in ms[a].supports ->
            UpsertEntry(shards[q], a, q[2],
                        IF a \in DOMAIN metas THEN metas[a] ELSE ms[a], ms)
       [] OTHER -> RemoveEntry(shards[q], a, ms)]

Refile(ms, sh) ==
  /\ metas' = ms
  /\ shards' = sh
  /\ stretch' = Outlast(sh, ms)
  /\ UNCHANGED <<now, strategy, mixedCursors, mixedCredits>>

File(a, ms) == Refile(ms, Filed(a, ms))

(* removeAuth *)
RemoveAuth(a) ==
  /\ a \in DOMAIN metas
  /\ File(a, Restrict(metas, DOMAIN metas \ {a}))
  /\ UNCHANGED providers

(* upsertAuth: a disabled credential is removed. *)
UpsertAuth(a, profile) ==
  IF profile.disabled THEN RemoveAuth(a)
  ELSE /\ File(a, [x \in DOMAIN metas \cup {a} |-> IF x = a THEN profile ELSE metas[x]])
       /\ providers' = providers \cup {profile.provider}

(* rebuild, with the credentials the scheduler knows *)
Rebuild ==
  /\ providers' = {metas[a].provider : a \in DOMAIN metas}
  /\ shards' = [q \in DOMAIN shards |-> NoShard]
  /\ mixedCursors' = [m \in Models |-> 0]
  /\ mixedCredits' = [m \in Models |-> NoCredits]
  /\ stretch' = NoStretch
  /\ UNCHANGED <<now, strategy, metas>>

(* setSelector *)
SetSelector(st) ==
  /\ strategy' = st
  /\ mixedCursors' = [m \in Models |-> 0]
  /\ mixedCredits' = [m \in Models |-> NoCredits]
  /\ stretch' = NoStretch
  /\ UNCHANGED <<now, providers, metas, shards>>

(* pickSingle and pickMixed *)
Pick(r) ==
  \E o \in {Serve(r)} :
    /\ shards' = o.shards
    /\ mixedCursors' = o.cursors
    /\ mixedCredits' = o.credits
    /\ stretch' = IF o.auth = NoAuth \/ strategy = "fill-first" THEN Outlast(o.shards, metas)
                  ELSE Extend(o)
    /\ UNCHANGED <<now, strategy, providers, metas>>

Tick ==
  /\ now < MaxTime
  /\ now' = now + 1
  /\ UNCHANGED <<strategy, providers, metas, shards, mixedCursors, mixedCredits, stretch>>

SchedulerNext ==
  \/ \E a \in Auths : RemoveAuth(a) \/ \E profile \in Profiles[a] : UpsertAuth(a, profile)
  \/ Rebuild
  \/ \E st \in Strategies : SetSelector(st)
  \/ \E r \in Requests : Pick(r)
  \/ Tick

SchedulerSpec == SchedulerInit /\ [][SchedulerNext]_vars

-----------------------------------------------------------------------------
(* Properties *)

ViewOK(view) ==
  /\ Range(view.flat) \subseteq Auths
  /\ view.cursor \in 0 .. Len(view.flat)
  /\ DOMAIN view.credits.current \subseteq Range(view.flat)

(* Type invariant.  A cursor of a view points at most one past its end     *)
(* (restoreReadyViewCursors, pickRoundRobin), and credits are held only    *)
(* for credentials of the view.                                            *)
SchedulerTypeOK ==
  /\ now \in 1 .. MaxTime
  /\ strategy \in Strategies
  /\ providers \subseteq Providers
  /\ DOMAIN metas \subseteq Auths
  /\ \A a \in DOMAIN metas : metas[a] \in Profiles[a] /\ metas[a].provider \in providers
  /\ \A q \in DOMAIN shards :
       /\ DOMAIN shards[q].entries \subseteq DOMAIN metas
       /\ \A p \in DOMAIN shards[q].ready :
            ViewOK(shards[q].ready[p].all) /\ ViewOK(shards[q].ready[p].ws)
  /\ \A m \in Models : mixedCursors[m] \in 0 .. Cardinality(Auths)

(* What routing promises, said of the credentials and not of the indexes:  *)
(* those the request may use, those of them that are free now, and the     *)
(* best of these.                                                          *)
Usable(r) ==
  {a \in DOMAIN metas \ r.excluded :
     /\ r.kind = "single" => metas[a].provider = r.provider
     /\ r.model \in metas[a].supports
     /\ r.pinned \in {NoAuth, a}
     /\ strategy = "weighted-round-robin" => metas[a].weight > 0}

Cooling(a, m) == metas[a].block[m].reason = "cooldown" /\ metas[a].block[m].until > now
Free(a, m) == metas[a].block[m].reason = "none" \/ metas[a].block[m].until \in 1 .. now

Best(r) ==
  LET free == {a \in Usable(r) : Free(a, r.model)}
      sockets == {a \in free : metas[a].websocket}
      preferred == IF /\ r.kind = "single" /\ r.websocket /\ r.pinned = NoAuth
                      /\ r.provider \in WebsocketProviders /\ sockets # {}
                   THEN sockets ELSE free
  IN  {a \in preferred : \A b \in preferred : metas[b].priority <= metas[a].priority}

(* Whatever was filed, removed, moved and promoted before, a request gets  *)
(* one of the best credentials, is refused only when none is free, and is  *)
(* told to wait exactly when all it could use are cooling, until the first *)
(* of them is due (pickSingleWithStrategy, pickMixedWithStrategy,          *)
(* unavailableErrorLocked).                                                *)
PickIsBest ==
  \A r \in Requests : \A o \in {Serve(r)}, usable \in {Usable(r)} :
    IF Best(r) # {} THEN o.auth \in Best(r)
    ELSE /\ o.auth = NoAuth
         /\ o.error = "auth_not_found" <=> usable = {}
         /\ o.error = "model_cooldown" <=> usable # {} /\ \A a \in usable : Cooling(a, r.model)
         /\ o.error = "model_cooldown"
              => o.until = Min({metas[a].block[r.model].until : a \in usable})

(* While the competitors and their weights stay the same, each of them is  *)
(* picked in proportion to its weight to within one pick, also across      *)
(* updates that leave the views as they are and across providers           *)
(* (pickRoundRobin, pickSmoothWeightedScheduled,                           *)
(* restoreReadyViewCursors, the segments of pickMixedWithStrategy).  A     *)
(* stretch that starts with credits of earlier picks may be off by two.    *)
(* A property of few competitors: among five or more of very different     *)
(* weights the richest-first rule can keep one waiting for longer.         *)
FairShare ==
  LET total == Total(stretch.vector)
      Off(a) == stretch.n * stretch.vector[a] - total * stretch.served[a]
      bound == IF stretch.fresh THEN total ELSE 2 * total
  IN  \A a \in DOMAIN stretch.vector : Off(a) < bound /\ -Off(a) < bound

=============================================================================
