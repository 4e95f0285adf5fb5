--------------------------- MODULE ServicesProofs ---------------------------
(***************************************************************************)
(* The websocket relay, the usage queue, session affinity and the request  *)
(* path, which share no state: what is proved of each for any number of    *)
(* requests, records, subscribers, pickers and credentials, any capacity   *)
(* of the channels and any sequence of concurrency limits.                 *)
(***************************************************************************)
EXTENDS WsRelay, UsageQueue, SessionAffinity, RequestPath, SequenceTheorems, FiniteSetTheorems,
        TLAPS

-----------------------------------------------------------------------------
(* Session affinity *)

(* The groups that replace others have the credential that was asked for.  *)
LEMMA ReplacedAuths ==
  ASSUME NEW auth, NEW aliases, NEW groups, NEW A,
         auth \in A, \A k \in DOMAIN entries : entries[k].auth \in A
  PROVE  LET new == ReplaceAliasGroups(auth, aliases, groups)
         IN  \A k \in DOMAIN new : new[k].auth \in A
  BY DEF ReplaceAliasGroups, Without

(* Groups that are removed leave the others alone.                         *)
LEMMA RemovedGroupAuths ==
  ASSUME NEW groups, NEW A, \A k \in DOMAIN entries : entries[k].auth \in A
  PROVE  LET new == Without(groups) IN \A k \in DOMAIN new : new[k].auth \in A
  BY DEF Without

(* Manager.Remove deletes the credential and then its sessions; a pick     *)
(* that binds a removed credential in between or later is on record.       *)
THEOREM RemovedAccountsHaveNoSessions == AffinitySpec => []RemovedHasNoSessions
<1>1. AffinityInit => RemovedHasNoSessions
  BY AffinityAssumption DEF AffinityInit, RemovedHasNoSessions
<1>2. RemovedHasNoSessions /\ [AffinityNext]_affinityVars => RemovedHasNoSessions'
  <2> SUFFICES ASSUME RemovedHasNoSessions, [AffinityNext]_affinityVars
               PROVE  RemovedHasNoSessions'
    OBVIOUS
  <2> DEFINE A == accounts \cup removing \cup overtaken
  <2>1. \A k \in DOMAIN entries : entries[k].auth \in A
    BY DEF RemovedHasNoSessions
  <2>2. ASSUME NEW p \in Pickers, PickLookup(p)
        PROVE  RemovedHasNoSessions'
    <3> DEFINE k == picker[p].primary
    <3>1. UNCHANGED <<accounts, removing, overtaken>>
      BY <2>2 DEF PickLookup
    <3>2. CASE Live(k) /\ entries' = ReplaceAliasGroups(entries[k].auth,
                            Compact(Merge(<<k>>, entries[k].aliases)), {entries[k]})
      <4>1. entries[k].auth \in A
        BY <2>1, <3>2 DEF Live
      <4> QED
        BY <2>1, <3>1, <3>2, <4>1, ReplacedAuths DEF RemovedHasNoSessions
    <3>3. CASE entries' = Without({entries[k]}) \/ entries' = entries
      BY <2>1, <3>1, <3>3, RemovedGroupAuths DEF RemovedHasNoSessions
    <3> QED
      BY <2>2, <3>2, <3>3 DEF PickLookup
  <2>3. ASSUME NEW p \in Pickers, PickFallback(p)
        PROVE  RemovedHasNoSessions'
    <3>1. /\ UNCHANGED <<accounts, removing, overtaken>>
          /\ entries' = Without({entries[picker[p].fallback]}) \/ entries' = entries
      BY <2>3 DEF PickFallback
    <3> QED
      BY <2>1, <3>1, RemovedGroupAuths DEF RemovedHasNoSessions
  <2>4. ASSUME NEW p \in Pickers, PickBind(p)
        PROVE  RemovedHasNoSessions'
    <3> DEFINE B == A \cup overtaken' \cup {picker[p].auth}
    <3>1. /\ UNCHANGED <<accounts, removing>> /\ entries' = SetAliases(picker[p].auth, Keyed(p))
          /\ overtaken \subseteq overtaken' /\ picker[p].auth \in accounts \cup overtaken'
      BY <2>4 DEF PickBind
    <3>2. PICK aliases, groups : entries' = ReplaceAliasGroups(picker[p].auth, aliases, groups)
      BY <3>1 DEF SetAliases
    <3>3. \A k \in DOMAIN entries' : entries'[k].auth \in B
      BY <2>1, <3>2, ReplacedAuths
    <3>4. B = (accounts \cup removing \cup overtaken)'
      BY <3>1
    <3> QED
      BY <3>3, <3>4 DEF RemovedHasNoSessions
  <2>5. ASSUME NEW a \in Accounts, RemoveAccount(a) \/ InvalidateAuth(a)
        PROVE  RemovedHasNoSessions'
    BY <2>1, <2>5 DEF RemoveAccount, InvalidateAuth, RemovedHasNoSessions
  <2>6. CASE CacheCleanup
    BY <2>1, <2>6 DEF CacheCleanup, RemovedHasNoSessions
  <2>7. CASE UNCHANGED affinityVars \/ AffinityTick \/ \E p \in Pickers : PickStart(p)
    BY <2>1, <2>7 DEF affinityVars, AffinityTick, PickStart, RemovedHasNoSessions
  <2> QED
    BY <2>2, <2>3, <2>4, <2>5, <2>6, <2>7 DEF AffinityNext
<1> QED
  BY <1>1, <1>2, PTL DEF AffinitySpec

-----------------------------------------------------------------------------
(* The channels of the usage queue's subscribers *)

(* A subscription is in the map, taken out by unsubscribe or taken out by  *)
(* the switch, and only then is its channel open.                          *)
Feeds ==
  /\ feed \in [Subscribers -> [load : Int, closed : BOOLEAN]]
  /\ subscribers \subseteq Subscribers /\ leaving \subseteq Subscribers
  /\ switch \in [pc : {"idle", "clear", "close"}, closing : SUBSET Subscribers]
  /\ switch.pc # "close" => switch.closing = {}
  /\ subscribers \cap leaving = {} /\ subscribers \cap switch.closing = {}
  /\ leaving \cap switch.closing = {}
  /\ \A s \in subscribers \cup leaving \cup switch.closing : feed[s].closed = FALSE
  /\ broken = FALSE

(* publishToSubscribers closes what it takes out of the map.               *)
LEMMA PublishFeeds ==
  ASSUME Feeds, PublishToSubscribers, UNCHANGED <<leaving, switch>>
  PROVE  Feeds'
<1>1. /\ subscribers' = {s \in subscribers : ~Full(s)}
      /\ broken' = FALSE
  BY DEF Feeds, PublishToSubscribers
<1>2. feed' = [s \in Subscribers |->
                CASE s \notin subscribers -> feed[s]
                  [] s \in subscribers /\ Full(s) -> [feed[s] EXCEPT !.closed = TRUE]
                  [] OTHER -> [feed[s] EXCEPT !.load = @ + 1]]
  BY DEF PublishToSubscribers
<1>3. \A s \in Subscribers :
        /\ feed'[s] \in [load : Int, closed : BOOLEAN]
        /\ s \notin subscribers \/ ~Full(s) => feed'[s].closed = feed[s].closed
  <2> SUFFICES ASSUME NEW s \in Subscribers
               PROVE  /\ feed'[s] \in [load : Int, closed : BOOLEAN]
                      /\ s \notin subscribers \/ ~Full(s) => feed'[s].closed = feed[s].closed
    OBVIOUS
  <2>1. feed[s] \in [load : Int, closed : BOOLEAN]
    BY DEF Feeds
  <2>2. CASE s \notin subscribers
    BY <1>2, <2>1, <2>2
  <2>3. CASE s \in subscribers /\ Full(s)
    BY <1>2, <2>1, <2>3
  <2>4. CASE s \in subscribers /\ ~Full(s)
    BY <1>2, <2>1, <2>4
  <2> QED
    BY <2>2, <2>3, <2>4
<1>4. feed' \in [Subscribers -> [load : Int, closed : BOOLEAN]]
  BY <1>2, <1>3
<1> QED
  BY <1>1, <1>3, <1>4 DEF Feeds

(* Closing the channel of a subscription nobody else has.                  *)
LEMMA CloseFeeds ==
  ASSUME Feeds, NEW s \in leaving \cup switch.closing, CloseFeed(s)
  PROVE  /\ feed' \in [Subscribers -> [load : Int, closed : BOOLEAN]] /\ broken' = FALSE
         /\ \A t \in Subscribers \ {s} : feed'[t] = feed[t]
  BY DEF Feeds, CloseFeed

(* What a subscriber has still to read says nothing of its channel's end.  *)
LEMMA LoadStep ==
  ASSUME Feeds, NEW s \in Subscribers, NEW n \in Int, feed' = [feed EXCEPT ![s].load = n]
  PROVE  /\ feed' \in [Subscribers -> [load : Int, closed : BOOLEAN]]
         /\ \A t \in Subscribers : feed'[t].closed = feed[t].closed
<1>1. feed[s] \in [load : Int, closed : BOOLEAN]
  BY DEF Feeds
<1>2. [feed[s] EXCEPT !.load = n] \in [load : Int, closed : BOOLEAN]
      /\ [feed[s] EXCEPT !.load = n].closed = feed[s].closed
  BY <1>1
<1> QED
  BY <1>2 DEF Feeds

(* The three places that close channels close each of them once.           *)
THEOREM SubscriberFeedsAreClosedOnce == QueueSpec => []FeedsAreClosedOnce
<1>1. QueueInit => Feeds
  BY DEF QueueInit, Feeds
<1>2. Feeds /\ [QueueNext]_queueVars => Feeds'
  <2> SUFFICES ASSUME Feeds, [QueueNext]_queueVars PROVE Feeds'
    OBVIOUS
  <2>1. ASSUME UNCHANGED <<feed, subscribers, leaving, switch, broken>>
        PROVE  Feeds'
    BY <2>1 DEF Feeds
  <2>2. CASE UNCHANGED queueVars \/ Age \/ ClientCheck \/ ClientPop \/ ForwardCheck \/ ForwardPop
             \/ ForwardPush \/ ForwardRequeue
             \/ \E r \in Records : Produce(r) \/ EnqueueCheck(r) \/ EnqueueItem(r)
    BY <2>1, <2>2 DEF queueVars, Age, ClientCheck, ClientPop, ForwardCheck, ForwardPop, ForwardPush,
                      ForwardRequeue, Produce, EnqueueCheck, EnqueueItem
  <2>3. ASSUME NotifyUsageRefresh \/ \E r \in Records : Publish(r)
        PROVE  Feeds'
    BY <2>3, PublishFeeds DEF NotifyUsageRefresh, Publish
  <2>4. ASSUME NEW s \in Subscribers, SubscribeUsage(s) \/ ReadFeed(s)
        PROVE  Feeds'
    <3>4. /\ feed' \in [Subscribers -> [load : Int, closed : BOOLEAN]]
          /\ \A t \in Subscribers : feed'[t].closed = feed[t].closed
      <4>1. CASE SubscribeUsage(s)
        <5>1. feed' = [feed EXCEPT ![s].load = 1]
          BY <4>1 DEF SubscribeUsage
        <5>2. 1 \in Int
          OBVIOUS
        <5> QED
          BY <5>1, <5>2, LoadStep
      <4>2. CASE ReadFeed(s)
        <5>1. feed' = [feed EXCEPT ![s].load = feed[s].load - 1]
          BY <4>2 DEF ReadFeed
        <5>2. feed[s].load - 1 \in Int
          BY DEF Feeds
        <5> QED
          BY <5>1, <5>2, LoadStep
      <4> QED
        BY <2>4, <4>1, <4>2
    <3>5. /\ UNCHANGED <<leaving, switch, broken>>
          /\ \/ UNCHANGED subscribers
             \/ /\ subscribers' = subscribers \cup {s} /\ feed[s].closed = FALSE
                /\ s \notin leaving \cup switch.closing
      BY <2>4 DEF SubscribeUsage, ReadFeed
    <3> QED
      BY <3>4, <3>5 DEF Feeds
  <2>5. ASSUME NEW s \in Subscribers, Unsubscribe(s)
        PROVE  Feeds'
    BY <2>5 DEF Unsubscribe, Feeds
  <2>6. ASSUME NEW s \in Subscribers, UnsubscribeClose(s)
        PROVE  Feeds'
    <3>1. s \in leaving /\ leaving' = leaving \ {s} /\ CloseFeed(s) /\ UNCHANGED <<subscribers, switch>>
      BY <2>6 DEF UnsubscribeClose
    <3>2. /\ feed' \in [Subscribers -> [load : Int, closed : BOOLEAN]] /\ broken' = FALSE
          /\ \A t \in Subscribers \ {s} : feed'[t] = feed[t]
      BY <3>1, CloseFeeds
    <3> QED
      BY <3>1, <3>2 DEF Feeds
  <2>7. CASE SetUsageStatisticsDisabled \/ \E value \in BOOLEAN : SetEnabled(value)
    <3>1. switch \in [pc : {"idle", "clear", "close"}, closing : SUBSET Subscribers]
      BY DEF Feeds
    <3>2. /\ UNCHANGED <<feed, subscribers, leaving, broken>> /\ switch.pc = "idle"
          /\ switch' = switch \/ switch' = [switch EXCEPT !.pc = "clear"]
      BY <2>7 DEF SetUsageStatisticsDisabled, SetEnabled
    <3>3. /\ switch' \in [pc : {"idle", "clear", "close"}, closing : SUBSET Subscribers]
          /\ switch'.closing = switch.closing
      BY <3>1, <3>2
    <3> QED
      BY <3>2, <3>3 DEF Feeds
  <2>8. CASE Clear
    BY <2>8 DEF Clear, Feeds
  <2>9. CASE ClearClose
    <3>0. switch \in [pc : {"idle", "clear", "close"}, closing : SUBSET Subscribers]
      BY DEF Feeds
    <3>1. CASE switch.closing = {} /\ switch' = [switch EXCEPT !.pc = "idle"] /\ UNCHANGED <<feed, broken>>
      <4>1. /\ switch' \in [pc : {"idle", "clear", "close"}, closing : SUBSET Subscribers]
            /\ switch'.closing = {}
        BY <3>0, <3>1
      <4> QED
        BY <2>9, <3>1, <4>1 DEF ClearClose, Feeds
    <3>2. ASSUME NEW s \in switch.closing, CloseFeed(s), switch' = [switch EXCEPT !.closing = @ \ {s}]
          PROVE  Feeds'
      <4>1. /\ switch' \in [pc : {"idle", "clear", "close"}, closing : SUBSET Subscribers]
            /\ switch'.closing = switch.closing \ {s} /\ switch'.pc = switch.pc
        BY <3>0, <3>2
      <4>2. UNCHANGED <<subscribers, leaving>> /\ switch.pc = "close"
        BY <2>9 DEF ClearClose
      <4>3. /\ feed' \in [Subscribers -> [load : Int, closed : BOOLEAN]] /\ broken' = FALSE
            /\ \A t \in Subscribers \ {s} : feed'[t] = feed[t]
        BY <3>2, CloseFeeds
      <4> QED
        BY <4>1, <4>2, <4>3 DEF Feeds
    <3> QED
      BY <2>9, <3>1, <3>2 DEF ClearClose
  <2> QED
    BY <2>2, <2>3, <2>4, <2>5, <2>6, <2>7, <2>8, <2>9 DEF QueueNext
<1>3. Feeds => FeedsAreClosedOnce
  BY DEF Feeds, FeedsAreClosedOnce
<1> QED
  BY <1>1, <1>2, <1>3, PTL DEF QueueSpec

-----------------------------------------------------------------------------
(* The websocket relay *)

Channel == [msgs : Seq({"chunk"} \cup Terminal), closed : BOOLEAN]
CallerPC == {"idle", "found", "stored", "loaded", "writing", "await", "failing"} \cup Returned

RelayType ==
  /\ sessionClosed \in BOOLEAN
  /\ pending \subseteq Requests
  /\ channel \in [Requests -> Channel]
  /\ caller \in [Requests -> [pc : CallerPC, mode : Modes, got : Nat]]
  /\ provider \in [Requests -> [asked : BOOLEAN, sent : Nat, over : BOOLEAN]]
  /\ watching \subseteq Requests
  /\ \/ reader \in [pc : {"read", "gone"}]
     \/ reader \in [pc : {"send", "end"}, request : Requests, msg : {"chunk"} \cup Terminal]
  /\ \/ cleaner \in [pc : {"no", "conn", "notify", "done"}]
     \/ cleaner \in [pc : {"range"}, first : SUBSET Requests, seen : SUBSET Requests]
     \/ cleaner \in [pc : {"visit", "close"}, first : SUBSET Requests, seen : SUBSET Requests,
                     at : Requests]

(* Cleanup has begun with the pending map, and has replaced it. *)
Cleaning == cleaner.pc \in {"range", "visit", "close"}
Replaced == cleaner.pc \in {"conn", "notify", "done"}

(* A caller that has stored its request has it in the map until the        *)
(* channel is closed.  One that writes or waits has found the session      *)
(* open, so that cleanup knows its request or the channel is closed: and   *)
(* the channels that cleanup has seen are closed, except the one it is at. *)
Relaying ==
  /\ sessionClosed <=> cleaner.pc # "no"
  /\ Cleaning => \A r \in cleaner.seen :
       channel[r].closed \/ (cleaner.pc \in {"visit", "close"} /\ r = cleaner.at)
  /\ \A r \in Requests : ~channel[r].closed =>
       /\ caller[r].pc \in {"stored", "loaded", "writing", "await"} /\ ~Replaced => r \in pending
       /\ caller[r].pc \in {"writing", "await"} => ~Replaced /\ (Cleaning => r \in cleaner.first)

(* Sends, receives and closes on the channel of request r.                 *)
ChannelStep(r) ==
  /\ channel' \in [Requests -> Channel]
  /\ \A s \in Requests : channel[s].closed => channel'[s].closed
  /\ \A s \in Requests \ {r} : channel'[s] = channel[s]

(* TrySend appends to the channel or leaves it.                            *)
LEMMA TrySendStep ==
  ASSUME RelayType, NEW r \in Requests, NEW msg \in {"chunk"} \cup Terminal, TrySend(r, msg)
  PROVE  /\ ChannelStep(r) /\ channel'[r].closed = channel[r].closed
         /\ \/ channel'[r] = channel[r] /\ (r \in lossy' \/ crashed')
            \/ channel'[r].msgs = Append(channel[r].msgs, msg)
         /\ lossy \subseteq lossy' /\ lossy' \subseteq lossy \cup {r}
<1>1. channel[r] \in Channel /\ channel \in [Requests -> Channel]
  BY DEF RelayType
<1>2. CASE UNCHANGED channel /\ (r \in lossy' \/ crashed') /\ lossy' \in {lossy, lossy \cup {r}}
  BY <1>1, <1>2 DEF ChannelStep
<1>3. CASE channel' = [channel EXCEPT ![r].msgs = Append(@, msg)] /\ UNCHANGED <<lossy, crashed>>
  <2> DEFINE c == [channel[r] EXCEPT !.msgs = Append(channel[r].msgs, msg)]
  <2>1. channel[r].msgs \in Seq({"chunk"} \cup Terminal) /\ channel[r].closed \in BOOLEAN
    BY <1>1 DEF Channel
  <2>2. Append(channel[r].msgs, msg) \in Seq({"chunk"} \cup Terminal)
    BY <2>1
  <2>3. c \in Channel /\ c.msgs = Append(channel[r].msgs, msg) /\ c.closed = channel[r].closed
    BY <1>1, <2>2 DEF Channel
  <2>4. channel' = [channel EXCEPT ![r] = c]
    BY <1>3
  <2> HIDE DEF c
  <2> QED
    BY <1>1, <1>3, <2>3, <2>4 DEF ChannelStep
<1>4. CASE channel[r].closed
  BY <1>2, <1>4 DEF TrySend
<1>5. CASE ~channel[r].closed /\ Len(channel[r].msgs) < ChannelCap
  BY <1>3, <1>5 DEF TrySend
<1>6. CASE ~channel[r].closed /\ ~(Len(channel[r].msgs) < ChannelCap)
  BY <1>2, <1>6 DEF TrySend
<1> QED
  BY <1>4, <1>5, <1>6

(* Closing a channel keeps its messages.                                   *)
LEMMA CloseStep ==
  ASSUME RelayType, NEW r \in Requests, channel' = [channel EXCEPT ![r].closed = TRUE]
  PROVE  /\ ChannelStep(r) /\ channel'[r].closed /\ channel'[r].msgs = channel[r].msgs
<1>1. channel[r] \in Channel /\ channel \in [Requests -> Channel]
  BY DEF RelayType
<1> DEFINE c == [channel[r] EXCEPT !.closed = TRUE]
<1>2. c \in Channel /\ c.closed = TRUE /\ c.msgs = channel[r].msgs
  BY <1>1 DEF Channel
<1>3. channel' = [channel EXCEPT ![r] = c]
  OBVIOUS
<1> HIDE DEF c
<1> QED
  BY <1>1, <1>2, <1>3 DEF ChannelStep

(* TakeAndClose takes the request out of the map, closed.                  *)
LEMMA TakeStep ==
  ASSUME RelayType, NEW r \in Requests, TakeAndClose(r)
  PROVE  /\ ChannelStep(r) /\ pending' = pending \ {r}
         /\ channel'[r].msgs = channel[r].msgs
         /\ r \in pending => channel'[r].closed
         /\ r \notin pending => channel' = channel
<1>1. CASE r \in pending
  BY <1>1, CloseStep DEF TakeAndClose
<1>2. CASE r \notin pending
  BY <1>2 DEF TakeAndClose, RelayType, ChannelStep
<1> QED
  BY <1>1, <1>2

(* A caller that goes to another place keeps its mode and its chunks.      *)
LEMMA GoStep ==
  ASSUME RelayType, NEW r \in Requests, NEW pc \in CallerPC, Go(r, pc)
  PROVE  /\ caller' \in [Requests -> [pc : CallerPC, mode : Modes, got : Nat]]
         /\ caller'[r].pc = pc /\ caller'[r].got = caller[r].got /\ caller'[r].mode = caller[r].mode
         /\ \A s \in Requests \ {r} : caller'[s] = caller[s]
<1>1. caller[r] \in [pc : CallerPC, mode : Modes, got : Nat]
  BY DEF RelayType
<1> DEFINE c == [caller[r] EXCEPT !.pc = pc]
<1>2. c \in [pc : CallerPC, mode : Modes, got : Nat] /\ c.pc = pc /\ c.got = caller[r].got
      /\ c.mode = caller[r].mode
  BY <1>1
<1>3. caller' = [caller EXCEPT ![r] = c]
  BY DEF Go
<1> HIDE DEF c
<1> QED
  BY <1>2, <1>3 DEF RelayType

(* A caller that has received a chunk.                                     *)
LEMMA GotStep ==
  ASSUME RelayType, NEW r \in Requests, caller' = [caller EXCEPT ![r].got = @ + 1]
  PROVE  /\ caller' \in [Requests -> [pc : CallerPC, mode : Modes, got : Nat]]
         /\ caller'[r].pc = caller[r].pc /\ caller'[r].got = caller[r].got + 1
         /\ \A s \in Requests \ {r} : caller'[s] = caller[s]
<1>1. caller[r] \in [pc : CallerPC, mode : Modes, got : Nat]
  BY DEF RelayType
<1> DEFINE c == [caller[r] EXCEPT !.got = caller[r].got + 1]
<1>2. caller[r].got + 1 \in Nat
  BY <1>1
<1>3. c \in [pc : CallerPC, mode : Modes, got : Nat] /\ c.got = caller[r].got + 1 /\ c.pc = caller[r].pc
  BY <1>1, <1>2
<1>4. caller' = [caller EXCEPT ![r] = c]
  OBVIOUS
<1> HIDE DEF c
<1> QED
  BY <1>3, <1>4 DEF RelayType

(* A receive takes the first message, if there is one.                     *)
LEMMA ReceiveStep ==
  ASSUME RelayType, NEW r \in Requests, Receive(r)
  PROVE  /\ ChannelStep(r) /\ channel'[r].closed = channel[r].closed
         /\ channel[r].msgs # <<>> => channel'[r].msgs = Tail(channel[r].msgs)
<1>1. channel[r] \in Channel /\ channel \in [Requests -> Channel]
  BY DEF RelayType
<1>2. CASE channel[r].msgs # <<>>
  <2> DEFINE c == [channel[r] EXCEPT !.msgs = Tail(channel[r].msgs)]
  <2>1. channel[r].msgs \in Seq({"chunk"} \cup Terminal)
    BY <1>1 DEF Channel
  <2>2. Tail(channel[r].msgs) \in Seq({"chunk"} \cup Terminal)
    BY <1>2, <2>1
  <2>3. c \in Channel /\ c.msgs = Tail(channel[r].msgs) /\ c.closed = channel[r].closed
    BY <1>1, <2>2 DEF Channel
  <2>4. channel' = [channel EXCEPT ![r] = c]
    BY <1>2 DEF Receive
  <2> HIDE DEF c
  <2> QED
    BY <1>1, <1>2, <2>3, <2>4 DEF ChannelStep
<1>3. CASE channel[r].msgs = <<>>
  BY <1>1, <1>3 DEF Receive, ChannelStep
<1> QED
  BY <1>2, <1>3

(* A step of caller r among the others: it does not write unless the       *)
(* session is open or it was writing, and its request stays in the map     *)
(* unless its channel is closed.                                           *)
LEMMA CallerKeepsRelaying ==
  ASSUME RelayType, Relaying, NEW r \in Requests,
         UNCHANGED <<sessionClosed, cleaner>>,
         ChannelStep(r),
         \A s \in Requests \ {r} : caller'[s] = caller[s] /\ (s \in pending => s \in pending'),
         ~channel'[r].closed =>
            /\ caller'[r].pc \in {"stored", "loaded", "writing", "await"} /\ ~Replaced => r \in pending'
            /\ caller'[r].pc \in {"writing", "await"} => ~Replaced /\ (Cleaning => r \in cleaner.first)
  PROVE  Relaying'
<1>1. Cleaning' = Cleaning /\ Replaced' = Replaced
  BY DEF Cleaning, Replaced
<1>2. sessionClosed' <=> cleaner'.pc # "no"
  BY DEF Relaying
<1>3. Cleaning' => \A s \in cleaner'.seen :
        channel'[s].closed \/ (cleaner'.pc \in {"visit", "close"} /\ s = cleaner'.at)
  <2> SUFFICES ASSUME Cleaning, NEW s \in cleaner.seen
               PROVE  channel'[s].closed \/ (cleaner.pc \in {"visit", "close"} /\ s = cleaner.at)
    BY <1>1
  <2>1. s \in Requests
    BY DEF RelayType, Cleaning
  <2> QED
    BY <2>1 DEF Relaying, ChannelStep
<1>4. ASSUME NEW s \in Requests, ~channel'[s].closed
      PROVE  /\ caller'[s].pc \in {"stored", "loaded", "writing", "await"} /\ ~Replaced' => s \in pending'
             /\ caller'[s].pc \in {"writing", "await"} => ~Replaced' /\ (Cleaning' => s \in cleaner'.first)
  <2>1. CASE s = r
    BY <1>1, <1>4, <2>1
  <2>2. CASE s # r
    <3>1. ~channel[s].closed /\ caller'[s] = caller[s] /\ (s \in pending => s \in pending')
      BY <1>4, <2>2 DEF ChannelStep
    <3> QED
      BY <1>1, <3>1 DEF Relaying
  <2> QED
    BY <2>1, <2>2
<1> QED
  BY <1>2, <1>3, <1>4 DEF Relaying

(* Whoever takes a request out of the map closes its channel.              *)
LEMMA TakenKeepsRelaying ==
  ASSUME RelayType, Relaying, NEW r \in Requests, TakeAndClose(r),
         UNCHANGED <<sessionClosed, cleaner, caller>>
  PROVE  pending' \subseteq Requests /\ channel' \in [Requests -> Channel] /\ Relaying'
<1>1. /\ ChannelStep(r) /\ pending' = pending \ {r}
      /\ r \in pending => channel'[r].closed
      /\ r \notin pending => channel' = channel
  BY TakeStep
<1>2. ~channel'[r].closed =>
        /\ caller'[r].pc \in {"stored", "loaded", "writing", "await"} /\ ~Replaced => r \in pending'
        /\ caller'[r].pc \in {"writing", "await"} => ~Replaced /\ (Cleaning => r \in cleaner.first)
  BY <1>1 DEF Relaying
<1>3. Relaying'
  BY <1>1, <1>2, CallerKeepsRelaying
<1> QED
  BY <1>1, <1>3 DEF RelayType, ChannelStep

(* A message on a channel does not open or close it.                       *)
LEMMA SentKeepsRelaying ==
  ASSUME RelayType, Relaying, NEW r \in Requests, ChannelStep(r),
         channel'[r].closed = channel[r].closed, UNCHANGED <<sessionClosed, pending, cleaner, caller>>
  PROVE  Relaying'
<1>1. ~channel'[r].closed =>
        /\ caller'[r].pc \in {"stored", "loaded", "writing", "await"} /\ ~Replaced => r \in pending'
        /\ caller'[r].pc \in {"writing", "await"} => ~Replaced /\ (Cleaning => r \in cleaner.first)
  BY DEF Relaying
<1> QED
  BY <1>1, CallerKeepsRelaying

(* A frame of the provider is a chunk or ends the answer.                  *)
LEMMA FrameStep ==
  ASSUME RelayType, NEW r \in Requests, NEW msg \in {"chunk"} \cup Terminal, ReadFrame(r, msg)
  PROVE  /\ provider' \in [Requests -> [asked : BOOLEAN, sent : Nat, over : BOOLEAN]]
         /\ provider'[r].asked = provider[r].asked
         /\ msg = "chunk" => /\ provider'[r].sent = provider[r].sent + 1
                             /\ provider'[r].over = provider[r].over
         /\ msg # "chunk" => provider'[r].sent = provider[r].sent /\ provider'[r].over
         /\ \A s \in Requests \ {r} : provider'[s] = provider[s]
<1> DEFINE P == [asked : BOOLEAN, sent : Nat, over : BOOLEAN]
<1>1. provider[r] \in P /\ provider \in [Requests -> P]
  BY DEF RelayType
<1>2. CASE msg = "chunk"
  <2> DEFINE c == [provider[r] EXCEPT !.sent = provider[r].sent + 1]
  <2>1. provider[r].sent + 1 \in Nat
    BY <1>1
  <2>2. /\ c \in P /\ c.sent = provider[r].sent + 1 /\ c.over = provider[r].over
        /\ c.asked = provider[r].asked
    BY <1>1, <2>1
  <2>3. provider' = [provider EXCEPT ![r] = c]
    BY <1>2 DEF ReadFrame
  <2> HIDE DEF c
  <2> QED
    BY <1>1, <1>2, <2>2, <2>3
<1>3. CASE msg # "chunk"
  <2> DEFINE c == [provider[r] EXCEPT !.over = TRUE]
  <2>2. /\ c \in P /\ c.sent = provider[r].sent /\ c.over = TRUE
        /\ c.asked = provider[r].asked
    BY <1>1
  <2>3. provider' = [provider EXCEPT ![r] = c]
    BY <1>3 DEF ReadFrame
  <2> HIDE DEF c
  <2> QED
    BY <1>1, <1>3, <2>2, <2>3
<1> QED
  BY <1>2, <1>3

(* The request has been written.                                           *)
LEMMA AskStep ==
  ASSUME RelayType, NEW r \in Requests, provider' = [provider EXCEPT ![r].asked = TRUE]
  PROVE  /\ provider' \in [Requests -> [asked : BOOLEAN, sent : Nat, over : BOOLEAN]]
         /\ provider'[r].asked
         /\ \A s \in Requests : provider'[s].sent = provider[s].sent /\ provider'[s].over = provider[s].over
         /\ \A s \in Requests \ {r} : provider'[s] = provider[s]
<1> DEFINE P == [asked : BOOLEAN, sent : Nat, over : BOOLEAN]
           c == [provider[r] EXCEPT !.asked = TRUE]
<1>1. provider[r] \in P /\ provider \in [Requests -> P]
  BY DEF RelayType
<1>2. c \in P /\ c.asked = TRUE /\ c.sent = provider[r].sent /\ c.over = provider[r].over
  BY <1>1
<1>3. provider' = [provider EXCEPT ![r] = c]
  OBVIOUS
<1> HIDE DEF c
<1> QED
  BY <1>1, <1>2, <1>3

(* The callers.                                                            *)
LEMMA CallStep ==
  ASSUME RelayType, Relaying, NEW r \in Requests,
         Send(r) \/ Cancel(r) \/ Call(r) \/ GiveUp(r) \/ Watch(r)
  PROVE  RelayType' /\ Relaying'
<1> USE DEF CallerPC, Returned
<1>1. CASE Send(r)
  <2>1. PICK c \in [pc : CallerPC, mode : Modes, got : Nat] :
          c.pc \in {"found", "failed"} /\ caller' = [caller EXCEPT ![r] = c]
    <3>1. PICK mode \in Modes :
            caller' = [caller EXCEPT ![r] = [pc |-> IF registered THEN "found" ELSE "failed",
                                             mode |-> mode, got |-> 0]]
      BY <1>1 DEF Send
    <3> DEFINE c == [pc |-> IF registered THEN "found" ELSE "failed", mode |-> mode, got |-> 0]
    <3>2. c \in [pc : CallerPC, mode : Modes, got : Nat] /\ c.pc \in {"found", "failed"}
      OBVIOUS
    <3> HIDE DEF c
    <3>3. caller' = [caller EXCEPT ![r] = c]
      BY <3>1 DEF c
    <3> QED
      BY <3>2, <3>3
  <2>2. UNCHANGED <<sessionClosed, cleaner, pending, channel, provider, watching, reader>>
    BY <1>1 DEF Send
  <2>3. /\ caller' \in [Requests -> [pc : CallerPC, mode : Modes, got : Nat]]
        /\ caller'[r].pc \in {"found", "failed"} /\ \A s \in Requests \ {r} : caller'[s] = caller[s]
    BY <2>1 DEF RelayType
  <2>4. RelayType'
    BY <2>2, <2>3 DEF RelayType
  <2>5. ChannelStep(r)
    BY <2>2 DEF ChannelStep, RelayType
  <2> QED
    BY <2>2, <2>3, <2>4, <2>5, CallerKeepsRelaying
<1>2. CASE Cancel(r)
  <2>1. UNCHANGED <<sessionClosed, cleaner, pending, channel, provider, watching, reader, caller>>
    BY <1>2 DEF Cancel
  <2> QED
    BY <2>1 DEF RelayType, Relaying, Cleaning, Replaced
<1>3. ASSUME NEW pc \in CallerPC, Go(r, pc),
             UNCHANGED <<sessionClosed, cleaner, channel, reader>>,
             provider' \in [Requests -> [asked : BOOLEAN, sent : Nat, over : BOOLEAN]],
             pending' \in {pending, pending \cup {r}}, watching' \in {watching, watching \cup {r}},
             ~channel[r].closed =>
               /\ pc \in {"stored", "loaded", "writing", "await"} /\ ~Replaced => r \in pending'
               /\ pc \in {"writing", "await"} => ~Replaced /\ (Cleaning => r \in cleaner.first)
      PROVE  RelayType' /\ Relaying'
  <2>1. /\ caller' \in [Requests -> [pc : CallerPC, mode : Modes, got : Nat]]
        /\ caller'[r].pc = pc
        /\ \A s \in Requests \ {r} : caller'[s] = caller[s]
    BY <1>3, GoStep
  <2>2. ChannelStep(r)
    BY <1>3 DEF ChannelStep, RelayType
  <2>3. RelayType'
    <3>1. pending' \subseteq Requests /\ watching' \subseteq Requests
      BY <1>3 DEF RelayType
    <3> QED
      BY <1>3, <2>1, <3>1 DEF RelayType
  <2>4. Relaying'
    BY <1>3, <2>1, <2>2, CallerKeepsRelaying
  <2> QED
    BY <2>3, <2>4
<1>4. CASE Store(r)
  <2>1. /\ Go(r, "stored") /\ pending' = pending \cup {r}
        /\ UNCHANGED <<sessionClosed, cleaner, channel, reader, watching, provider>>
    BY <1>4 DEF Store
  <2>2. provider' \in [Requests -> [asked : BOOLEAN, sent : Nat, over : BOOLEAN]]
    BY <2>1 DEF RelayType
  <2> QED
    BY <1>3, <2>1, <2>2
<1>5. CASE LoadBack(r)
  <2>1. PICK pc \in {"loaded", "panicked"} : Go(r, pc) /\ (pc = "loaded" => r \in pending)
    BY <1>5 DEF LoadBack
  <2>2. UNCHANGED <<sessionClosed, cleaner, channel, reader, watching, provider, pending>>
    BY <1>5 DEF LoadBack
  <2>3. provider' \in [Requests -> [asked : BOOLEAN, sent : Nat, over : BOOLEAN]]
    BY <2>2 DEF RelayType
  <2>4. pc \in CallerPC
    OBVIOUS
  <2> QED
    BY <1>3, <2>1, <2>2, <2>3, <2>4
<1>6. CASE SendCheck(r)
  <2>1. PICK pc \in {"failing", "writing"} : Go(r, pc) /\ (pc = "writing" => ~sessionClosed)
    BY <1>6 DEF SendCheck
  <2>2. /\ UNCHANGED <<sessionClosed, cleaner, channel, reader, watching, provider, pending>>
        /\ caller[r].pc = "loaded"
    BY <1>6 DEF SendCheck
  <2>3. provider' \in [Requests -> [asked : BOOLEAN, sent : Nat, over : BOOLEAN]]
    BY <2>2 DEF RelayType
  <2>4. pc \in CallerPC
    OBVIOUS
  <2>5. pc = "writing" => ~Replaced /\ ~Cleaning
    BY <2>1 DEF Relaying, Replaced, Cleaning
  <2>6. ~channel[r].closed /\ ~Replaced => r \in pending
    BY <2>2 DEF Relaying
  <2> QED
    BY <1>3, <2>1, <2>2, <2>3, <2>4, <2>5, <2>6
<1>7. CASE Write(r)
  <2>1. /\ UNCHANGED <<sessionClosed, cleaner, channel, reader, pending>>
        /\ caller[r].pc = "writing"
    BY <1>7 DEF Write
  <2>2. PICK pc \in {"await", "failing"} : Go(r, pc)
    BY <1>7 DEF Write
  <2>3. provider' = provider \/ provider' = [provider EXCEPT ![r].asked = TRUE]
    BY <1>7 DEF Write
  <2>4. provider' \in [Requests -> [asked : BOOLEAN, sent : Nat, over : BOOLEAN]]
    BY <2>3, AskStep DEF RelayType
  <2>5. watching' \in {watching, watching \cup {r}}
    BY <1>7 DEF Write
  <2>6. pc \in CallerPC
    OBVIOUS
  <2>7. ~channel[r].closed =>
          /\ ~Replaced => r \in pending
          /\ ~Replaced /\ (Cleaning => r \in cleaner.first)
    BY <2>1 DEF Relaying
  <2> QED
    BY <1>3, <2>1, <2>2, <2>4, <2>5, <2>6, <2>7
<1>8. ASSUME NEW pc \in Returned, Go(r, pc), ChannelStep(r), pending' \in {pending, pending \ {r}},
             UNCHANGED <<sessionClosed, cleaner, reader, watching, provider>>
      PROVE  RelayType' /\ Relaying'
  <2>1. /\ caller' \in [Requests -> [pc : CallerPC, mode : Modes, got : Nat]]
        /\ caller'[r].pc = pc
        /\ \A s \in Requests \ {r} : caller'[s] = caller[s]
    BY <1>8, GoStep
  <2>2. pending' \subseteq Requests /\ \A s \in Requests \ {r} : s \in pending => s \in pending'
    BY <1>8 DEF RelayType
  <2>3. RelayType'
    BY <1>8, <2>1, <2>2 DEF RelayType, ChannelStep
  <2>4. Relaying'
    BY <1>8, <2>1, <2>2, CallerKeepsRelaying
  <2> QED
    BY <2>3, <2>4
<1>9. CASE SendFailed(r)
  <2>1. /\ TakeAndClose(r) /\ Go(r, "failed")
        /\ UNCHANGED <<sessionClosed, cleaner, reader, watching, provider>>
    BY <1>9 DEF SendFailed
  <2>2. ChannelStep(r) /\ pending' \in {pending, pending \ {r}}
    BY <2>1, TakeStep
  <2> QED
    BY <1>8, <2>1, <2>2
<1>10. CASE Receive(r)
  <2>1. /\ UNCHANGED <<sessionClosed, cleaner, reader, watching, provider, pending>>
        /\ caller[r].pc = "await"
    BY <1>10 DEF Receive
  <2>2. ChannelStep(r) /\ channel'[r].closed = channel[r].closed
    BY <1>10, ReceiveStep
  <2>3. (\E pc \in Returned : Go(r, pc)) \/ caller' = [caller EXCEPT ![r].got = @ + 1]
    <3>1. \/ Go(r, "ok") \/ Go(r, "failed") \/ caller' = [caller EXCEPT ![r].got = @ + 1]
      BY <1>10 DEF Receive
    <3> QED
      BY <3>1
  <2>4. CASE \E pc \in Returned : Go(r, pc)
    BY <1>8, <2>1, <2>2, <2>4
  <2>5. CASE caller' = [caller EXCEPT ![r].got = @ + 1]
    <3>1. /\ caller' \in [Requests -> [pc : CallerPC, mode : Modes, got : Nat]]
          /\ caller'[r].pc = caller[r].pc
          /\ \A s \in Requests \ {r} : caller'[s] = caller[s]
      BY <2>5, GotStep
    <3>2. RelayType'
      BY <2>1, <2>2, <3>1 DEF RelayType, ChannelStep
    <3>3. Relaying'
      <4>1. ~channel'[r].closed =>
              /\ ~Replaced => r \in pending'
              /\ ~Replaced /\ (Cleaning => r \in cleaner.first)
        BY <2>1, <2>2 DEF Relaying
      <4> QED
        BY <2>1, <2>2, <3>1, <4>1, CallerKeepsRelaying
    <3> QED
      BY <3>2, <3>3
  <2> QED
    BY <2>3, <2>4, <2>5
<1>11. CASE GiveUp(r)
  <2>1. Go(r, "failed") /\ UNCHANGED <<sessionClosed, cleaner, reader, watching, provider, pending, channel>>
    BY <1>11 DEF GiveUp
  <2>2. ChannelStep(r)
    BY <2>1 DEF ChannelStep, RelayType
  <2> QED
    BY <1>8, <2>1, <2>2
<1>12. CASE Watch(r)
  <2>1. UNCHANGED <<sessionClosed, cleaner, reader, provider, caller>> /\ watching' = watching \ {r}
    BY <1>12 DEF Watch
  <2>2. CASE TakeAndClose(r)
    BY <2>1, <2>2, TakenKeepsRelaying DEF RelayType
  <2>3. CASE UNCHANGED <<pending, channel>>
    BY <2>1, <2>3 DEF RelayType, Relaying, Cleaning, Replaced
  <2> QED
    BY <1>12, <2>2, <2>3 DEF Watch
<1> QED
  BY <1>1, <1>2, <1>4, <1>5, <1>6, <1>7, <1>9, <1>10, <1>11, <1>12 DEF Call

(* The reader.                                                             *)
LEMMA ReaderStep ==
  ASSUME RelayType, Relaying,
         Dispatch \/ \E r \in Requests, msg \in {"chunk"} \cup Terminal : ReadFrame(r, msg)
  PROVE  RelayType' /\ Relaying'
<1>1. ASSUME NEW r \in Requests, NEW msg \in {"chunk"} \cup Terminal, ReadFrame(r, msg)
      PROVE  RelayType' /\ Relaying'
  <2>1. UNCHANGED <<sessionClosed, pending, channel, caller, watching, cleaner>>
    BY <1>1 DEF ReadFrame
  <2>2. provider' \in [Requests -> [asked : BOOLEAN, sent : Nat, over : BOOLEAN]]
    BY <1>1, FrameStep
  <2>3. reader' = reader \/ reader' = [pc |-> "send", request |-> r, msg |-> msg]
    BY <1>1 DEF ReadFrame
  <2>4. \/ reader' \in [pc : {"read", "gone"}]
        \/ reader' \in [pc : {"send", "end"}, request : Requests, msg : {"chunk"} \cup Terminal]
    BY <2>3 DEF RelayType
  <2>5. RelayType'
    BY <2>1, <2>2, <2>4 DEF RelayType
  <2>6. Relaying'
    BY <2>1 DEF Relaying, Cleaning, Replaced
  <2> QED
    BY <2>5, <2>6
<1>2. CASE DispatchSend
  <2>0. reader \in [pc : {"send", "end"}, request : Requests, msg : {"chunk"} \cup Terminal]
    BY <1>2 DEF DispatchSend, RelayType
  <2>1. UNCHANGED <<sessionClosed, pending, caller, watching, provider, cleaner>>
    BY <1>2 DEF DispatchSend
  <2>2. ChannelStep(reader.request) /\ channel'[reader.request].closed = channel[reader.request].closed
    BY <1>2, <2>0, TrySendStep DEF DispatchSend
  <2>3. reader' = [reader EXCEPT !.pc = "end"] \/ reader' = [pc |-> "read"]
    BY <1>2 DEF DispatchSend
  <2>4. \/ reader' \in [pc : {"read", "gone"}]
        \/ reader' \in [pc : {"send", "end"}, request : Requests, msg : {"chunk"} \cup Terminal]
    BY <2>0, <2>3
  <2>5. RelayType'
    BY <2>1, <2>2, <2>4 DEF RelayType, ChannelStep
  <2>6. Relaying'
    BY <2>0, <2>1, <2>2, SentKeepsRelaying
  <2> QED
    BY <2>5, <2>6
<1>3. CASE DispatchEnd
  <2>0. reader \in [pc : {"send", "end"}, request : Requests, msg : {"chunk"} \cup Terminal]
    BY <1>3 DEF DispatchEnd, RelayType
  <2>1. /\ UNCHANGED <<sessionClosed, caller, watching, provider, cleaner>> /\ TakeAndClose(reader.request)
        /\ reader' = [pc |-> "read"]
    BY <1>3 DEF DispatchEnd
  <2> QED
    BY <2>0, <2>1, TakenKeepsRelaying DEF RelayType
<1>4. CASE ReaderEnds
  <2>1. /\ UNCHANGED <<sessionClosed, pending, channel, caller, watching, provider, cleaner>>
        /\ reader' = [pc |-> "gone"]
    BY <1>4 DEF ReaderEnds
  <2> QED
    BY <2>1 DEF RelayType, Relaying, Cleaning, Replaced
<1> QED
  BY <1>1, <1>2, <1>3, <1>4 DEF Dispatch

(* Cleanup, and what starts it.                                            *)
LEMMA CleanupStep ==
  ASSUME RelayType, Relaying, Cleanup \/ ReadError \/ HeartbeatFails \/ StopRelay
  PROVE  RelayType' /\ Relaying'
<1>1. ASSUME Close, UNCHANGED <<pending, channel, caller, watching, provider>>,
             reader' = reader \/ reader' = [pc |-> "gone"]
      PROVE  RelayType' /\ Relaying'
  <2>1. /\ cleaner.pc = "no" /\ sessionClosed' = TRUE
        /\ cleaner' = [pc |-> "range", first |-> pending, seen |-> {}]
    BY <1>1 DEF Close
  <2>2. RelayType'
    BY <1>1, <2>1 DEF RelayType
  <2>3. Cleaning' /\ ~Replaced' /\ cleaner'.seen = {} /\ cleaner'.first = pending /\ cleaner'.pc # "no"
        /\ ~Replaced
    BY <2>1 DEF Cleaning, Replaced
  <2>4. Relaying'
    BY <1>1, <2>1, <2>3 DEF Relaying
  <2> QED
    BY <2>2, <2>4
<1>2. CASE ReadError \/ HeartbeatFails
  BY <1>1, <1>2 DEF ReadError, HeartbeatFails
<1>3. CASE StopRelay
  <2>1. CASE Close
    BY <1>1, <1>3, <2>1 DEF StopRelay
  <2>2. CASE UNCHANGED <<sessionClosed, cleaner>>
    BY <1>3, <2>2 DEF StopRelay, RelayType, Relaying, Cleaning, Replaced
  <2> QED
    BY <1>3, <2>1, <2>2 DEF StopRelay
<1>4. ASSUME NEW r \in Requests, RangeNext(r)
      PROVE  RelayType' /\ Relaying'
  <2>1. /\ UNCHANGED <<sessionClosed, pending, channel, caller, watching, provider, reader>>
        /\ cleaner.pc = "range"
        /\ cleaner' = [pc |-> "visit", first |-> cleaner.first, seen |-> cleaner.seen \cup {r}, at |-> r]
    BY <1>4 DEF RangeNext
  <2>2. cleaner \in [pc : {"range"}, first : SUBSET Requests, seen : SUBSET Requests]
    BY <2>1 DEF RelayType
  <2>3. RelayType'
    BY <2>1, <2>2 DEF RelayType
  <2>4. /\ Cleaning /\ Cleaning' /\ ~Replaced' /\ ~Replaced /\ cleaner'.first = cleaner.first
        /\ cleaner'.at = r /\ cleaner'.seen = cleaner.seen \cup {r} /\ cleaner'.pc = "visit"
    BY <2>1 DEF Cleaning, Replaced
  <2>5. Relaying'
    BY <2>1, <2>4 DEF Relaying
  <2> QED
    BY <2>3, <2>5
<1>5. CASE RangeSend
  <2>0. cleaner \in [pc : {"visit", "close"}, first : SUBSET Requests, seen : SUBSET Requests,
                     at : Requests]
    BY <1>5 DEF RangeSend, RelayType
  <2>1. /\ UNCHANGED <<sessionClosed, pending, caller, watching, provider, reader>>
        /\ cleaner.pc = "visit" /\ cleaner' = [cleaner EXCEPT !.pc = "close"]
    BY <1>5 DEF RangeSend
  <2>2. /\ ChannelStep(cleaner.at) /\ channel'[cleaner.at].closed = channel[cleaner.at].closed
    <3>1. cleaner.at \in Requests /\ TrySend(cleaner.at, "error") /\ "error" \in {"chunk"} \cup Terminal
      BY <1>5, <2>0 DEF RangeSend, Terminal
    <3> QED
      BY <3>1, TrySendStep
  <2>3. /\ cleaner' \in [pc : {"visit", "close"}, first : SUBSET Requests, seen : SUBSET Requests,
                         at : Requests]
        /\ cleaner'.pc = "close" /\ cleaner'.first = cleaner.first /\ cleaner'.seen = cleaner.seen
        /\ cleaner'.at = cleaner.at
    BY <2>0, <2>1
  <2>4. RelayType'
    BY <2>1, <2>2, <2>3 DEF RelayType, ChannelStep
  <2>5. Cleaning /\ Cleaning' /\ ~Replaced' /\ ~Replaced
    BY <2>1, <2>3 DEF Cleaning, Replaced
  <2>6. \A s \in Requests : channel'[s].closed = channel[s].closed
    BY <2>0, <2>2 DEF ChannelStep
  <2>7. cleaner.seen \subseteq Requests
    BY <2>0
  <2>8. Relaying'
    BY <2>1, <2>3, <2>5, <2>6, <2>7 DEF Relaying
  <2> QED
    BY <2>4, <2>8
<1>6. CASE RangeClose
  <2>0. cleaner \in [pc : {"visit", "close"}, first : SUBSET Requests, seen : SUBSET Requests,
                     at : Requests]
    BY <1>6 DEF RangeClose, RelayType
  <2>1. /\ UNCHANGED <<sessionClosed, pending, caller, watching, provider, reader>>
        /\ cleaner.pc = "close" /\ channel' = [channel EXCEPT ![cleaner.at].closed = TRUE]
        /\ cleaner' = [pc |-> "range", first |-> cleaner.first, seen |-> cleaner.seen]
    BY <1>6 DEF RangeClose
  <2>2. ChannelStep(cleaner.at) /\ channel'[cleaner.at].closed
    BY <2>0, <2>1, CloseStep
  <2>3. /\ cleaner' \in [pc : {"range"}, first : SUBSET Requests, seen : SUBSET Requests]
        /\ cleaner'.pc = "range" /\ cleaner'.first = cleaner.first /\ cleaner'.seen = cleaner.seen
    BY <2>0, <2>1
  <2>4. RelayType'
    BY <2>1, <2>2, <2>3 DEF RelayType, ChannelStep
  <2>5. Cleaning /\ Cleaning' /\ ~Replaced' /\ ~Replaced
    BY <2>1, <2>3 DEF Cleaning, Replaced
  <2>6. /\ \A s \in Requests : ~channel'[s].closed => ~channel[s].closed
        /\ \A s \in cleaner.seen : channel'[s].closed
    BY <2>0, <2>2, <2>5 DEF ChannelStep, Relaying
  <2>7. Relaying'
    BY <2>1, <2>3, <2>5, <2>6 DEF Relaying
  <2> QED
    BY <2>4, <2>7
<1>7. CASE ReplacePending
  <2>1. /\ UNCHANGED <<sessionClosed, channel, caller, watching, provider, reader>>
        /\ cleaner.pc = "range" /\ cleaner.first \cap pending \subseteq cleaner.seen
        /\ pending' = {} /\ cleaner' = [pc |-> "conn"]
    BY <1>7 DEF ReplacePending, RangeOver
  <2>2. RelayType'
    BY <2>1 DEF RelayType
  <2>3. Cleaning /\ ~Replaced /\ ~Cleaning' /\ Replaced'
    BY <2>1 DEF Cleaning, Replaced
  <2>4. \A s \in Requests : caller[s].pc \in {"writing", "await"} => channel[s].closed
    BY <2>1, <2>3 DEF Relaying
  <2>5. Relaying'
    BY <2>1, <2>3, <2>4 DEF Relaying
  <2> QED
    BY <2>2, <2>5
<1>8. CASE CloseConn \/ HandleSessionClosed
  <2>1. /\ UNCHANGED <<sessionClosed, channel, caller, watching, provider, reader, pending>>
        /\ cleaner.pc \in {"conn", "notify"} /\ cleaner' \in [pc : {"notify", "done"}]
    BY <1>8 DEF CloseConn, HandleSessionClosed
  <2>2. RelayType'
    BY <2>1 DEF RelayType
  <2>3. ~Cleaning /\ Replaced /\ ~Cleaning' /\ Replaced' /\ cleaner'.pc # "no" /\ cleaner.pc # "no"
    BY <2>1 DEF Cleaning, Replaced
  <2>5. Relaying'
    BY <2>1, <2>3 DEF Relaying
  <2> QED
    BY <2>2, <2>5
<1> QED
  BY <1>2, <1>3, <1>4, <1>5, <1>6, <1>7, <1>8 DEF Cleanup

(* Every step of the relay.                                                *)
LEMMA RelayStep ==
  ASSUME RelayType, Relaying, [RelayNext]_relayVars
  PROVE  RelayType' /\ Relaying'
<1>1. CASE UNCHANGED relayVars
  BY <1>1 DEF relayVars, RelayType, Relaying, Cleaning, Replaced
<1>2. CASE TornPending
  <2>1. UNCHANGED <<sessionClosed, pending, channel, watching, provider, reader, cleaner>>
    BY <1>2 DEF TornPending
  <2>2. CASE UNCHANGED caller
    BY <2>1, <2>2 DEF RelayType, Relaying, Cleaning, Replaced
  <2>3. ASSUME NEW r \in Requests, Go(r, "panicked")
        PROVE  RelayType' /\ Relaying'
    <3>1. "panicked" \in CallerPC
      BY DEF CallerPC, Returned
    <3>2. /\ caller' \in [Requests -> [pc : CallerPC, mode : Modes, got : Nat]]
          /\ caller'[r].pc = "panicked" /\ \A s \in Requests \ {r} : caller'[s] = caller[s]
      BY <2>3, <3>1, GoStep
    <3>3. ChannelStep(r)
      BY <2>1 DEF RelayType, ChannelStep
    <3>4. Relaying'
      BY <2>1, <3>2, <3>3, CallerKeepsRelaying
    <3> QED
      BY <2>1, <3>2, <3>4 DEF RelayType
  <2> QED
    BY <1>2, <2>2, <2>3 DEF TornPending
<1> QED
  BY <1>1, <1>2, CallStep, ReaderStep, CleanupStep DEF RelayNext, RelayEnvironment

(* Where the relay starts.                                                 *)
LEMMA RelayStart == RelayInit => RelayType /\ Relaying
<1> SUFFICES ASSUME RelayInit PROVE RelayType /\ Relaying
  OBVIOUS
<1>1. channel \in [Requests -> Channel]
  <2>1. [msgs |-> <<>>, closed |-> FALSE] \in Channel
    BY DEF Channel
  <2> QED
    BY <2>1 DEF RelayInit
<1>2. caller \in [Requests -> [pc : CallerPC, mode : Modes, got : Nat]]
  <2>1. [pc |-> "idle", mode |-> "stream", got |-> 0] \in [pc : CallerPC, mode : Modes, got : Nat]
    BY DEF CallerPC, Modes
  <2> QED
    BY <2>1 DEF RelayInit
<1>3. provider \in [Requests -> [asked : BOOLEAN, sent : Nat, over : BOOLEAN]]
  BY DEF RelayInit
<1>4. RelayType
  BY <1>1, <1>2, <1>3 DEF RelayInit, RelayType
<1>5. Relaying
  BY DEF RelayInit, Relaying, Cleaning, Replaced
<1> QED
  BY <1>4, <1>5

(* When cleanup has let go of the map, the channel of every caller that    *)
(* waits is closed.                                                        *)
THEOREM NobodyIsLeftWaiting == RelaySpec => []NoCallerIsStranded
<1>1. RelayType /\ Relaying => NoCallerIsStranded
  BY DEF Relaying, Replaced, NoCallerIsStranded
<1> QED
  BY <1>1, RelayStart, RelayStep, PTL DEF RelaySpec

(* What the messages of a channel, in order, say of an answer: only        *)
(* chunks, or an end, and then one that is true: that it has failed, or    *)
(* that it is complete with the chunks before it.                          *)
OnlyChunks(m) == \A j \in 1 .. Len(m) : m[j] = "chunk"

Tells(m, got, sent, over) ==
  \E k \in 1 .. Len(m) :
    /\ \A j \in 1 .. k - 1 : m[j] = "chunk"
    /\ m[k] = "error" \/ (m[k] \in {"response", "end"} /\ over /\ got + (k - 1) = sent)

Unwritten == {"idle", "found", "stored", "loaded", "writing"}

Told(r) == Tells(channel[r].msgs, caller[r].got, provider[r].sent, provider[r].over)

OnItsWay(r) == IF reader.pc = "send" /\ reader.request = r /\ reader.msg = "chunk" THEN 1 ELSE 0

(* No chunk of the answer is lost.                                         *)
Counted(r) ==
  /\ ~channel[r].closed /\ OnlyChunks(channel[r].msgs)
  /\ caller[r].got + Len(channel[r].msgs) + OnItsWay(r) = provider[r].sent

(* A request's answer: nothing of it before the request is written, and    *)
(* then it is counted until the channel tells its end; whoever is about to *)
(* close the channel has told it.                                          *)
Answered(r) ==
  /\ ~provider[r].asked => ~provider[r].over /\ provider[r].sent = 0 /\ caller[r].got = 0
  /\ caller[r].pc \in Unwritten => ~provider[r].asked
  /\ caller[r].pc = "await" => provider[r].asked
  /\ reader.pc = "send" /\ reader.request = r =>
       provider[r].asked /\ (reader.msg # "chunk" => provider[r].over)
  /\ caller[r].pc = "ok" => \/ provider[r].over /\ caller[r].got = provider[r].sent
                            \/ r \in lossy \cup cancelled
  /\ ~crashed /\ r \notin lossy \cup cancelled /\ caller[r].pc \in Unwritten \cup {"await"} =>
       /\ Told(r) \/ Counted(r)
       /\ reader.pc = "end" /\ reader.request = r => Told(r)
       /\ cleaner.pc = "close" /\ cleaner.at = r => Told(r)

Frames == {"chunk"} \cup Terminal

(* A message behind the end of an answer.                                  *)
LEMMA AppendTells ==
  ASSUME NEW m \in Seq(Frames), NEW x \in Frames, NEW got \in Nat, NEW sent \in Nat, NEW over,
         Tells(m, got, sent, over)
  PROVE  Tells(Append(m, x), got, sent, over)
<1>1. PICK k \in 1 .. Len(m) :
        /\ \A j \in 1 .. k - 1 : m[j] = "chunk"
        /\ m[k] = "error" \/ (m[k] \in {"response", "end"} /\ over /\ got + (k - 1) = sent)
  BY DEF Tells
<1>2. /\ Len(Append(m, x)) = Len(m) + 1 /\ \A j \in 1 .. Len(m) : Append(m, x)[j] = m[j]
      /\ Len(m) \in Nat
  OBVIOUS
<1>3. k \in 1 .. Len(Append(m, x)) /\ \A j \in 1 .. k - 1 : j \in 1 .. Len(m)
  BY <1>2
<1> QED
  BY <1>1, <1>2, <1>3 DEF Tells

(* The end of an answer behind its chunks.                                 *)
LEMMA AppendEnd ==
  ASSUME NEW m \in Seq(Frames), NEW x \in Frames, NEW got \in Nat, NEW sent \in Nat, NEW over,
         OnlyChunks(m), x = "error" \/ (x \in {"response", "end"} /\ over /\ got + Len(m) = sent)
  PROVE  Tells(Append(m, x), got, sent, over)
<1>1. /\ Len(Append(m, x)) = Len(m) + 1 /\ \A j \in 1 .. Len(m) : Append(m, x)[j] = m[j]
      /\ Append(m, x)[Len(m) + 1] = x /\ Len(m) \in Nat
  OBVIOUS
<1>2. Len(m) + 1 \in 1 .. Len(Append(m, x)) /\ (Len(m) + 1) - 1 = Len(m)
  BY <1>1
<1>3. \A j \in 1 .. (Len(m) + 1) - 1 : Append(m, x)[j] = "chunk"
  BY <1>1, <1>2 DEF OnlyChunks
<1> QED
  BY <1>1, <1>2, <1>3 DEF Tells

(* Another chunk.                                                          *)
LEMMA AppendChunk ==
  ASSUME NEW m \in Seq(Frames), OnlyChunks(m)
  PROVE  OnlyChunks(Append(m, "chunk")) /\ Len(Append(m, "chunk")) = Len(m) + 1
<1>1. "chunk" \in Frames
  BY DEF Frames
<1> QED
  BY <1>1 DEF OnlyChunks

(* Receiving the first message.                                            *)
LEMMA ReceiveFirst ==
  ASSUME NEW m \in Seq(Frames), m # <<>>, NEW got \in Nat, NEW sent \in Nat, NEW over
  PROVE  /\ OnlyChunks(m) => Head(m) = "chunk" /\ OnlyChunks(Tail(m)) /\ Len(Tail(m)) + 1 = Len(m)
         /\ Tells(m, got, sent, over) /\ Head(m) = "chunk" => Tells(Tail(m), got + 1, sent, over)
         /\ Tells(m, got, sent, over) /\ Head(m) \in {"response", "end"} => over /\ got = sent
<1>1. /\ Len(Tail(m)) + 1 = Len(m) /\ \A j \in 1 .. Len(Tail(m)) : Tail(m)[j] = m[j + 1]
      /\ Head(m) = m[1] /\ Len(m) \in Nat \ {0} /\ Len(Tail(m)) \in Nat
  OBVIOUS
<1>2. OnlyChunks(m) => Head(m) = "chunk" /\ OnlyChunks(Tail(m))
  BY <1>1 DEF OnlyChunks
<1>3. ASSUME Tells(m, got, sent, over)
      PROVE  /\ Head(m) = "chunk" => Tells(Tail(m), got + 1, sent, over)
             /\ Head(m) \in {"response", "end"} => over /\ got = sent
  <2>1. PICK k \in 1 .. Len(m) :
          /\ \A j \in 1 .. k - 1 : m[j] = "chunk"
          /\ m[k] = "error" \/ (m[k] \in {"response", "end"} /\ over /\ got + (k - 1) = sent)
    BY <1>3 DEF Tells
  <2>2. CASE k = 1
    BY <1>1, <2>1, <2>2
  <2>3. CASE k # 1
    <3>1. 1 \in 1 .. k - 1 /\ k - 1 \in 1 .. Len(Tail(m)) /\ (k - 1) + 1 = k
      BY <1>1, <2>3
    <3>2. Head(m) = "chunk" /\ Tail(m)[k - 1] = m[k]
      BY <1>1, <2>1, <3>1
    <3>3. \A j \in 1 .. (k - 1) - 1 : Tail(m)[j] = "chunk"
      <4> SUFFICES ASSUME NEW j \in 1 .. (k - 1) - 1 PROVE Tail(m)[j] = "chunk"
        OBVIOUS
      <4>1. j \in 1 .. Len(Tail(m)) /\ j + 1 \in 1 .. k - 1
        BY <3>1
      <4> QED
        BY <1>1, <2>1, <4>1
    <3>4. got + (k - 1) = sent => (got + 1) + ((k - 1) - 1) = sent
      OBVIOUS
    <3> QED
      BY <2>1, <3>1, <3>2, <3>3, <3>4 DEF Tells
  <2> QED
    BY <2>2, <2>3
<1> QED
  BY <1>1, <1>2, <1>3

(* What the parts of a request are.                                        *)
LEMMA RequestTypes ==
  ASSUME RelayType, NEW r \in Requests
  PROVE  /\ channel[r].msgs \in Seq(Frames) /\ channel[r].closed \in BOOLEAN
         /\ caller[r].pc \in CallerPC /\ caller[r].got \in Nat
         /\ provider[r].sent \in Nat /\ provider[r].asked \in BOOLEAN /\ provider[r].over \in BOOLEAN
<1>1. channel[r] \in Channel /\ caller[r] \in [pc : CallerPC, mode : Modes, got : Nat]
      /\ provider[r] \in [asked : BOOLEAN, sent : Nat, over : BOOLEAN]
  BY DEF RelayType
<1> QED
  BY <1>1 DEF Channel, Frames

(* A step that does not touch a request leaves its answer as it is.        *)
LEMMA AnswerFrame ==
  ASSUME NEW r \in Requests, Answered(r),
         channel'[r] = channel[r], caller'[r] = caller[r], provider'[r] = provider[r],
         \/ reader' = reader
         \/ /\ reader.pc \in {"read", "gone"} \/ reader.request # r
            /\ reader'.pc \in {"read", "gone"} \/ reader'.request # r,
         cleaner'.pc = "close" /\ cleaner'.at = r => cleaner.pc = "close" /\ cleaner.at = r,
         lossy \subseteq lossy', cancelled \subseteq cancelled', crashed => crashed'
  PROVE  Answered(r)'
<1>1. OnItsWay(r)' = OnItsWay(r)
  BY DEF OnItsWay
<1>2. Told(r)' = Told(r) /\ Counted(r)' = Counted(r)
  BY <1>1 DEF Told, Counted
<1> QED
  BY <1>2 DEF Answered

(* A caller that moves on.                                                 *)
LEMMA AnswerGo ==
  ASSUME NEW r \in Requests, Answered(r),
         UNCHANGED <<reader, cleaner, lossy, cancelled>>, channel'[r] = channel[r],
         provider'[r].sent = provider[r].sent, provider'[r].over = provider[r].over,
         provider[r].asked => provider'[r].asked, crashed => crashed',
         caller'[r].got = caller[r].got, caller'[r].pc # "ok",
         caller'[r].pc \in Unwritten => ~provider'[r].asked,
         caller'[r].pc = "await" => provider'[r].asked,
         caller'[r].pc \in Unwritten \cup {"await"} => caller[r].pc \in Unwritten \cup {"await"}
  PROVE  Answered(r)'
<1>1. OnItsWay(r)' = OnItsWay(r)
  BY DEF OnItsWay
<1>2. Told(r)' = Told(r) /\ Counted(r)' = Counted(r)
  BY <1>1 DEF Told, Counted
<1> QED
  BY <1>2 DEF Answered

(* The callers.                                                            *)
LEMMA CallAnswers ==
  ASSUME RelayType, ~crashed, NEW r \in Requests, \A s \in Requests : Answered(s),
         Send(r) \/ Cancel(r) \/ Call(r) \/ GiveUp(r) \/ Watch(r)
  PROVE  \A s \in Requests : Answered(s)'
<1> USE DEF CallerPC, Returned
<1>1. ASSUME NEW pc \in CallerPC \ {"ok"}, Go(r, pc),
             UNCHANGED <<reader, cleaner, lossy, cancelled, crashed, channel, provider>>,
             pc \in Unwritten => caller[r].pc \in Unwritten, pc # "await"
      PROVE  \A s \in Requests : Answered(s)'
  <2>1. /\ caller'[r].pc = pc /\ caller'[r].got = caller[r].got
        /\ \A s \in Requests \ {r} : caller'[s] = caller[s]
    BY <1>1, GoStep
  <2>2. caller'[r].pc \in Unwritten => ~provider'[r].asked
    BY <1>1, <2>1 DEF Answered
  <2>3. Answered(r)'
    BY <1>1, <2>1, <2>2, AnswerGo
  <2>4. \A s \in Requests \ {r} : Answered(s)'
    BY <1>1, <2>1, AnswerFrame
  <2> QED
    BY <2>3, <2>4
<1>2. CASE Send(r)
  <2>1. PICK mode \in Modes :
          caller' = [caller EXCEPT ![r] = [pc |-> IF registered THEN "found" ELSE "failed",
                                           mode |-> mode, got |-> 0]]
    BY <1>2 DEF Send
  <2>2. /\ UNCHANGED <<reader, cleaner, lossy, cancelled, crashed, channel, provider>>
        /\ caller[r].pc = "idle"
    BY <1>2 DEF Send
  <2>3. /\ caller'[r].pc \in {"found", "failed"} /\ caller'[r].got = 0
        /\ \A s \in Requests \ {r} : caller'[s] = caller[s]
    BY <2>1 DEF RelayType
  <2>4. ~provider[r].asked /\ caller[r].got = 0
    BY <2>2 DEF Answered, Unwritten
  <2>5. Answered(r)'
    BY <2>2, <2>3, <2>4, AnswerGo DEF Unwritten
  <2>6. \A s \in Requests \ {r} : Answered(s)'
    BY <2>2, <2>3, AnswerFrame
  <2> QED
    BY <2>5, <2>6
<1>3. CASE Cancel(r)
  <2>1. /\ UNCHANGED <<reader, cleaner, lossy, crashed, channel, provider, caller>>
        /\ cancelled \subseteq cancelled'
    BY <1>3 DEF Cancel
  <2> QED
    BY <2>1, AnswerFrame
<1>4. CASE Store(r)
  <2>1. /\ Go(r, "stored") /\ caller[r].pc = "found"
        /\ UNCHANGED <<reader, cleaner, lossy, cancelled, crashed, channel, provider>>
    BY <1>4 DEF Store
  <2> QED
    BY <1>1, <2>1 DEF Unwritten
<1>5. CASE LoadBack(r)
  <2>1. PICK pc \in {"loaded", "panicked"} : Go(r, pc)
    BY <1>5 DEF LoadBack
  <2>2. /\ UNCHANGED <<reader, cleaner, lossy, cancelled, crashed, channel, provider>>
        /\ caller[r].pc = "stored"
    BY <1>5 DEF LoadBack
  <2> QED
    BY <1>1, <2>1, <2>2 DEF Unwritten
<1>6. CASE SendCheck(r)
  <2>1. PICK pc \in {"failing", "writing"} : Go(r, pc)
    BY <1>6 DEF SendCheck
  <2>2. /\ UNCHANGED <<reader, cleaner, lossy, cancelled, crashed, channel, provider>>
        /\ caller[r].pc = "loaded"
    BY <1>6 DEF SendCheck
  <2> QED
    BY <1>1, <2>1, <2>2 DEF Unwritten
<1>7. CASE Write(r)
  <2>1. /\ UNCHANGED <<reader, cleaner, lossy, cancelled, crashed, channel>>
        /\ caller[r].pc = "writing"
    BY <1>7 DEF Write
  <2>2. CASE Go(r, "await") /\ provider' = [provider EXCEPT ![r].asked = TRUE]
    <3>1. /\ caller'[r].pc = "await" /\ caller'[r].got = caller[r].got
          /\ \A s \in Requests \ {r} : caller'[s] = caller[s]
      BY <2>2, GoStep
    <3>2. /\ provider'[r].asked
          /\ \A s \in Requests : provider'[s].sent = provider[s].sent /\ provider'[s].over = provider[s].over
          /\ \A s \in Requests \ {r} : provider'[s] = provider[s]
      BY <2>2, AskStep
    <3>3. Answered(r)'
      BY <2>1, <3>1, <3>2, AnswerGo DEF Unwritten
    <3>4. \A s \in Requests \ {r} : Answered(s)'
      BY <2>1, <3>1, <3>2, AnswerFrame
    <3> QED
      BY <3>3, <3>4
  <2>3. CASE Go(r, "failing") /\ UNCHANGED provider
    BY <1>1, <2>1, <2>3 DEF Unwritten
  <2> QED
    BY <1>7, <2>2, <2>3 DEF Write
<1>8. CASE SendFailed(r)
  <2>1. /\ TakeAndClose(r) /\ Go(r, "failed")
        /\ UNCHANGED <<reader, cleaner, lossy, cancelled, crashed, provider>>
    BY <1>8 DEF SendFailed
  <2>2. /\ caller'[r].pc = "failed" /\ caller'[r].got = caller[r].got
        /\ \A s \in Requests \ {r} : caller'[s] = caller[s]
    BY <2>1, GoStep
  <2>3. \A s \in Requests \ {r} : channel'[s] = channel[s]
    BY <2>1, TakeStep DEF ChannelStep
  <2>4. Answered(r)'
    BY <2>1, <2>2 DEF Answered, Unwritten
  <2>5. \A s \in Requests \ {r} : Answered(s)'
    BY <2>1, <2>2, <2>3, AnswerFrame
  <2> QED
    BY <2>4, <2>5
<1>9. CASE Receive(r)
  <2>1. /\ UNCHANGED <<reader, cleaner, lossy, cancelled, crashed, provider>> /\ caller[r].pc = "await"
    BY <1>9 DEF Receive
  <2>2. /\ ChannelStep(r) /\ channel'[r].closed = channel[r].closed
        /\ channel[r].msgs # <<>> => channel'[r].msgs = Tail(channel[r].msgs)
    BY <1>9, ReceiveStep
  <2>3. /\ channel[r].msgs \in Seq(Frames) /\ caller[r].got \in Nat /\ provider[r].sent \in Nat
        /\ channel[r].closed \in BOOLEAN
    BY RequestTypes
  <2>4. Answered(r) /\ OnItsWay(r)' = OnItsWay(r) /\ OnItsWay(r) \in Nat
    BY <2>1 DEF OnItsWay
  <2>5. CASE channel[r].msgs # <<>> /\ Head(channel[r].msgs) = "chunk"
    <3>1. caller' = [caller EXCEPT ![r].got = @ + 1]
      BY <1>9, <2>5 DEF Receive
    <3>2. /\ caller'[r].pc = caller[r].pc /\ caller'[r].got = caller[r].got + 1
          /\ \A s \in Requests \ {r} : caller'[s] = caller[s]
      BY <3>1, GotStep
    <3>3. Told(r) => Told(r)'
      BY <2>1, <2>2, <2>3, <2>5, <3>2, ReceiveFirst DEF Told
    <3>4. Counted(r) => Counted(r)'
      <4>1. OnlyChunks(channel[r].msgs) =>
              OnlyChunks(channel'[r].msgs) /\ Len(channel'[r].msgs) + 1 = Len(channel[r].msgs)
        BY <2>2, <2>3, <2>5, ReceiveFirst
      <4>2. Len(channel[r].msgs) \in Nat /\ Len(channel'[r].msgs) \in Nat
        <5> DEFINE q == channel[r].msgs
        <5>1. q \in Seq(Frames) /\ q # <<>> /\ channel'[r].msgs = Tail(q)
          BY <2>2, <2>3, <2>5
        <5> HIDE DEF q
        <5>2. Len(q) \in Nat /\ Len(Tail(q)) \in Nat
          BY <5>1
        <5> QED
          BY <5>1, <5>2 DEF q
      <4>4. ASSUME Counted(r)
            PROVE  caller'[r].got + Len(channel'[r].msgs) + OnItsWay(r)' = provider'[r].sent
        <5>1. /\ caller[r].got + Len(channel[r].msgs) + OnItsWay(r) = provider[r].sent
              /\ Len(channel'[r].msgs) + 1 = Len(channel[r].msgs)
          BY <4>1, <4>4 DEF Counted
        <5>2. (caller[r].got + 1) + Len(channel'[r].msgs) + OnItsWay(r) = provider[r].sent
          <6>1. PICK g \in Nat, l \in Nat, k \in Nat, o \in Nat, n \in Nat :
                  /\ g = caller[r].got /\ l = Len(channel[r].msgs) /\ k = Len(channel'[r].msgs)
                  /\ o = OnItsWay(r) /\ n = provider[r].sent
            BY <2>3, <2>4, <4>2
          <6>2. g + l + o = n /\ k + 1 = l
            BY <5>1, <6>1
          <6>3. (g + 1) + k + o = n
            BY <6>2
          <6> QED
            BY <6>1, <6>3
        <5> QED
          BY <2>1, <2>4, <3>2, <5>2
      <4> QED
        BY <2>2, <4>1, <4>4 DEF Counted
    <3>5. Answered(r)'
      BY <2>1, <2>4, <3>2, <3>3, <3>4 DEF Answered, Unwritten
    <3>6. \A s \in Requests \ {r} : Answered(s)'
      BY <2>1, <2>2, <3>2, AnswerFrame DEF ChannelStep
    <3> QED
      BY <3>5, <3>6
  <2>6. ASSUME NEW pc \in {"ok", "failed"}, Go(r, pc),
               pc = "ok" /\ r \notin lossy \cup cancelled =>
                 provider[r].over /\ caller[r].got = provider[r].sent
        PROVE  \A s \in Requests : Answered(s)'
    <3>1. /\ caller'[r].pc = pc /\ caller'[r].got = caller[r].got
          /\ \A s \in Requests \ {r} : caller'[s] = caller[s]
      BY <2>6, GoStep
    <3>2. Answered(r)'
      BY <2>1, <2>4, <2>6, <3>1 DEF Answered, Unwritten
    <3>3. \A s \in Requests \ {r} : Answered(s)'
      BY <2>1, <2>2, <3>1, AnswerFrame DEF ChannelStep
    <3> QED
      BY <3>2, <3>3
  <2>7. CASE channel[r].msgs # <<>> /\ Head(channel[r].msgs) = "error"
    <3>1. Go(r, "failed")
      BY <1>9, <2>7 DEF Receive
    <3> QED
      BY <2>6, <3>1
  <2>8. CASE channel[r].msgs # <<>> /\ Head(channel[r].msgs) \in {"response", "end"}
    <3>1. Go(r, "ok")
      BY <1>9, <2>8 DEF Receive
    <3>2. r \notin lossy \cup cancelled => Told(r)
      <4>1. Counted(r) => Head(channel[r].msgs) = "chunk"
        BY <2>3, <2>8, ReceiveFirst DEF Counted
      <4> QED
        BY <2>1, <2>4, <2>8, <4>1 DEF Answered
    <3>3. Told(r) => provider[r].over /\ caller[r].got = provider[r].sent
      BY <2>3, <2>8, ReceiveFirst DEF Told
    <3> QED
      BY <2>6, <3>1, <3>2, <3>3
  <2>9. CASE channel[r].msgs = <<>> /\ channel[r].closed
    <3>1. Go(r, "ok") \/ Go(r, "failed")
      BY <1>9, <2>9 DEF Receive
    <3>2. ~Told(r) /\ ~Counted(r)
      BY <2>9 DEF Told, Tells, Counted
    <3>3. r \in lossy \cup cancelled
      BY <2>1, <2>4, <3>2 DEF Answered
    <3> QED
      BY <2>6, <3>1, <3>3
  <2> QED
    BY <1>9, <2>5, <2>7, <2>8, <2>9 DEF Receive
<1>10. CASE GiveUp(r)
  <2>1. Go(r, "failed") /\ UNCHANGED <<reader, cleaner, lossy, cancelled, crashed, channel, provider>>
    BY <1>10 DEF GiveUp
  <2> QED
    BY <1>1, <2>1 DEF Unwritten
<1>11. CASE Watch(r)
  <2>1. UNCHANGED <<caller, cancelled, provider, reader, cleaner, lossy, crashed>>
    BY <1>11 DEF Watch
  <2>2. CASE r \in cancelled /\ TakeAndClose(r)
    <3>1. \A s \in Requests \ {r} : channel'[s] = channel[s]
      BY <2>2, TakeStep DEF ChannelStep
    <3>2. Answered(r)'
      BY <2>1, <2>2 DEF Answered
    <3>3. \A s \in Requests \ {r} : Answered(s)'
      BY <2>1, <3>1, AnswerFrame
    <3> QED
      BY <3>2, <3>3
  <2>3. CASE UNCHANGED channel
    BY <2>1, <2>3, AnswerFrame
  <2> QED
    BY <1>11, <2>2, <2>3 DEF Watch
<1> QED
  BY <1>2, <1>3, <1>4, <1>5, <1>6, <1>7, <1>8, <1>9, <1>10, <1>11 DEF Call

(* Sending a message on the channel of a request whose answer is counted   *)
(* or told, as dispatch and cleanup do.                                    *)
LEMMA SendAnswers ==
  ASSUME RelayType, ~crashed, NEW r \in Requests, NEW msg \in Frames, TrySend(r, msg),
         UNCHANGED <<caller, provider, cancelled>>,
         ~crashed' /\ r \notin lossy' \cup cancelled' /\ caller[r].pc \in Unwritten \cup {"await"},
         Answered(r),
         msg = "chunk" => reader = [pc |-> "send", request |-> r, msg |-> "chunk"]
                          /\ OnItsWay(r)' = 0,
         msg \in {"response", "end"} => provider[r].over /\ OnItsWay(r) = 0
  PROVE  /\ msg # "chunk" => Told(r)'
         /\ msg = "chunk" => Told(r)' \/ Counted(r)'
         /\ Told(r) => Told(r)'
<1>1. /\ channel'[r].closed = channel[r].closed /\ channel'[r].msgs = Append(channel[r].msgs, msg)
      /\ r \notin lossy \cup cancelled
  BY TrySendStep DEF Frames
<1>2. /\ channel[r].msgs \in Seq(Frames) /\ caller[r].got \in Nat /\ provider[r].sent \in Nat
      /\ Len(channel[r].msgs) \in Nat /\ OnItsWay(r) \in Nat
  BY RequestTypes DEF OnItsWay
<1>3. Told(r) => Told(r)'
  BY <1>1, <1>2, AppendTells DEF Told
<1>4. Told(r) \/ Counted(r)
  BY <1>1 DEF Answered
<1>5. ASSUME Counted(r), msg # "chunk"
      PROVE  Told(r)'
  <2>1. msg \in {"error", "response", "end"}
    BY <1>5 DEF Frames, Terminal
  <2>2. msg # "error" => caller[r].got + Len(channel[r].msgs) = provider[r].sent
    BY <1>2, <1>5, <2>1 DEF Counted
  <2>3. OnlyChunks(channel[r].msgs)
    BY <1>5 DEF Counted
  <2>4. Tells(Append(channel[r].msgs, msg), caller[r].got, provider[r].sent, provider[r].over)
    BY <1>2, <2>1, <2>2, <2>3, AppendEnd
  <2> QED
    BY <1>1, <2>4 DEF Told
<1>6. ASSUME Counted(r), msg = "chunk"
      PROVE  Counted(r)'
  <2>1. OnItsWay(r) = 1 /\ OnItsWay(r)' = 0
    BY <1>6 DEF OnItsWay
  <2>2. OnlyChunks(channel'[r].msgs) /\ Len(channel'[r].msgs) = Len(channel[r].msgs) + 1
    BY <1>1, <1>2, <1>6, AppendChunk DEF Counted
  <2>3. caller[r].got + Len(channel[r].msgs) + 1 = provider[r].sent
    BY <1>6, <2>1 DEF Counted
  <2>4. caller[r].got + (Len(channel[r].msgs) + 1) + 0 = provider[r].sent
    BY <1>2, <2>3
  <2> QED
    BY <1>1, <1>6, <2>1, <2>2, <2>4 DEF Counted
<1> QED
  BY <1>3, <1>4, <1>5, <1>6

(* The reader.                                                             *)
LEMMA ReaderAnswers ==
  ASSUME RelayType, Relaying, ~crashed, \A s \in Requests : Answered(s),
         Dispatch \/ \E r \in Requests, msg \in {"chunk"} \cup Terminal : ReadFrame(r, msg)
  PROVE  \A s \in Requests : Answered(s)'
<1>1. ASSUME NEW r \in Requests, NEW msg \in {"chunk"} \cup Terminal, ReadFrame(r, msg)
      PROVE  \A s \in Requests : Answered(s)'
  <2>1. /\ UNCHANGED <<pending, channel, caller, cancelled, cleaner, lossy, crashed>>
        /\ reader.pc = "read" /\ provider[r].asked /\ ~provider[r].over
        /\ reader' = IF r \in pending THEN [pc |-> "send", request |-> r, msg |-> msg] ELSE reader
    BY <1>1 DEF ReadFrame
  <2>2. /\ provider'[r].asked = provider[r].asked
        /\ msg = "chunk" => /\ provider'[r].sent = provider[r].sent + 1
                            /\ provider'[r].over = provider[r].over
        /\ msg # "chunk" => provider'[r].sent = provider[r].sent /\ provider'[r].over
        /\ \A s \in Requests \ {r} : provider'[s] = provider[s]
    BY <1>1, FrameStep
  <2>3. \A s \in Requests \ {r} : Answered(s)'
    <3>1. reader'.pc \in {"read", "gone"} \/ reader'.request = r
      BY <2>1
    <3> QED
      BY <2>1, <2>2, <3>1, AnswerFrame
  <2>4. /\ channel[r].msgs \in Seq(Frames) /\ caller[r].got \in Nat /\ provider[r].sent \in Nat
        /\ Len(channel[r].msgs) \in Nat
    BY RequestTypes
  <2>5. Told(r) => Told(r)'
    <3>1. \A k \in 1 .. Len(channel[r].msgs) : ~(/\ channel[r].msgs[k] \in {"response", "end"}
                                                 /\ provider[r].over)
      BY <2>1
    <3> QED
      BY <2>1, <3>1 DEF Told, Tells
  <2>6. ASSUME Counted(r), caller[r].pc \in Unwritten \cup {"await"}
        PROVE  Counted(r)'
    <3>1. caller[r].pc = "await"
      BY <2>1, <2>6 DEF Answered
    <3>2. r \in pending
      BY <2>6, <3>1 DEF Counted, Relaying
    <3>3. reader' = [pc |-> "send", request |-> r, msg |-> msg]
      BY <2>1, <3>2
    <3>4. OnItsWay(r) = 0 /\ OnItsWay(r)' = IF msg = "chunk" THEN 1 ELSE 0
      BY <2>1, <3>3 DEF OnItsWay
    <3>5. caller[r].got + Len(channel[r].msgs) = provider[r].sent
      BY <2>4, <2>6, <3>4 DEF Counted
    <3>6. caller[r].got + Len(channel[r].msgs) + OnItsWay(r)' = provider'[r].sent
      <4>1. CASE msg = "chunk"
        BY <2>2, <2>4, <3>4, <3>5, <4>1
      <4>2. CASE msg # "chunk"
        BY <2>2, <2>4, <3>4, <3>5, <4>2
      <4> QED
        BY <4>1, <4>2
    <3> QED
      BY <2>1, <2>6, <3>6 DEF Counted
  <2>7. Answered(r)'
    <3>1. Answered(r)
      OBVIOUS
    <3>2. reader'.pc \in {"read", "send"} /\ (reader'.pc = "send" => reader'.msg = msg)
      BY <2>1
    <3>3. caller[r].pc # "ok" \/ r \in lossy \cup cancelled
      BY <2>1, <3>1 DEF Answered
    <3> QED
      BY <2>1, <2>2, <2>5, <2>6, <3>1, <3>2, <3>3 DEF Answered
  <2> QED
    BY <2>3, <2>7
<1>2. CASE DispatchSend
  <2>0. reader \in [pc : {"send", "end"}, request : Requests, msg : {"chunk"} \cup Terminal]
    BY <1>2 DEF DispatchSend, RelayType
  <2>p. PICK r \in Requests, msg \in Frames : r = reader.request /\ msg = reader.msg
    BY <2>0 DEF Frames
  <2>1. /\ UNCHANGED <<pending, caller, provider, cancelled, cleaner>> /\ reader.pc = "send"
        /\ TrySend(r, msg)
        /\ reader' = IF msg \in Terminal THEN [reader EXCEPT !.pc = "end"] ELSE [pc |-> "read"]
    BY <1>2, <2>p DEF DispatchSend
  <2>3. ChannelStep(r) /\ lossy \subseteq lossy'
    BY <2>1, TrySendStep DEF Frames
  <2>4. reader'.pc \in {"read", "end"} /\ (reader'.pc = "end" => reader'.request = r /\ msg # "chunk")
    BY <2>0, <2>1, <2>p DEF Terminal
  <2>5. \A s \in Requests \ {r} : Answered(s)'
    BY <2>1, <2>3, <2>4, <2>p, AnswerFrame DEF ChannelStep
  <2>6. Answered(r)'
    <3>1. Answered(r)
      OBVIOUS
    <3>2. provider[r].asked /\ (msg # "chunk" => provider[r].over)
      BY <2>1, <2>p, <3>1 DEF Answered
    <3>3. OnItsWay(r)' = 0 /\ (msg # "chunk" => OnItsWay(r) = 0)
      BY <2>4, <2>p DEF OnItsWay
    <3>4. msg = "chunk" => reader = [pc |-> "send", request |-> r, msg |-> "chunk"]
      BY <2>0, <2>1, <2>p
    <3>5. ASSUME ~crashed', r \notin lossy' \cup cancelled', caller[r].pc \in Unwritten \cup {"await"}
          PROVE  /\ msg # "chunk" => Told(r)'
                 /\ msg = "chunk" => Told(r)' \/ Counted(r)'
                 /\ Told(r) => Told(r)'
      BY <2>1, <3>1, <3>2, <3>3, <3>4, <3>5, SendAnswers
    <3> QED
      BY <2>1, <2>3, <2>4, <3>1, <3>2, <3>5 DEF Answered
  <2> QED
    BY <2>5, <2>6
<1>3. CASE DispatchEnd
  <2>0. reader \in [pc : {"send", "end"}, request : Requests, msg : {"chunk"} \cup Terminal]
    BY <1>3 DEF DispatchEnd, RelayType
  <2>p. PICK r \in Requests : r = reader.request
    BY <2>0
  <2>1. /\ UNCHANGED <<caller, provider, cancelled, cleaner, lossy, crashed>> /\ reader.pc = "end"
        /\ TakeAndClose(r) /\ reader' = [pc |-> "read"]
    BY <1>3, <2>p DEF DispatchEnd
  <2>2. reader'.pc = "read"
    BY <2>1
  <2>3. ChannelStep(r) /\ channel'[r].msgs = channel[r].msgs
    BY <2>1, TakeStep
  <2>4. \A s \in Requests \ {r} : Answered(s)'
    BY <2>1, <2>2, <2>3, <2>p, AnswerFrame DEF ChannelStep
  <2>5. Told(r)' = Told(r)
    BY <2>1, <2>3 DEF Told
  <2>6. Answered(r)'
    <3>1. Answered(r)
      OBVIOUS
    <3> QED
      BY <2>1, <2>2, <2>5, <2>p, <3>1 DEF Answered
  <2> QED
    BY <2>4, <2>6
<1>4. CASE ReaderEnds
  <2>1. /\ UNCHANGED <<channel, caller, cancelled, provider, cleaner, lossy, crashed>>
        /\ reader.pc = "read" /\ reader'.pc = "gone"
    BY <1>4 DEF ReaderEnds
  <2> QED
    BY <2>1, AnswerFrame
<1> QED
  BY <1>1, <1>2, <1>3, <1>4 DEF Dispatch

(* Cleanup, and what starts it.                                            *)
LEMMA CleanupAnswers ==
  ASSUME RelayType, ~crashed, \A s \in Requests : Answered(s),
         Cleanup \/ ReadError \/ HeartbeatFails \/ StopRelay
  PROVE  \A s \in Requests : Answered(s)'
<1>1. ASSUME UNCHANGED <<channel, caller, provider, cancelled, lossy, crashed>>,
             reader' = reader \/ (reader.pc = "read" /\ reader'.pc = "gone"),
             cleaner' = cleaner \/ cleaner'.pc # "close"
      PROVE  \A s \in Requests : Answered(s)'
  BY <1>1, AnswerFrame
<1>2. CASE ReadError \/ HeartbeatFails \/ StopRelay
  <2>1. /\ UNCHANGED <<channel, caller, provider, cancelled, lossy, crashed>>
        /\ cleaner' = cleaner \/ cleaner'.pc = "range"
        /\ reader' = reader \/ (reader.pc = "read" /\ reader'.pc = "gone")
    BY <1>2 DEF ReadError, HeartbeatFails, StopRelay, Close
  <2> QED
    BY <1>1, <2>1
<1>3. CASE (\E r \in Requests : RangeNext(r)) \/ ReplacePending \/ CloseConn \/ HandleSessionClosed
  <2>1. /\ UNCHANGED <<channel, caller, provider, cancelled, lossy, crashed, reader>>
        /\ cleaner'.pc \in {"visit", "conn", "notify", "done"}
    BY <1>3 DEF RangeNext, ReplacePending, CloseConn, HandleSessionClosed
  <2> QED
    BY <1>1, <2>1
<1>4. CASE RangeSend
  <2>0. cleaner \in [pc : {"visit", "close"}, first : SUBSET Requests, seen : SUBSET Requests,
                     at : Requests]
    BY <1>4 DEF RangeSend, RelayType
  <2>1. PICK r \in Requests : r = cleaner.at
    BY <2>0
  <2>2. /\ UNCHANGED <<caller, provider, cancelled, reader>> /\ cleaner.pc = "visit"
        /\ cleaner' = [cleaner EXCEPT !.pc = "close"] /\ TrySend(r, "error")
    BY <1>4, <2>1 DEF RangeSend
  <2>3. cleaner'.at = r
    BY <2>0, <2>1, <2>2
  <2>4. "error" \in Frames /\ ChannelStep(r) /\ lossy \subseteq lossy'
    BY <2>2, TrySendStep DEF Frames, Terminal
  <2>5. \A s \in Requests \ {r} : Answered(s)'
    BY <2>2, <2>3, <2>4, AnswerFrame DEF ChannelStep
  <2>6. Answered(r)'
    <3>1. Answered(r)
      OBVIOUS
    <3>2. ASSUME ~crashed', r \notin lossy' \cup cancelled', caller[r].pc \in Unwritten \cup {"await"}
          PROVE  Told(r)'
      BY <2>2, <2>4, <3>1, <3>2, SendAnswers
    <3> QED
      BY <2>2, <2>4, <3>1, <3>2 DEF Answered
  <2> QED
    BY <2>5, <2>6
<1>5. CASE RangeClose
  <2>0. cleaner \in [pc : {"visit", "close"}, first : SUBSET Requests, seen : SUBSET Requests,
                     at : Requests]
    BY <1>5 DEF RangeClose, RelayType
  <2>1. PICK r \in Requests : r = cleaner.at
    BY <2>0
  <2>2. /\ UNCHANGED <<caller, provider, cancelled, reader, lossy, crashed>> /\ cleaner.pc = "close"
        /\ cleaner'.pc = "range" /\ channel' = [channel EXCEPT ![r].closed = TRUE]
    BY <1>5, <2>1 DEF RangeClose
  <2>3. ChannelStep(r) /\ channel'[r].msgs = channel[r].msgs
    BY <2>2, CloseStep
  <2>4. \A s \in Requests \ {r} : Answered(s)'
    BY <2>2, <2>3, AnswerFrame DEF ChannelStep
  <2>5. Told(r)' = Told(r)
    BY <2>2, <2>3 DEF Told
  <2>6. Answered(r)'
    <3>1. Answered(r)
      OBVIOUS
    <3> QED
      BY <2>1, <2>2, <2>5, <3>1 DEF Answered
  <2> QED
    BY <2>4, <2>6
<1> QED
  BY <1>2, <1>3, <1>4, <1>5 DEF Cleanup

(* A caller is told that its answer is complete only if it is.             *)
THEOREM TruncatedAnswersAreReported == RelaySpec => []TruncationIsReported
<1> DEFINE Inv == RelayType /\ Relaying /\ \A s \in Requests : Answered(s)
<1>1. RelayInit => Inv
  <2> SUFFICES ASSUME RelayInit, NEW s \in Requests PROVE Answered(s)
    BY RelayStart
  <2>1. OnItsWay(s) = 0 /\ channel[s].msgs = <<>> /\ channel[s].closed = FALSE /\ caller[s].got = 0
        /\ provider[s].sent = 0 /\ provider[s].asked = FALSE /\ provider[s].over = FALSE
        /\ caller[s].pc = "idle" /\ reader.pc = "read" /\ cleaner.pc = "no"
    BY DEF RelayInit, OnItsWay
  <2>2. Counted(s)
    BY <2>1 DEF Counted, OnlyChunks
  <2> QED
    BY <2>1, <2>2 DEF Answered
<1>2. Inv /\ [RelayNext]_relayVars => Inv'
  <2> SUFFICES ASSUME Inv, [RelayNext]_relayVars
               PROVE  \A s \in Requests : Answered(s)'
    BY RelayStep
  <2>1. CASE UNCHANGED relayVars
    BY <2>1, AnswerFrame DEF relayVars
  <2>2. CASE ~crashed /\ TornPending
    <3>1. UNCHANGED <<channel, cancelled, provider, reader, cleaner, lossy>>
      BY <2>2 DEF TornPending
    <3>2. CASE UNCHANGED caller /\ crashed'
      BY <3>1, <3>2, AnswerFrame
    <3>3. ASSUME NEW r \in Requests, Go(r, "panicked"), UNCHANGED crashed
          PROVE  \A s \in Requests : Answered(s)'
      <4>1. "panicked" \in CallerPC
        BY DEF CallerPC, Returned
      <4>2. /\ caller'[r].pc = "panicked" /\ caller'[r].got = caller[r].got
            /\ \A s \in Requests \ {r} : caller'[s] = caller[s]
        BY <3>3, <4>1, GoStep
      <4>3. Answered(r)'
        BY <3>1, <3>3, <4>2, AnswerGo DEF Unwritten
      <4>4. \A s \in Requests \ {r} : Answered(s)'
        BY <3>1, <3>3, <4>2, AnswerFrame
      <4> QED
        BY <4>3, <4>4
    <3> QED
      BY <2>2, <3>2, <3>3 DEF TornPending
  <2> QED
    BY <2>1, <2>2, CallAnswers, ReaderAnswers, CleanupAnswers DEF RelayNext, RelayEnvironment
<1>3. Inv => TruncationIsReported
  BY DEF Answered, TruncationIsReported
<1> QED
  BY <1>1, <1>2, <1>3, PTL DEF RelaySpec

-----------------------------------------------------------------------------
(* The records of the usage queue *)

Once(s) == \A i, j \in 1 .. Len(s) : s[i] = s[j] => i = j

Forwarder == [pc : {"idle", "pop", "push", "requeue"}, held : Seq(Records),
              putting : Records \cup {Nobody}]

QueueType ==
  /\ items \in Seq(Records) /\ expired \in 0 .. Len(items)
  /\ forwarder \in Forwarder
  /\ entry \in [Records -> {"unborn", "check", "publish", "enqueue", "rest"}]
  /\ delivered \in [Records -> Nat]

(* The queue and the forwarder hold no record twice, and the forwarder     *)
(* pops when it holds nothing.                                             *)
Holding ==
  /\ Once(items) /\ Once(forwarder.held)
  /\ forwarder.pc \in {"idle", "pop"} => forwarder.held = <<>>
  /\ forwarder.pc = "push" => forwarder.held # <<>>

One(condition) == IF condition THEN 1 ELSE 0

(* Where a record is: a record on its way through Enqueue is not also in   *)
(* the queue or in the forwarder's hands, nor in both of these.            *)
Kept(r) ==
  /\ ~(r \in Range(items) /\ r \in Range(forwarder.held))
  /\ entry[r] # "rest" => r \notin Range(items) /\ r \notin Range(forwarder.held)
  /\ entry[r] = "unborn" => delivered[r] = 0 /\ r \notin excused /\ r \notin ambiguous
  /\ r \in ambiguous => delivered[r] >= 1
  /\ entry[r] # "unborn" /\ r \notin ambiguous =>
       One(InHand(r)) + One(r \in Range(items)) + delivered[r] + One(r \in excused) = 1

(* A sequence without repetitions has each of its members once.            *)
LEMMA CountOnce ==
  ASSUME NEW S, NEW s \in Seq(S), Once(s), NEW r
  PROVE  Cardinality({k \in DOMAIN s : s[k] = r}) = One(r \in Range(s))
<1>1. DOMAIN s = 1 .. Len(s)
  OBVIOUS
<1>2. CASE r \in Range(s)
  <2>1. PICK k \in 1 .. Len(s) : s[k] = r
    BY <1>1, <1>2 DEF Range
  <2>2. {i \in DOMAIN s : s[i] = r} = {k}
    BY <1>1, <2>1 DEF Once
  <2> QED
    BY <1>2, <2>2, FS_Singleton DEF One
<1>3. CASE r \notin Range(s)
  <2>1. {i \in DOMAIN s : s[i] = r} = {}
    BY <1>3 DEF Range
  <2> QED
    BY <1>3, <2>1, FS_EmptySet DEF One
<1> QED
  BY <1>2, <1>3

(* Cutting such a sequence in two deals its members out.                   *)
LEMMA Cut ==
  ASSUME NEW S, NEW s \in Seq(S), Once(s), NEW n \in 0 .. Len(s)
  PROVE  LET a == SubSeq(s, 1, n)
             b == SubSeq(s, n + 1, Len(s))
         IN  /\ a \in Seq(S) /\ b \in Seq(S) /\ Once(a) /\ Once(b)
             /\ Len(a) = n /\ Len(b) = Len(s) - n
             /\ Range(a) = {s[k] : k \in 1 .. n}
             /\ Range(a) \cap Range(b) = {} /\ Range(a) \cup Range(b) = Range(s)
<1> DEFINE a == SubSeq(s, 1, n)
           b == SubSeq(s, n + 1, Len(s))
<1>0. /\ Len(s) \in Nat /\ n \in Nat /\ n <= Len(s) /\ DOMAIN s = 1 .. Len(s)
      /\ \A i \in 1 .. Len(s) : s[i] \in S
  OBVIOUS
<1>1. a \in Seq(S) /\ Len(a) = n /\ \A i \in 1 .. n : a[i] = s[i]
  <2>1. \A i \in 1 .. n : s[i] \in S
    BY <1>0
  <2>2. /\ a \in Seq(S) /\ Len(a) = IF 1 <= n THEN n - 1 + 1 ELSE 0
        /\ \A i \in 1 .. n - 1 + 1 : a[i] = s[1 + i - 1]
    BY <1>0, <2>1, SubSeqProperties
  <2> HIDE DEF a
  <2> QED
    BY <1>0, <2>2
<1>2. b \in Seq(S) /\ Len(b) = Len(s) - n /\ \A i \in 1 .. Len(s) - n : b[i] = s[n + i]
  <2>1. \A i \in n + 1 .. Len(s) : s[i] \in S
    BY <1>0
  <2>2. n + 1 \in Int /\ Len(s) \in Int
    BY <1>0
  <2>3. /\ b \in Seq(S) /\ Len(b) = IF n + 1 <= Len(s) THEN Len(s) - (n + 1) + 1 ELSE 0
        /\ \A i \in 1 .. Len(s) - (n + 1) + 1 : b[i] = s[(n + 1) + i - 1]
    BY <2>1, <2>2, SubSeqProperties
  <2> HIDE DEF b
  <2>4. \A i \in 1 .. Len(s) - n : b[i] = s[n + i]
    <3> SUFFICES ASSUME NEW i \in 1 .. Len(s) - n PROVE b[i] = s[n + i]
      OBVIOUS
    <3>1. (n + 1) + i - 1 = n + i /\ i \in 1 .. Len(s) - (n + 1) + 1
      BY <1>0
    <3> QED
      BY <2>3, <3>1
  <2>5. (IF n + 1 <= Len(s) THEN Len(s) - (n + 1) + 1 ELSE 0) = Len(s) - n
    <3>1. \A l \in Nat : n <= l => (IF n + 1 <= l THEN l - (n + 1) + 1 ELSE 0) = l - n
      BY <1>0
    <3> QED
      BY <1>0, <3>1
  <2> QED
    BY <2>3, <2>4, <2>5
<1> HIDE DEF a, b
<1>3. DOMAIN a = 1 .. n /\ DOMAIN b = 1 .. Len(s) - n
  BY <1>1, <1>2
<1>4. Once(a)
  BY <1>0, <1>1 DEF Once
<1>5. Once(b)
  <2> SUFFICES ASSUME NEW i \in 1 .. Len(b), NEW j \in 1 .. Len(b), b[i] = b[j] PROVE i = j
    BY DEF Once
  <2>1. n + i \in 1 .. Len(s) /\ n + j \in 1 .. Len(s) /\ s[n + i] = s[n + j]
    BY <1>0, <1>2
  <2>2. n + i = n + j
    BY <2>1 DEF Once
  <2> QED
    BY <1>0, <2>2
<1>6. Range(a) = {s[k] : k \in 1 .. n}
  BY <1>1, <1>3 DEF Range
<1>7. Range(b) = {s[k] : k \in n + 1 .. Len(s)}
  <2>1. ASSUME NEW x \in Range(b) PROVE x \in {s[k] : k \in n + 1 .. Len(s)}
    <3>1. PICK i \in 1 .. Len(s) - n : x = s[n + i]
      BY <1>2, <1>3, <2>1 DEF Range
    <3>2. n + i \in n + 1 .. Len(s)
      BY <1>0
    <3> QED
      BY <3>1, <3>2
  <2>2. ASSUME NEW k \in n + 1 .. Len(s) PROVE s[k] \in Range(b)
    <3>1. k - n \in 1 .. Len(s) - n /\ n + (k - n) = k
      BY <1>0
    <3> QED
      BY <1>2, <1>3, <3>1 DEF Range
  <2> QED
    BY <2>1, <2>2
<1>8. Range(s) = {s[k] : k \in 1 .. Len(s)}
  BY <1>0 DEF Range
<1>9. Range(a) \cap Range(b) = {}
  BY <1>0, <1>6, <1>7 DEF Once
<1>10. Range(a) \cup Range(b) = Range(s)
  <2>1. \A k \in 1 .. Len(s) : k \in 1 .. n \/ k \in n + 1 .. Len(s)
    BY <1>0
  <2>2. \A k \in 1 .. n : k \in 1 .. Len(s)
    BY <1>0
  <2>3. \A k \in n + 1 .. Len(s) : k \in 1 .. Len(s)
    BY <1>0
  <2> QED
    BY <1>6, <1>7, <1>8, <2>1, <2>2, <2>3
<1> QED
  BY <1>1, <1>2, <1>4, <1>5, <1>6, <1>9, <1>10 DEF a, b

(* The first member of such a sequence and the others.                     *)
LEMMA CutHead ==
  ASSUME NEW S, NEW s \in Seq(S), Once(s), s # <<>>
  PROVE  /\ Tail(s) \in Seq(S) /\ Once(Tail(s)) /\ Head(s) \in S
         /\ Head(s) \notin Range(Tail(s)) /\ Range(s) = {Head(s)} \cup Range(Tail(s))
<1>1. /\ Len(s) \in Nat \ {0} /\ Head(s) = s[1] /\ Tail(s) \in Seq(S) /\ Len(Tail(s)) = Len(s) - 1
      /\ \A i \in 1 .. Len(s) - 1 : Tail(s)[i] = s[i + 1]
      /\ DOMAIN s = 1 .. Len(s) /\ DOMAIN Tail(s) = 1 .. Len(s) - 1 /\ Head(s) \in S
  OBVIOUS
<1>2. Once(Tail(s))
  <2> SUFFICES ASSUME NEW i \in 1 .. Len(s) - 1, NEW j \in 1 .. Len(s) - 1, s[i + 1] = s[j + 1]
               PROVE  i = j
    BY <1>1 DEF Once
  <2>1. i + 1 \in 1 .. Len(s) /\ j + 1 \in 1 .. Len(s)
    BY <1>1
  <2>2. i + 1 = j + 1
    BY <2>1 DEF Once
  <2> QED
    BY <2>2
<1>3. Head(s) \notin Range(Tail(s))
  <2> SUFFICES ASSUME NEW i \in 1 .. Len(s) - 1, s[1] = s[i + 1] PROVE FALSE
    BY <1>1 DEF Range
  <2>1. 1 \in 1 .. Len(s) /\ i + 1 \in 1 .. Len(s) /\ i + 1 # 1
    BY <1>1
  <2> QED
    BY <2>1 DEF Once
<1>4. ASSUME NEW x \in Range(s) PROVE x \in {Head(s)} \cup Range(Tail(s))
  <2>1. PICK k \in 1 .. Len(s) : x = s[k]
    BY <1>1, <1>4 DEF Range
  <2>2. CASE k = 1
    BY <1>1, <2>1, <2>2
  <2>3. CASE k # 1
    <3>1. k - 1 \in 1 .. Len(s) - 1 /\ (k - 1) + 1 = k
      BY <2>3
    <3> QED
      BY <1>1, <2>1, <3>1 DEF Range
  <2> QED
    BY <2>2, <2>3
<1>5. Head(s) \in Range(s)
  BY <1>1 DEF Range
<1>6. ASSUME NEW x \in Range(Tail(s)) PROVE x \in Range(s)
  <2>1. PICK i \in 1 .. Len(s) - 1 : x = s[i + 1]
    BY <1>1, <1>6 DEF Range
  <2>2. i + 1 \in 1 .. Len(s)
    BY <1>1
  <2> QED
    BY <1>1, <2>1, <2>2 DEF Range
<1> QED
  BY <1>1, <1>2, <1>3, <1>4, <1>5, <1>6

(* Another member at the end of such a sequence.                           *)
LEMMA AppendOnce ==
  ASSUME NEW S, NEW s \in Seq(S), Once(s), NEW x \in S, x \notin Range(s)
  PROVE  /\ Append(s, x) \in Seq(S) /\ Once(Append(s, x))
         /\ Range(Append(s, x)) = Range(s) \cup {x}
<1>1. /\ Len(s) \in Nat /\ Append(s, x) \in Seq(S) /\ Len(Append(s, x)) = Len(s) + 1
      /\ \A i \in 1 .. Len(s) : Append(s, x)[i] = s[i]
      /\ Append(s, x)[Len(s) + 1] = x
      /\ DOMAIN s = 1 .. Len(s) /\ DOMAIN Append(s, x) = 1 .. Len(s) + 1
  OBVIOUS
<1>2. \A i \in 1 .. Len(s) : s[i] # x
  BY <1>1 DEF Range
<1>3. Once(Append(s, x))
  BY <1>1, <1>2 DEF Once
<1>4. \A i : i \in 1 .. Len(s) + 1 <=> i \in 1 .. Len(s) \/ i = Len(s) + 1
  BY <1>1
<1>5. Range(Append(s, x)) = Range(s) \cup {x}
  BY <1>1, <1>4 DEF Range
<1> QED
  BY <1>1, <1>3, <1>5

(* A record that a step does not touch.                                    *)
LEMMA KeptFrame ==
  ASSUME NEW r \in Records, Kept(r), entry'[r] = entry[r], delivered'[r] = delivered[r],
         r \in Range(items') <=> r \in Range(items),
         r \in Range(forwarder'.held) <=> r \in Range(forwarder.held),
         r \in excused' <=> r \in excused, r \in ambiguous' <=> r \in ambiguous
  PROVE  Kept(r)'
<1>1. InHand(r)' <=> InHand(r)
  BY DEF InHand
<1>2. /\ One(InHand(r))' = One(InHand(r)) /\ One(r \in Range(items))' = One(r \in Range(items))
      /\ One(r \in excused)' = One(r \in excused)
  BY <1>1 DEF One
<1> QED
  BY <1>1, <1>2 DEF Kept

QueueKept == QueueType /\ Holding /\ \A r \in Records : Kept(r)

(* pruneLocked drops the oldest items and keeps the others.                *)
LEMMA PruneParts ==
  ASSUME QueueKept
  PROVE  /\ PruneLocked \in Seq(Records) /\ Once(PruneLocked)
         /\ Pruned \cap Range(PruneLocked) = {} /\ Pruned \cup Range(PruneLocked) = Range(items)
<1>1. items \in Seq(Records) /\ Once(items) /\ expired \in 0 .. Len(items)
  BY DEF QueueKept, QueueType, Holding
<1> QED
  BY <1>1, Cut DEF PruneLocked, Pruned

(* A queued record that is dropped for its age or by the switch.           *)
LEMMA ExpiredIsKept ==
  ASSUME NEW r \in Records, Kept(r), delivered[r] \in Nat, r \in Range(items), r \notin Range(items'),
         r \in excused', entry'[r] = entry[r], delivered'[r] = delivered[r],
         r \in Range(forwarder'.held) <=> r \in Range(forwarder.held), r \in ambiguous' <=> r \in ambiguous
  PROVE  Kept(r)'
<1>1. entry[r] = "rest" /\ r \notin Range(forwarder.held) /\ ~InHand(r) /\ ~InHand(r)'
  BY DEF Kept, InHand
<1> QED
  BY <1>1 DEF Kept, One

(* The calls of Enqueue.                                                   *)
LEMMA EnqueueKeeps ==
  ASSUME QueueKept, NEW r \in Records,
         Produce(r) \/ EnqueueCheck(r) \/ Publish(r) \/ EnqueueItem(r)
  PROVE  QueueKept'
<1>1. Kept(r) /\ delivered[r] \in Nat /\ entry[r] \in {"unborn", "check", "publish", "enqueue", "rest"}
  BY DEF QueueKept, QueueType
<1>2. ASSUME NEW pc \in {"unborn", "check", "publish", "enqueue", "rest"},
             entry' = [entry EXCEPT ![r] = pc], UNCHANGED <<items, expired, forwarder, ambiguous>>,
             delivered' \in [Records -> Nat], Kept(r)',
             \A s \in Records \ {r} : delivered'[s] = delivered[s] /\ (s \in excused' <=> s \in excused)
      PROVE  QueueKept'
  <2>1. QueueType'
    BY <1>2 DEF QueueKept, QueueType
  <2>2. Holding'
    BY <1>2 DEF QueueKept, Holding
  <2>3. \A s \in Records \ {r} : Kept(s)'
    BY <1>2, KeptFrame DEF QueueKept, QueueType
  <2> QED
    BY <1>2, <2>1, <2>2, <2>3 DEF QueueKept
<1>3. CASE Produce(r)
  <2>1. /\ entry' = [entry EXCEPT ![r] = "check"] /\ entry[r] = "unborn"
        /\ UNCHANGED <<items, expired, forwarder, ambiguous, delivered, excused>>
    BY <1>3 DEF Produce
  <2>2. entry'[r] = "check"
    BY <2>1 DEF QueueKept, QueueType
  <2>3. Kept(r)'
    BY <1>1, <2>1, <2>2 DEF Kept, InHand, One
  <2>4. delivered' \in [Records -> Nat]
    BY <2>1 DEF QueueKept, QueueType
  <2> QED
    BY <1>2, <2>1, <2>3, <2>4
<1>4. CASE EnqueueCheck(r)
  <2>1. /\ entry' = [entry EXCEPT ![r] = IF enabled THEN "publish" ELSE "rest"] /\ entry[r] = "check"
        /\ UNCHANGED <<items, expired, forwarder, ambiguous, delivered>>
        /\ excused' = IF enabled THEN excused ELSE excused \cup {r}
    BY <1>4 DEF EnqueueCheck
  <2>2. entry'[r] = IF enabled THEN "publish" ELSE "rest"
    BY <2>1 DEF QueueKept, QueueType
  <2>3. r \notin Range(items) /\ r \notin Range(forwarder.held) /\ InHand(r)
    BY <1>1, <2>1 DEF Kept, InHand
  <2>4. Kept(r)'
    <3>1. CASE enabled
      BY <1>1, <2>1, <2>2, <2>3, <3>1 DEF Kept, InHand, One
    <3>2. CASE ~enabled
      BY <1>1, <2>1, <2>2, <2>3, <3>2 DEF Kept, InHand, One
    <3> QED
      BY <3>1, <3>2
  <2>5. delivered' \in [Records -> Nat] /\ \A s \in Records \ {r} : s \in excused' <=> s \in excused
    BY <2>1 DEF QueueKept, QueueType
  <2> QED
    BY <1>2, <2>1, <2>4, <2>5
<1>5. CASE Publish(r)
  <2> DEFINE receivers == {s \in subscribers : ~Full(s)}
  <2>1. /\ entry' = [entry EXCEPT ![r] = IF subscribers = {} THEN "enqueue" ELSE "rest"]
        /\ entry[r] = "publish" /\ UNCHANGED <<items, expired, forwarder, ambiguous>>
        /\ delivered' = IF receivers # {} THEN [delivered EXCEPT ![r] = @ + 1] ELSE delivered
        /\ excused' = IF subscribers # {} /\ receivers = {} THEN excused \cup {r} ELSE excused
    BY <1>5 DEF Publish
  <2>2. entry'[r] = IF subscribers = {} THEN "enqueue" ELSE "rest"
    BY <2>1 DEF QueueKept, QueueType
  <2>3. r \notin Range(items) /\ r \notin Range(forwarder.held) /\ InHand(r)
    BY <1>1, <2>1 DEF Kept, InHand
  <2>4. /\ delivered' \in [Records -> Nat] /\ \A s \in Records \ {r} : delivered'[s] = delivered[s]
        /\ delivered'[r] = IF receivers # {} THEN delivered[r] + 1 ELSE delivered[r]
    <3>1. delivered \in [Records -> Nat]
      BY DEF QueueKept, QueueType
    <3> HIDE DEF receivers
    <3>2. CASE receivers # {}
      BY <2>1, <3>1, <3>2
    <3>3. CASE receivers = {}
      BY <2>1, <3>1, <3>3
    <3> QED
      BY <3>2, <3>3
  <2>5. subscribers = {} => receivers = {}
    OBVIOUS
  <2> HIDE DEF receivers
  <2>6. Kept(r)'
    <3>1. CASE receivers # {}
      BY <1>1, <2>1, <2>2, <2>3, <2>4, <2>5, <3>1 DEF Kept, InHand, One
    <3>2. CASE subscribers # {} /\ receivers = {}
      BY <1>1, <2>1, <2>2, <2>3, <2>4, <3>2 DEF Kept, InHand, One
    <3>3. CASE subscribers = {} /\ receivers = {}
      BY <1>1, <2>1, <2>2, <2>3, <2>4, <3>3 DEF Kept, InHand, One
    <3> QED
      BY <2>5, <3>1, <3>2, <3>3
  <2>7. \A s \in Records \ {r} : s \in excused' <=> s \in excused
    BY <2>1
  <2> QED
    BY <1>2, <2>1, <2>4, <2>6, <2>7
<1>6. CASE EnqueueItem(r)
  <2>1. /\ entry' = [entry EXCEPT ![r] = "rest"] /\ entry[r] = "enqueue"
        /\ UNCHANGED <<forwarder, ambiguous, delivered>> /\ expired' = 0
        /\ items' = Append(PruneLocked, r) /\ excused' = excused \cup Pruned
    BY <1>6 DEF EnqueueItem
  <2>2. /\ PruneLocked \in Seq(Records) /\ Once(PruneLocked)
        /\ Pruned \cap Range(PruneLocked) = {} /\ Pruned \cup Range(PruneLocked) = Range(items)
    BY PruneParts
  <2>3. r \notin Range(items) /\ r \notin Range(forwarder.held) /\ InHand(r)
    BY <1>1, <2>1 DEF Kept, InHand
  <2>4. items' \in Seq(Records) /\ Once(items)' /\ Range(items') = Range(PruneLocked) \cup {r}
    <3>1. Append(PruneLocked, r) \in Seq(Records) /\ Once(Append(PruneLocked, r))
          /\ Range(Append(PruneLocked, r)) = Range(PruneLocked) \cup {r}
      BY <2>2, <2>3, AppendOnce
    <3> QED
      BY <2>1, <3>1 DEF Once
  <2>5. \A s \in Records : entry'[s] = IF s = r THEN "rest" ELSE entry[s]
    BY <2>1 DEF QueueKept, QueueType
  <2>6. QueueType'
    <3>1. Len(items') \in Nat
      BY <2>4
    <3> QED
      BY <2>1, <2>4, <3>1 DEF QueueKept, QueueType
  <2>7. Holding'
    BY <2>1, <2>4 DEF QueueKept, Holding
  <2>8. Kept(r)'
    <3>1. r \in Range(items') /\ (r \in excused' <=> r \in excused)
      BY <2>1, <2>2, <2>3, <2>4
    <3>2. entry'[r] = "rest"
      BY <2>5
    <3> QED
      BY <1>1, <2>1, <2>3, <3>1, <3>2 DEF Kept, InHand, One
  <2>9. ASSUME NEW s \in Records \ {r} PROVE Kept(s)'
    <3>1. Kept(s) /\ entry'[s] = entry[s] /\ delivered'[s] = delivered[s] /\ delivered[s] \in Nat
      BY <2>1, <2>5 DEF QueueKept, QueueType
    <3>2. CASE s \in Pruned
      BY <2>1, <2>2, <2>4, <3>1, <3>2, ExpiredIsKept
    <3>3. CASE s \notin Pruned
      <4>1. (s \in Range(items') <=> s \in Range(items)) /\ (s \in excused' <=> s \in excused)
        BY <2>1, <2>2, <2>4, <3>3
      <4> QED
        BY <2>1, <3>1, <4>1, KeptFrame
    <3> QED
      BY <3>2, <3>3
  <2> QED
    BY <2>6, <2>7, <2>8, <2>9 DEF QueueKept
<1> QED
  BY <1>3, <1>4, <1>5, <1>6

(* popOldest hands out some of the oldest items and drops the expired.     *)
LEMMA PopParts ==
  ASSUME QueueKept, PopOldest
  PROVE  /\ items' \in Seq(Records) /\ Once(items') /\ expired' = 0
         /\ Popped \in Seq(Records) /\ Once(Popped) /\ excused' = excused \cup Pruned
         /\ Range(items) = Pruned \cup Range(Popped) \cup Range(items')
         /\ Pruned \cap Range(Popped) = {} /\ Pruned \cap Range(items') = {}
         /\ Range(Popped) \cap Range(items') = {}
<1> DEFINE L == PruneLocked
           n == IF PopCount > Available THEN Available ELSE PopCount
<1>1. /\ L \in Seq(Records) /\ Once(L)
      /\ Pruned \cap Range(L) = {} /\ Pruned \cup Range(L) = Range(items)
  BY PruneParts
<1>2. Len(L) \in Nat /\ Available = Len(L) /\ PopCount \in Nat
  BY <1>1, QueueAssumption DEF Available
<1>3. n \in 0 .. Len(L)
  BY <1>2
<1>4. Popped = SubSeq(L, 1, n) /\ items' = SubSeq(L, Len(Popped) + 1, Len(L))
      /\ expired' = 0 /\ excused' = excused \cup Pruned
  BY <1>2 DEF PopOldest, Popped
<1> HIDE DEF L, n
<1>5. /\ SubSeq(L, 1, n) \in Seq(Records) /\ SubSeq(L, n + 1, Len(L)) \in Seq(Records)
      /\ Once(SubSeq(L, 1, n)) /\ Once(SubSeq(L, n + 1, Len(L))) /\ Len(SubSeq(L, 1, n)) = n
      /\ Range(SubSeq(L, 1, n)) \cap Range(SubSeq(L, n + 1, Len(L))) = {}
      /\ Range(SubSeq(L, 1, n)) \cup Range(SubSeq(L, n + 1, Len(L))) = Range(L)
  BY <1>1, <1>3, Cut
<1>6. items' = SubSeq(L, n + 1, Len(L))
  BY <1>4, <1>5
<1> QED
  BY <1>1, <1>4, <1>5, <1>6

(* The consumers.                                                          *)
LEMMA ConsumersKeep ==
  ASSUME QueueKept, ClientPop \/ ForwardCheck \/ ForwardPop \/ ForwardPush \/ ForwardRequeue
  PROVE  QueueKept'
<1>0. /\ items \in Seq(Records) /\ forwarder \in Forwarder /\ delivered \in [Records -> Nat]
      /\ entry \in [Records -> {"unborn", "check", "publish", "enqueue", "rest"}]
  BY DEF QueueKept, QueueType
<1>1. CASE ClientPop
  <2>1. /\ PopOldest /\ UNCHANGED <<entry, forwarder, ambiguous>>
        /\ delivered' = [r \in Records |-> IF r \in Range(Popped) THEN delivered[r] + 1
                                                                  ELSE delivered[r]]
    BY <1>1 DEF ClientPop
  <2>2. /\ items' \in Seq(Records) /\ Once(items') /\ expired' = 0
        /\ Popped \in Seq(Records) /\ Once(Popped) /\ excused' = excused \cup Pruned
        /\ Range(items) = Pruned \cup Range(Popped) \cup Range(items')
        /\ Pruned \cap Range(Popped) = {} /\ Pruned \cap Range(items') = {}
        /\ Range(Popped) \cap Range(items') = {}
    BY <2>1, PopParts
  <2>3. QueueType'
    <3>1. delivered' \in [Records -> Nat]
      BY <1>0, <2>1
    <3>2. expired' \in 0 .. Len(items')
      BY <2>2
    <3> QED
      BY <2>1, <2>2, <3>1, <3>2 DEF QueueKept, QueueType
  <2>4. Holding'
    BY <2>1, <2>2 DEF QueueKept, Holding, Once
  <2>5. ASSUME NEW r \in Records PROVE Kept(r)'
    <3>0. Kept(r) /\ delivered[r] \in Nat
      BY <1>0 DEF QueueKept
    <3>1. CASE r \in Pruned
      <4>1. delivered'[r] = delivered[r]
        BY <2>1, <2>2, <3>1
      <4> QED
        BY <2>1, <2>2, <3>0, <3>1, <4>1, ExpiredIsKept
    <3>2. CASE r \in Range(Popped)
      <4>1. /\ delivered'[r] = delivered[r] + 1 /\ r \in Range(items) /\ r \notin Range(items')
            /\ (r \in excused' <=> r \in excused)
        BY <2>1, <2>2, <3>2
      <4>2. entry[r] = "rest" /\ r \notin Range(forwarder.held) /\ ~InHand(r) /\ ~InHand(r)'
        BY <2>1, <3>0, <4>1 DEF Kept, InHand
      <4> QED
        BY <2>1, <3>0, <4>1, <4>2 DEF Kept, One
    <3>3. CASE r \notin Pruned \cup Range(Popped)
      <4>1. /\ delivered'[r] = delivered[r] /\ (r \in Range(items) <=> r \in Range(items'))
            /\ (r \in excused' <=> r \in excused)
        BY <2>1, <2>2, <3>3
      <4> QED
        BY <2>1, <3>0, <4>1, KeptFrame
    <3> QED
      BY <3>1, <3>2, <3>3
  <2> QED
    BY <2>3, <2>4, <2>5 DEF QueueKept
<1>2. ASSUME NEW pc \in {"idle", "pop", "push", "requeue"},
             forwarder' = [forwarder EXCEPT !.pc = pc],
             UNCHANGED <<items, expired, entry, delivered, excused, ambiguous>>,
             pc \in {"idle", "pop"} => forwarder.held = <<>>,
             pc = "push" => forwarder.held # <<>>
      PROVE  QueueKept'
  <2>1. forwarder' \in Forwarder /\ forwarder'.pc = pc /\ forwarder'.held = forwarder.held
    BY <1>0, <1>2 DEF Forwarder
  <2>2. QueueType'
    BY <1>2, <2>1 DEF QueueKept, QueueType
  <2>3. Holding'
    BY <1>2, <2>1 DEF QueueKept, Holding
  <2>4. \A r \in Records : Kept(r)'
    BY <1>2, <2>1, KeptFrame DEF QueueKept
  <2> QED
    BY <2>2, <2>3, <2>4 DEF QueueKept
<1>3. CASE ForwardCheck
  <2>1. /\ forwarder.pc = "idle" /\ forwarder' = [forwarder EXCEPT !.pc = "pop"]
        /\ UNCHANGED <<items, expired, entry, delivered, excused, ambiguous>>
    BY <1>3 DEF ForwardCheck
  <2>2. forwarder.held = <<>>
    BY <2>1 DEF QueueKept, Holding
  <2> QED
    BY <1>2, <2>1, <2>2
<1>4. CASE ForwardPop
  <2>1. /\ PopOldest /\ UNCHANGED <<entry, delivered, ambiguous>> /\ forwarder.pc = "pop"
        /\ forwarder' = IF Popped = <<>> THEN [forwarder EXCEPT !.pc = "idle"]
                                         ELSE [forwarder EXCEPT !.pc = "push", !.held = Popped]
    BY <1>4 DEF ForwardPop
  <2>2. /\ items' \in Seq(Records) /\ Once(items') /\ expired' = 0
        /\ Popped \in Seq(Records) /\ Once(Popped) /\ excused' = excused \cup Pruned
        /\ Range(items) = Pruned \cup Range(Popped) \cup Range(items')
        /\ Pruned \cap Range(Popped) = {} /\ Pruned \cap Range(items') = {}
        /\ Range(Popped) \cap Range(items') = {}
    BY <2>1, PopParts
  <2>3. forwarder.held = <<>>
    BY <2>1 DEF QueueKept, Holding
  <2>4. /\ forwarder' \in Forwarder /\ forwarder'.held = Popped
        /\ forwarder'.pc = IF Popped = <<>> THEN "idle" ELSE "push"
    <3>1. CASE Popped = <<>>
      BY <1>0, <2>1, <2>3, <3>1 DEF Forwarder
    <3>2. CASE Popped # <<>>
      BY <1>0, <2>1, <2>2, <3>2 DEF Forwarder
    <3> QED
      BY <3>1, <3>2
  <2>5. QueueType'
    <3>1. expired' \in 0 .. Len(items')
      BY <2>2
    <3> QED
      BY <2>1, <2>2, <2>4, <3>1 DEF QueueKept, QueueType
  <2>6. Holding'
    <3>1. Once(items)' /\ Once(forwarder.held)'
      BY <2>2, <2>4 DEF Once
    <3> QED
      BY <2>4, <3>1 DEF Holding
  <2>7. ASSUME NEW r \in Records PROVE Kept(r)'
    <3>0. Kept(r) /\ delivered[r] \in Nat /\ r \notin Range(forwarder.held)
      BY <1>0, <2>3 DEF QueueKept, Range
    <3>1. CASE r \in Pruned
      BY <2>1, <2>2, <2>4, <3>0, <3>1, ExpiredIsKept
    <3>2. CASE r \in Range(Popped)
      <4>1. /\ r \in Range(items) /\ r \notin Range(items') /\ r \in Range(forwarder'.held)
            /\ (r \in excused' <=> r \in excused)
        BY <2>1, <2>2, <2>4, <3>2
      <4>2. entry[r] = "rest" /\ ~InHand(r) /\ InHand(r)'
        BY <3>0, <4>1 DEF Kept, InHand
      <4> QED
        BY <2>1, <3>0, <4>1, <4>2 DEF Kept, One
    <3>3. CASE r \notin Pruned \cup Range(Popped)
      <4>1. /\ (r \in Range(items) <=> r \in Range(items')) /\ r \notin Range(forwarder'.held)
            /\ (r \in excused' <=> r \in excused)
        BY <2>1, <2>2, <2>4, <3>3
      <4> QED
        BY <2>1, <3>0, <4>1, KeptFrame
    <3> QED
      BY <3>1, <3>2, <3>3
  <2> QED
    BY <2>5, <2>6, <2>7 DEF QueueKept
<1>5. ASSUME forwarder.held # <<>>
      PROVE  LET r == Head(forwarder.held)
                 rest == Tail(forwarder.held)
             IN  /\ rest \in Seq(Records) /\ Once(rest) /\ r \in Records /\ r \notin Range(rest)
                 /\ Range(forwarder.held) = {r} \cup Range(rest)
                 /\ entry[r] = "rest" /\ r \notin Range(items)
  <2>1. forwarder.held \in Seq(Records) /\ Once(forwarder.held)
    BY <1>0 DEF QueueKept, Holding, Forwarder
  <2>2. /\ Tail(forwarder.held) \in Seq(Records) /\ Once(Tail(forwarder.held))
        /\ Head(forwarder.held) \in Records /\ Head(forwarder.held) \notin Range(Tail(forwarder.held))
        /\ Range(forwarder.held) = {Head(forwarder.held)} \cup Range(Tail(forwarder.held))
    BY <1>5, <2>1, CutHead
  <2> QED
    BY <2>2 DEF QueueKept, Kept
<1>6. CASE ForwardPush
  <2>0. /\ forwarder.pc = "push" /\ forwarder.held # <<>>
        /\ UNCHANGED <<items, expired, entry, excused>>
    BY <1>6 DEF ForwardPush, QueueKept, Holding
  <2>1. PICK r \in Records, rest \in Seq(Records) :
          /\ r = Head(forwarder.held) /\ rest = Tail(forwarder.held) /\ Once(rest) /\ r \notin Range(rest)
          /\ Range(forwarder.held) = {r} \cup Range(rest) /\ entry[r] = "rest" /\ r \notin Range(items)
    BY <1>5, <2>0
  <2>2. Kept(r) /\ delivered[r] \in Nat /\ InHand(r)
    BY <1>0, <2>1 DEF QueueKept, InHand
  <2>3. CASE /\ delivered' = [delivered EXCEPT ![r] = @ + 1] /\ UNCHANGED ambiguous
             /\ forwarder' = [forwarder EXCEPT !.held = rest,
                                               !.pc = IF rest = <<>> THEN "idle" ELSE "push"]
    <3>1. /\ forwarder' \in Forwarder /\ forwarder'.held = rest
          /\ forwarder'.pc = IF rest = <<>> THEN "idle" ELSE "push"
      BY <1>0, <2>3 DEF Forwarder
    <3>2. /\ delivered' \in [Records -> Nat] /\ delivered'[r] = delivered[r] + 1
          /\ \A s \in Records \ {r} : delivered'[s] = delivered[s]
      BY <1>0, <2>3
    <3>3. QueueType'
      BY <2>0, <3>1, <3>2 DEF QueueKept, QueueType
    <3>4. Holding'
      <4>1. Once(items)' /\ Once(forwarder.held)'
        BY <2>0, <2>1, <3>1 DEF QueueKept, Holding, Once
      <4> QED
        BY <3>1, <4>1 DEF Holding
    <3>5. Kept(r)'
      <4>1. r \notin Range(forwarder'.held) /\ ~InHand(r)'
        BY <2>0, <2>1, <3>1 DEF InHand
      <4> QED
        BY <2>0, <2>1, <2>2, <2>3, <3>2, <4>1 DEF Kept, One
    <3>6. \A s \in Records \ {r} : Kept(s)'
      BY <2>0, <2>1, <2>3, <3>1, <3>2, KeptFrame DEF QueueKept
    <3> QED
      BY <3>3, <3>4, <3>5, <3>6 DEF QueueKept
  <2>4. CASE forwarder' = [forwarder EXCEPT !.pc = "requeue"] /\ UNCHANGED <<delivered, ambiguous>>
    BY <1>2, <2>0, <2>4
  <2>5. CASE /\ delivered' = [delivered EXCEPT ![r] = @ + 1] /\ ambiguous' = ambiguous \cup {r}
             /\ forwarder' = [forwarder EXCEPT !.pc = "requeue"]
    <3>1. forwarder' \in Forwarder /\ forwarder'.held = forwarder.held /\ forwarder'.pc = "requeue"
      BY <1>0, <2>5 DEF Forwarder
    <3>2. /\ delivered' \in [Records -> Nat] /\ delivered'[r] = delivered[r] + 1
          /\ \A s \in Records \ {r} : delivered'[s] = delivered[s]
      BY <1>0, <2>5
    <3>3. QueueType'
      BY <2>0, <3>1, <3>2 DEF QueueKept, QueueType
    <3>4. Holding'
      BY <2>0, <3>1 DEF QueueKept, Holding
    <3>5. Kept(r)'
      <4>1. r \in ambiguous' /\ delivered'[r] >= 1
        BY <2>2, <2>5, <3>2
      <4> QED
        BY <2>0, <2>1, <2>2, <3>1, <4>1 DEF Kept
    <3>6. \A s \in Records \ {r} : Kept(s)'
      BY <2>0, <2>5, <3>1, <3>2, KeptFrame DEF QueueKept
    <3> QED
      BY <3>3, <3>4, <3>5, <3>6 DEF QueueKept
  <2> QED
    BY <1>6, <2>1, <2>3, <2>4, <2>5 DEF ForwardPush
<1>7. CASE ForwardRequeue
  <2>0. forwarder.pc = "requeue" /\ UNCHANGED <<items, expired, delivered, excused, ambiguous>>
    BY <1>7 DEF ForwardRequeue
  <2>1. CASE forwarder.held = <<>>
    <3>1. forwarder' = [forwarder EXCEPT !.pc = "idle", !.putting = Nobody] /\ UNCHANGED entry
      BY <1>7, <2>1 DEF ForwardRequeue
    <3>2. forwarder' \in Forwarder /\ forwarder'.held = forwarder.held /\ forwarder'.pc = "idle"
      BY <1>0, <3>1 DEF Forwarder
    <3>3. QueueType'
      BY <2>0, <3>1, <3>2 DEF QueueKept, QueueType
    <3>4. Holding'
      BY <2>0, <2>1, <3>2 DEF QueueKept, Holding
    <3>5. \A s \in Records : Kept(s)'
      BY <2>0, <3>1, <3>2, KeptFrame DEF QueueKept
    <3> QED
      BY <3>3, <3>4, <3>5 DEF QueueKept
  <2>2. CASE forwarder.held # <<>>
    <3>1. PICK r \in Records, rest \in Seq(Records) :
            /\ r = Head(forwarder.held) /\ rest = Tail(forwarder.held) /\ Once(rest) /\ r \notin Range(rest)
            /\ Range(forwarder.held) = {r} \cup Range(rest) /\ entry[r] = "rest" /\ r \notin Range(items)
      BY <1>5, <2>2
    <3>2. /\ entry' = [entry EXCEPT ![r] = "check"]
          /\ forwarder' = [forwarder EXCEPT !.held = rest, !.putting = r]
      BY <1>7, <2>2, <3>1 DEF ForwardRequeue
    <3>3. forwarder' \in Forwarder /\ forwarder'.held = rest /\ forwarder'.pc = "requeue"
      BY <1>0, <2>0, <3>2 DEF Forwarder
    <3>4. /\ entry' \in [Records -> {"unborn", "check", "publish", "enqueue", "rest"}]
          /\ entry'[r] = "check" /\ \A s \in Records \ {r} : entry'[s] = entry[s]
      BY <1>0, <3>2
    <3>5. QueueType'
      BY <2>0, <3>3, <3>4 DEF QueueKept, QueueType
    <3>6. Holding'
      <4>1. Once(items)' /\ Once(forwarder.held)'
        BY <2>0, <3>1, <3>3 DEF QueueKept, Holding, Once
      <4> QED
        BY <3>3, <4>1 DEF Holding
    <3>7. Kept(r)'
      <4>1. Kept(r) /\ InHand(r) /\ InHand(r)' /\ r \notin Range(forwarder'.held)
        BY <3>1, <3>3, <3>4 DEF InHand, QueueKept
      <4> QED
        BY <2>0, <3>1, <3>4, <4>1 DEF Kept, One
    <3>8. \A s \in Records \ {r} : Kept(s)'
      BY <2>0, <3>1, <3>3, <3>4, KeptFrame DEF QueueKept
    <3> QED
      BY <3>5, <3>6, <3>7, <3>8 DEF QueueKept
  <2> QED
    BY <2>1, <2>2
<1> QED
  BY <1>1, <1>3, <1>4, <1>6, <1>7

(* No record vanishes without a reason, and none is handed out twice       *)
(* unless a push failed although Home had stored it.                       *)
THEOREM UsageIsCountedOnce == QueueSpec => []RecordIsInOnePlace
<1>1. QueueInit => QueueKept
  <2> SUFFICES ASSUME QueueInit PROVE QueueKept
    OBVIOUS
  <2>1. forwarder = [pc |-> "idle", held |-> <<>>, putting |-> Nobody] /\ items = <<>>
    BY DEF QueueInit
  <2>2. /\ forwarder \in Forwarder /\ forwarder.held = <<>> /\ forwarder.pc = "idle"
        /\ items \in Seq(Records) /\ Len(items) = 0
    BY <2>1 DEF Forwarder
  <2>3. QueueType
    BY <2>2 DEF QueueInit, QueueType
  <2>4. Holding
    BY <2>1, <2>2 DEF Holding, Once
  <2>5. ASSUME NEW r \in Records PROVE Kept(r)
    <3>1. entry[r] = "unborn" /\ delivered[r] = 0 /\ excused = {} /\ ambiguous = {}
      BY DEF QueueInit
    <3>2. Range(items) = {} /\ Range(forwarder.held) = {}
      BY <2>1, <2>2 DEF Range
    <3> QED
      BY <3>1, <3>2 DEF Kept
  <2> QED
    BY <2>3, <2>4, <2>5 DEF QueueKept
<1>2. QueueKept /\ [QueueNext]_queueVars => QueueKept'
  <2> SUFFICES ASSUME QueueKept, [QueueNext]_queueVars PROVE QueueKept'
    OBVIOUS
  <2>1. ASSUME UNCHANGED <<items, forwarder, entry, delivered, excused, ambiguous>>,
               expired' \in 0 .. Len(items)
        PROVE  QueueKept'
    <3>1. QueueType'
      BY <2>1 DEF QueueKept, QueueType
    <3>2. Holding'
      BY <2>1 DEF QueueKept, Holding
    <3>3. \A r \in Records : Kept(r)'
      BY <2>1, KeptFrame DEF QueueKept
    <3> QED
      BY <3>1, <3>2, <3>3 DEF QueueKept
  <2>2. expired \in 0 .. Len(items) /\ items \in Seq(Records) /\ Len(items) \in Nat
    BY DEF QueueKept, QueueType
  <2>3. CASE Age
    <3>1. expired' \in 0 .. Len(items)
      BY <2>2, <2>3 DEF Age
    <3> QED
      BY <2>1, <2>3, <3>1 DEF Age
  <2>4. CASE UNCHANGED queueVars \/ NotifyUsageRefresh \/ ClientCheck \/ SetUsageStatisticsDisabled
             \/ \E value \in BOOLEAN : SetEnabled(value)
    BY <2>1, <2>2, <2>4 DEF queueVars, NotifyUsageRefresh, ClientCheck, SetUsageStatisticsDisabled,
                            SetEnabled
  <2>5. ASSUME NEW s \in Subscribers,
               SubscribeUsage(s) \/ ReadFeed(s) \/ Unsubscribe(s) \/ UnsubscribeClose(s)
        PROVE  QueueKept'
    BY <2>1, <2>2, <2>5 DEF SubscribeUsage, ReadFeed, Unsubscribe, UnsubscribeClose
  <2>6. CASE ClearClose
    BY <2>1, <2>2, <2>6 DEF ClearClose
  <2>7. CASE Clear
    <3>1. /\ UNCHANGED <<forwarder, entry, delivered, ambiguous>> /\ items' = <<>> /\ expired' = 0
          /\ excused' = excused \cup Range(items)
      BY <2>7 DEF Clear
    <3>2. items' \in Seq(Records) /\ Len(items') = 0 /\ Range(items') = {}
      BY <3>1 DEF Range
    <3>3. QueueType'
      BY <3>1, <3>2 DEF QueueKept, QueueType
    <3>4. Holding'
      <4>1. Once(items)'
        BY <3>1, <3>2 DEF Once
      <4> QED
        BY <3>1, <4>1 DEF QueueKept, Holding
    <3>5. ASSUME NEW r \in Records PROVE Kept(r)'
      <4>0. Kept(r) /\ delivered[r] \in Nat
        BY DEF QueueKept, QueueType
      <4>1. CASE r \in Range(items)
        BY <3>1, <3>2, <4>0, <4>1, ExpiredIsKept
      <4>2. CASE r \notin Range(items)
        BY <3>1, <3>2, <4>0, <4>2, KeptFrame
      <4> QED
        BY <4>1, <4>2
    <3> QED
      BY <3>3, <3>4, <3>5 DEF QueueKept
  <2> QED
    BY <2>3, <2>4, <2>5, <2>6, <2>7, EnqueueKeeps, ConsumersKeep DEF QueueNext
<1>3. QueueKept => RecordIsInOnePlace
  <2> SUFFICES ASSUME QueueKept, NEW r \in Records, entry[r] # "unborn"
               PROVE  IF r \in ambiguous THEN Places(r) >= 1 ELSE Places(r) = 1
    BY DEF RecordIsInOnePlace
  <2>1. Kept(r) /\ delivered[r] \in Nat /\ items \in Seq(Records) /\ Once(items)
    BY DEF QueueKept, QueueType, Holding
  <2>2. Cardinality({k \in DOMAIN items : items[k] = r}) = One(r \in Range(items))
    BY <2>1, CountOnce
  <2>3. Places(r) = One(InHand(r)) + One(r \in Range(items)) + delivered[r] + One(r \in excused)
    BY <2>2 DEF Places, One
  <2>4. CASE r \in ambiguous
    <3>1. delivered[r] >= 1
      BY <2>1, <2>4 DEF Kept
    <3>2. Places(r) >= 1
      BY <2>1, <2>3, <3>1 DEF One
    <3> QED
      BY <2>4, <3>2
  <2>5. CASE r \notin ambiguous
    BY <2>1, <2>3, <2>5 DEF Kept
  <2> QED
    BY <2>4, <2>5
<1> QED
  BY <1>1, <1>2, <1>3, PTL DEF QueueSpec

-----------------------------------------------------------------------------
(* Alias groups *)

(* Filtered takes members of a sequence: the ranks of the positions, one   *)
(* more than the next smaller's, are the numbers up to how many there are. *)
LEMMA FilteredMembers ==
  ASSUME NEW S, NEW s \in Seq(S), NEW K \in SUBSET (DOMAIN s)
  PROVE  /\ Filtered(s, K) \in Seq(S) /\ Len(Filtered(s, K)) = Cardinality(K)
         /\ \A n \in 1 .. Cardinality(K) : \E i \in K : Filtered(s, K)[n] = s[i]
<1> DEFINE c == Cardinality(K)
           upto(i) == {j \in K : j <= i}
           rank == [i \in K |-> Cardinality(upto(i))]
           at(n) == CHOOSE i \in K : Cardinality({j \in K : j <= i}) = n
<1>1. Len(s) \in Nat /\ DOMAIN s = 1 .. Len(s) /\ K \subseteq Nat /\ \A i \in DOMAIN s : s[i] \in S
  OBVIOUS
<1>2. IsFiniteSet(K) /\ c \in Nat
  <2>1. IsFiniteSet(1 .. Len(s))
    BY <1>1, FS_Interval
  <2>2. IsFiniteSet(K)
    BY <1>1, <2>1, FS_Subset
  <2> QED
    BY <2>2, FS_CardinalityType
<1>3. \A i \in K : IsFiniteSet(upto(i)) /\ Cardinality(upto(i)) \in 1 .. c
  <2> SUFFICES ASSUME NEW i \in K PROVE IsFiniteSet(upto(i)) /\ Cardinality(upto(i)) \in 1 .. c
    OBVIOUS
  <2>1. upto(i) \in SUBSET K /\ i \in upto(i)
    BY <1>1
  <2> HIDE DEF upto
  <2>2. IsFiniteSet(upto(i)) /\ Cardinality(upto(i)) <= c
    BY <1>2, <2>1, FS_Subset
  <2>3. Cardinality(upto(i)) \in Nat /\ Cardinality(upto(i)) # 0
    BY <2>1, <2>2, FS_CardinalityType, FS_EmptySet
  <2> HIDE DEF c
  <2> QED
    BY <1>2, <2>2, <2>3
<1>4. ASSUME NEW i \in K, NEW k \in K, i < k
      PROVE  Cardinality(upto(i)) # Cardinality(upto(k))
  <2>1. upto(i) \in SUBSET upto(k) /\ k \in upto(k) /\ k \notin upto(i)
    BY <1>1, <1>4
  <2>2. IsFiniteSet(upto(k))
    BY <1>3
  <2> HIDE DEF upto
  <2> QED
    BY <2>1, <2>2, FS_Subset
<1>5. rank \in Injection(K, 1 .. c)
  <2>1. rank \in [K -> 1 .. c]
    BY <1>3
  <2>2. ASSUME NEW i \in K, NEW k \in K, rank[i] = rank[k] PROVE i = k
    <3>1. Cardinality(upto(i)) = Cardinality(upto(k))
      BY <2>2
    <3>2. i \in Nat /\ k \in Nat
      BY <1>1
    <3> HIDE DEF upto
    <3> QED
      BY <1>4, <3>1, <3>2
  <2> HIDE DEF rank
  <2> QED
    BY <2>1, <2>2 DEF Injection, IsInjective
<1>6. rank \in Surjection(K, 1 .. c)
  <2>1. IsFiniteSet(1 .. c) /\ Cardinality(1 .. c) = c
    <3> HIDE DEF c
    <3>1. 1 \in Int /\ c \in Int
      BY <1>2
    <3>2. IsFiniteSet(1 .. c) /\ Cardinality(1 .. c) = IF 1 > c THEN 0 ELSE c - 1 + 1
      BY <3>1, FS_Interval
    <3> QED
      BY <1>2, <3>2
  <2> HIDE DEF rank
  <2> QED
    BY <1>5, <2>1, FS_Injection
<1>7. \A n \in 1 .. c : \E i \in K : Cardinality({j \in K : j <= i}) = n
  <2> SUFFICES ASSUME NEW n \in 1 .. c PROVE \E i \in K : rank[i] = n
    OBVIOUS
  <2> HIDE DEF rank
  <2> QED
    BY <1>6 DEF Surjection
<1>8. \A n \in 1 .. c : at(n) \in K
  BY <1>7
<1> HIDE DEF at
<1>9. Filtered(s, K) = [n \in 1 .. c |-> s[at(n)]]
  BY DEF Filtered, at
<1> HIDE DEF c
<1>10. Filtered(s, K) \in [1 .. c -> S]
  BY <1>1, <1>8, <1>9
<1>11. Filtered(s, K) \in Seq(S) /\ Len(Filtered(s, K)) = c
  BY <1>2, <1>10, SeqDef
<1> QED
  BY <1>8, <1>9, <1>11 DEF c

(* Merging and compacting aliases adds none.                               *)
LEMMA MergeMembers ==
  ASSUME NEW a \in Seq(Keys), NEW b \in Seq(Keys)
  PROVE  Merge(a, b) \in Seq(Keys) /\ Range(Merge(a, b)) \subseteq Range(a) \cup Range(b)
<1> DEFINE all == a \o b
           K == {i \in DOMAIN all : all[i] # NoKey /\ \A j \in 1 .. i - 1 : all[j] # all[i]}
<1>1. all \in Seq(Keys) /\ Range(all) = Range(a) \cup Range(b)
  BY RangeConcatenation
<1>2. Merge(a, b) = Filtered(all, K)
  BY DEF Merge
<1>3. K \in SUBSET (DOMAIN all)
  OBVIOUS
<1> HIDE DEF all, K
<1>4. /\ Filtered(all, K) \in Seq(Keys) /\ Len(Filtered(all, K)) = Cardinality(K)
      /\ \A n \in 1 .. Cardinality(K) : \E i \in K : Filtered(all, K)[n] = all[i]
  BY <1>1, <1>3, FilteredMembers
<1>5. DOMAIN Filtered(all, K) = 1 .. Cardinality(K)
  BY <1>4
<1> QED
  BY <1>1, <1>2, <1>3, <1>4, <1>5 DEF Range

(* The same of compacting.                                                 *)
LEMMA CompactMembers ==
  ASSUME NEW a \in Seq(Keys)
  PROVE  Compact(a) \in Seq(Keys) /\ Range(Compact(a)) \subseteq Range(a)
<1>1. PICK K \in SUBSET (DOMAIN a) : Compact(a) = Filtered(a, K)
  BY DEF Compact
<1>2. /\ Filtered(a, K) \in Seq(Keys) /\ Len(Filtered(a, K)) = Cardinality(K)
      /\ \A n \in 1 .. Cardinality(K) : \E i \in K : Filtered(a, K)[n] = a[i]
  BY FilteredMembers
<1>3. DOMAIN Filtered(a, K) = 1 .. Cardinality(K)
  BY <1>2
<1> QED
  BY <1>1, <1>2, <1>3 DEF Range

EntryType ==
  \A k \in DOMAIN entries : entries[k].aliases \in Seq(Keys) /\ entries[k].expires \in Nat

AffinityType ==
  /\ DOMAIN entries \subseteq Keys /\ clock \in Nat
  /\ EntryType
  /\ picker \in [Pickers -> [pc : {"idle", "lookup", "fallback", "bind"},
                             primary : Keys \cup {NoKey}, fallback : Keys \cup {NoKey},
                             available : SUBSET Accounts, auth : Accounts \cup {NoKey}]]
  /\ \A p \in Pickers : picker[p].pc # "idle" => picker[p].primary \in Keys
  /\ accounts \subseteq Accounts

(* Removing groups leaves the others whole: an entry that stays has no     *)
(* alias whose entry goes.                                                 *)
LEMMA WithoutWhole ==
  ASSUME AffinityType, GroupsAreWhole, NEW groups, NEW k \in DOMAIN Without(groups), Live(k)
  PROVE  /\ k \in DOMAIN entries /\ Without(groups)[k] = entries[k] /\ entries[k] \notin groups
         /\ \A l \in Range(entries[k].aliases) :
              l \in DOMAIN Without(groups) /\ Without(groups)[l] = entries[k] /\ entries[l] = entries[k]
<1>1. /\ k \in DOMAIN entries /\ Without(groups)[k] = entries[k]
      /\ \A group \in groups : k \notin Range(group.aliases) \/ entries[k] # group
  BY DEF Without
<1>2. /\ k \in Range(entries[k].aliases)
      /\ \A l \in Range(entries[k].aliases) : l \in DOMAIN entries /\ entries[l] = entries[k]
  BY <1>1 DEF GroupsAreWhole, AffinityType, EntryType
<1>3. entries[k] \notin groups
  BY <1>1, <1>2
<1>4. ASSUME NEW l \in Range(entries[k].aliases)
      PROVE  l \in DOMAIN Without(groups) /\ Without(groups)[l] = entries[k]
  BY <1>2, <1>3 DEF Without
<1> QED
  BY <1>1, <1>2, <1>3, <1>4

(* Groups are removed, and their aliases and some new ones form a group.   *)
LEMMA ReplaceWhole ==
  ASSUME AffinityType, GroupsAreWhole, NEW auth, NEW aliases \in Seq(Keys), NEW groups,
         \A l \in Range(aliases) : Live(l) => entries[l] \in groups,
         entries' = ReplaceAliasGroups(auth, aliases, groups), UNCHANGED clock
  PROVE  /\ GroupsAreWhole' /\ DOMAIN entries' \subseteq Keys
         /\ EntryType'
<1> DEFINE new == [auth |-> auth, expires |-> clock + Ttl, aliases |-> aliases]
           kept == Without(groups)
<1>1. /\ DOMAIN entries' = DOMAIN kept \cup Range(aliases)
      /\ \A k \in Range(aliases) : entries'[k] = new
      /\ \A k \in DOMAIN kept \ Range(aliases) : entries'[k] = kept[k]
  BY DEF ReplaceAliasGroups
<1>2. DOMAIN kept \subseteq DOMAIN entries /\ \A k \in DOMAIN kept : kept[k] = entries[k]
  BY DEF Without
<1>3. new.aliases = aliases /\ new.expires = clock + Ttl /\ clock + Ttl \in Nat
  BY AffinityAssumption DEF AffinityType
<1> HIDE DEF new, kept
<1>4. Range(aliases) \subseteq Keys
  BY RangeOfSeq
<1>5. DOMAIN entries' \subseteq Keys
  BY <1>1, <1>2, <1>4 DEF AffinityType, EntryType
<1>6. EntryType'
  <2> SUFFICES ASSUME NEW k \in DOMAIN entries'
               PROVE  entries'[k].aliases \in Seq(Keys) /\ entries'[k].expires \in Nat
    BY DEF EntryType
  <2>1. CASE k \in Range(aliases)
    BY <1>1, <1>3, <2>1
  <2>2. CASE k \notin Range(aliases)
    BY <1>1, <1>2, <2>2 DEF AffinityType, EntryType
  <2> QED
    BY <2>1, <2>2
<1>7. ASSUME NEW k \in DOMAIN entries', clock < entries'[k].expires
      PROVE  /\ k \in Range(entries'[k].aliases)
             /\ \A l \in Range(entries'[k].aliases) : l \in DOMAIN entries' /\ entries'[l] = entries'[k]
  <2>1. CASE k \in Range(aliases)
    BY <1>1, <1>3, <2>1
  <2>2. CASE k \notin Range(aliases)
    <3>1. k \in DOMAIN kept /\ entries'[k] = entries[k] /\ Live(k)
      BY <1>1, <1>2, <1>7, <2>2 DEF Live
    <3>2. /\ entries[k] \notin groups /\ k \in Range(entries[k].aliases)
          /\ \A l \in Range(entries[k].aliases) : l \in DOMAIN kept /\ kept[l] = entries[k] /\ entries[l] = entries[k]
      <4>1. /\ entries[k] \notin groups
            /\ \A l \in Range(entries[k].aliases) : l \in DOMAIN kept /\ kept[l] = entries[k] /\ entries[l] = entries[k]
        BY <3>1, WithoutWhole DEF kept
      <4>2. k \in Range(entries[k].aliases)
        BY <1>5, <3>1 DEF GroupsAreWhole
      <4> QED
        BY <4>1, <4>2
    <3>3. ASSUME NEW l \in Range(entries[k].aliases) PROVE l \notin Range(aliases)
      <4>1. l \in DOMAIN entries /\ entries[l] = entries[k]
        BY <1>2, <3>2, <3>3
      <4>2. Live(l)
        BY <3>1, <4>1 DEF Live
      <4> QED
        BY <3>2, <4>1, <4>2
    <3> QED
      BY <1>1, <3>1, <3>2, <3>3
  <2> QED
    BY <2>1, <2>2
<1>8. GroupsAreWhole'
  BY <1>7 DEF GroupsAreWhole, Live
<1> QED
  BY <1>5, <1>6, <1>8

(* Entries are only removed, whole groups of them among the live ones.     *)
LEMMA ShrinkWhole ==
  ASSUME AffinityType, GroupsAreWhole, NEW D \in SUBSET (DOMAIN entries),
         entries' = [k \in D |-> entries[k]], UNCHANGED clock,
         \A k \in D : Live(k) => Range(entries[k].aliases) \subseteq D
  PROVE  /\ GroupsAreWhole' /\ DOMAIN entries' \subseteq Keys
         /\ EntryType'
<1>1. DOMAIN entries' = D /\ \A k \in D : entries'[k] = entries[k]
  OBVIOUS
<1>2. ASSUME NEW k \in Keys, Live(k)'
      PROVE  /\ k \in Range(entries'[k].aliases)
             /\ \A l \in Range(entries'[k].aliases) : l \in DOMAIN entries' /\ entries'[l] = entries'[k]
  <2>1. k \in D /\ entries'[k] = entries[k] /\ Live(k)
    BY <1>1, <1>2 DEF Live
  <2> QED
    BY <1>1, <2>1 DEF GroupsAreWhole
<1>3. GroupsAreWhole'
  BY <1>2 DEF GroupsAreWhole
<1> QED
  BY <1>1, <1>3 DEF AffinityType, EntryType

(* Removing a group, expired or not, is such a step.                       *)
LEMMA RemovedWhole ==
  ASSUME AffinityType, GroupsAreWhole, NEW group, entries' = Without({group}), UNCHANGED clock
  PROVE  /\ GroupsAreWhole' /\ DOMAIN entries' \subseteq Keys
         /\ EntryType'
<1>1. DOMAIN Without({group}) \in SUBSET (DOMAIN entries)
      /\ Without({group}) = [k \in DOMAIN Without({group}) |-> entries[k]]
  BY DEF Without
<1>2. \A k \in DOMAIN Without({group}) : Live(k) => Range(entries[k].aliases) \subseteq DOMAIN Without({group})
  BY WithoutWhole
<1> QED
  BY <1>1, <1>2, ShrinkWhole

(* The types of a pick that goes on.                                       *)
LEMMA ChooseType ==
  ASSUME AffinityType, NEW p \in Pickers, picker[p].pc # "idle",
         (\E cached : Choose(p, cached)) \/ picker' = [picker EXCEPT ![p].pc = "fallback"]
  PROVE  /\ picker' \in [Pickers -> [pc : {"idle", "lookup", "fallback", "bind"},
                             primary : Keys \cup {NoKey}, fallback : Keys \cup {NoKey},
                             available : SUBSET Accounts, auth : Accounts \cup {NoKey}]]
         /\ \A q \in Pickers : picker'[q].pc # "idle" => picker'[q].primary \in Keys
<1> DEFINE P == [pc : {"idle", "lookup", "fallback", "bind"},
                 primary : Keys \cup {NoKey}, fallback : Keys \cup {NoKey},
                 available : SUBSET Accounts, auth : Accounts \cup {NoKey}]
<1>1. picker \in [Pickers -> P] /\ picker[p] \in P
  BY DEF AffinityType, EntryType
<1>2. PICK c \in P : c.primary = picker[p].primary /\ picker' = [picker EXCEPT ![p] = c]
  <2>1. CASE picker' = [picker EXCEPT ![p].pc = "fallback"]
    <3> DEFINE c == [picker[p] EXCEPT !.pc = "fallback"]
    <3>1. c \in P /\ c.primary = picker[p].primary
      BY <1>1
    <3>2. picker' = [picker EXCEPT ![p] = c]
      BY <2>1
    <3> HIDE DEF c, P
    <3> QED
      BY <3>1, <3>2
  <2>2. ASSUME NEW cached, Choose(p, cached)
        PROVE  \E c \in P : c.primary = picker[p].primary /\ picker' = [picker EXCEPT ![p] = c]
    <3>1. PICK a \in picker[p].available : picker' = [picker EXCEPT ![p].pc = "bind", ![p].auth = a]
      BY <2>2 DEF Choose
    <3> DEFINE c == [picker[p] EXCEPT !.pc = "bind", !.auth = a]
    <3>2. a \in Accounts
      BY <1>1
    <3>3. c \in P /\ c.primary = picker[p].primary
      BY <1>1, <3>2
    <3>4. picker' = [picker EXCEPT ![p] = c]
      BY <1>1, <3>1
    <3> HIDE DEF c, P
    <3> QED
      BY <3>3, <3>4
  <2> QED
    BY <2>1, <2>2
<1> HIDE DEF P
<1>3. picker' \in [Pickers -> P] /\ picker'[p] = c /\ \A q \in Pickers \ {p} : picker'[q] = picker[q]
  BY <1>1, <1>2
<1>4. \A q \in Pickers : picker'[q].pc # "idle" => picker'[q].primary \in Keys
  BY <1>2, <1>3 DEF AffinityType, EntryType
<1> QED
  BY <1>3, <1>4 DEF P

(* SetAliases: every alias of the new group that has a live entry is one   *)
(* of the identifiers or in the group of one, and that group is removed.   *)
LEMMA SetAliasesWhole ==
  ASSUME AffinityType, GroupsAreWhole, NEW auth, NEW keys \in Seq(Keys),
         entries' = SetAliases(auth, keys), UNCHANGED clock
  PROVE  /\ GroupsAreWhole' /\ DOMAIN entries' \subseteq Keys
         /\ EntryType'
<1> DEFINE found == {k \in Range(keys) : k \in DOMAIN entries}
           L == {i \in DOMAIN keys : Live(keys[i])}
           live == Filtered(keys, L)
           joined == IF Len(live) = 2
                     THEN Merge(Merge(keys, entries[live[1]].aliases), entries[live[2]].aliases)
                     ELSE IF Len(live) = 1 THEN Merge(keys, entries[live[1]].aliases) ELSE keys
           groups == {entries[k] : k \in found}
<1>1. entries' = ReplaceAliasGroups(auth, Compact(joined), groups)
  BY DEF SetAliases
<1>2. \A n \in 1 .. Len(live) : live[n] \in found /\ Live(live[n])
  <2>1. L \in SUBSET (DOMAIN keys)
    OBVIOUS
  <2>2. Len(live) = Cardinality(L) /\ \A n \in 1 .. Cardinality(L) : \E i \in L : live[n] = keys[i]
    <3> HIDE DEF L
    <3> QED
      BY <2>1, FilteredMembers
  <2>3. \A i \in L : keys[i] \in found /\ Live(keys[i])
    BY DEF Range, Live
  <2> HIDE DEF L, found, live
  <2> QED
    BY <2>2, <2>3
<1>3. \A k \in found : k \in DOMAIN entries /\ entries[k].aliases \in Seq(Keys) /\ entries[k] \in groups
  BY DEF AffinityType, EntryType
<1>4. \A k \in Range(keys) : Live(k) => entries[k] \in groups
  BY DEF Live
<1>5. ASSUME NEW k \in found, Live(k), NEW l \in Range(entries[k].aliases)
      PROVE  entries[l] \in groups
  <2>1. k \in Keys
    BY <1>3, <1>5 DEF AffinityType, EntryType
  <2>2. entries[l] = entries[k]
    BY <1>5, <2>1 DEF GroupsAreWhole
  <2> QED
    BY <1>3, <2>2
<1> HIDE DEF found, live, groups, L
<1>6. joined \in Seq(Keys) /\ \A l \in Range(joined) : Live(l) => entries[l] \in groups
  <2>1. CASE Len(live) = 2
    <3>1. live[1] \in found /\ live[2] \in found /\ Live(live[1]) /\ Live(live[2])
      BY <1>2, <2>1
    <3> DEFINE m == Merge(keys, entries[live[1]].aliases)
    <3>2. m \in Seq(Keys) /\ Range(m) \subseteq Range(keys) \cup Range(entries[live[1]].aliases)
      BY <1>3, <3>1, MergeMembers
    <3>3. joined = Merge(m, entries[live[2]].aliases)
      BY <2>1
    <3> HIDE DEF m, joined
    <3>4. joined \in Seq(Keys) /\ Range(joined) \subseteq Range(m) \cup Range(entries[live[2]].aliases)
      BY <1>3, <3>1, <3>2, <3>3, MergeMembers
    <3> QED
      BY <1>4, <1>5, <3>1, <3>2, <3>4
  <2>2. CASE Len(live) = 1
    <3>1. live[1] \in found /\ Live(live[1])
      BY <1>2, <2>2
    <3>2. joined = Merge(keys, entries[live[1]].aliases)
      BY <2>2
    <3> HIDE DEF joined
    <3>3. joined \in Seq(Keys) /\ Range(joined) \subseteq Range(keys) \cup Range(entries[live[1]].aliases)
      BY <1>3, <3>1, <3>2, MergeMembers
    <3> QED
      BY <1>4, <1>5, <3>1, <3>3
  <2>3. CASE Len(live) # 2 /\ Len(live) # 1
    <3>1. joined = keys
      BY <2>3
    <3> QED
      BY <1>4, <3>1
  <2> QED
    BY <2>1, <2>2, <2>3
<1> HIDE DEF joined
<1>7. Compact(joined) \in Seq(Keys) /\ Range(Compact(joined)) \subseteq Range(joined)
  BY <1>6, CompactMembers
<1> QED
  BY <1>1, <1>6, <1>7, ReplaceWhole

(* All identifiers of a live session have the same entry.                  *)
THEOREM SessionGroupsAreWhole == AffinitySpec => []GroupsAreWhole
<1> DEFINE P == [pc : {"idle", "lookup", "fallback", "bind"},
                 primary : Keys \cup {NoKey}, fallback : Keys \cup {NoKey},
                 available : SUBSET Accounts, auth : Accounts \cup {NoKey}]
<1>1. AffinityInit => AffinityType /\ GroupsAreWhole
  <2> SUFFICES ASSUME AffinityInit PROVE AffinityType /\ GroupsAreWhole
    OBVIOUS
  <2>1. /\ DOMAIN entries = Bound
        /\ \A k \in Bound : entries[k].aliases = <<k>> /\ \A l \in Bound : l = k => entries[l] = entries[k]
    BY DEF AffinityInit
  <2>2. \A k \in Keys : <<k>> \in Seq(Keys) /\ Range(<<k>>) = {k}
    BY DEF Range
  <2>3. Bound \subseteq Keys
    BY AffinityAssumption
  <2>4. picker \in [Pickers -> P] /\ \A p \in Pickers : picker[p].pc = "idle"
    BY DEF AffinityInit, Idle
  <2>5. AffinityType
    <3>1. \A k \in Bound : entries[k].expires = Ttl
      BY DEF AffinityInit
    <3>2. EntryType
      BY <2>1, <2>2, <2>3, <3>1, AffinityAssumption DEF EntryType
    <3> QED
      BY <2>1, <2>3, <2>4, <3>2 DEF AffinityInit, AffinityType
  <2>6. GroupsAreWhole
    BY <2>1, <2>2 DEF GroupsAreWhole, Live
  <2> QED
    BY <2>5, <2>6
<1>2. AffinityType /\ GroupsAreWhole /\ [AffinityNext]_affinityVars => AffinityType' /\ GroupsAreWhole'
  <2> SUFFICES ASSUME AffinityType, GroupsAreWhole, [AffinityNext]_affinityVars
               PROVE  AffinityType' /\ GroupsAreWhole'
    OBVIOUS
  <2>0. picker \in [Pickers -> P] /\ clock \in Nat /\ accounts \subseteq Accounts
    BY DEF AffinityType, EntryType
  <2>1. ASSUME UNCHANGED entries, clock' \in Nat, clock <= clock'
        PROVE  /\ GroupsAreWhole' /\ DOMAIN entries' \subseteq Keys
               /\ EntryType'
    <3>1. ASSUME NEW k \in Keys, Live(k)' PROVE Live(k)
      <4>1. k \in DOMAIN entries /\ clock' < entries[k].expires
        BY <2>1, <3>1 DEF Live
      <4>2. entries[k].expires \in Nat
        BY <4>1 DEF AffinityType, EntryType
      <4> QED
        BY <2>0, <2>1, <4>1, <4>2 DEF Live
    <3>2. GroupsAreWhole'
      BY <2>1, <3>1 DEF GroupsAreWhole
    <3> QED
      BY <2>1, <3>2 DEF AffinityType, EntryType
  <2>2. CASE UNCHANGED affinityVars
    BY <2>2 DEF affinityVars, AffinityType, EntryType, GroupsAreWhole, Live
  <2>3. ASSUME NEW p \in Pickers, PickStart(p)
        PROVE  AffinityType' /\ GroupsAreWhole'
    <3>1. UNCHANGED <<entries, clock, accounts>>
      BY <2>3 DEF PickStart
    <3>2. PICK c \in P : c.primary \in Keys /\ picker' = [picker EXCEPT ![p] = c]
      <4>1. PICK primary \in Keys, fallback \in Keys \cup {NoKey}, available \in SUBSET accounts :
              picker' = [picker EXCEPT ![p] =
                [pc |-> "lookup", primary |-> primary, fallback |-> fallback,
                 available |-> available, auth |-> NoKey]]
        BY <2>3 DEF PickStart
      <4> DEFINE c == [pc |-> "lookup", primary |-> primary, fallback |-> fallback,
                       available |-> available, auth |-> NoKey]
      <4>2. c \in P /\ c.primary \in Keys
        BY <2>0
      <4>3. picker' = [picker EXCEPT ![p] = c]
        BY <4>1
      <4> HIDE DEF c, P
      <4> QED
        BY <4>2, <4>3
    <3> HIDE DEF P
    <3>3. /\ picker' \in [Pickers -> P]
          /\ \A q \in Pickers : picker'[q].pc # "idle" => picker'[q].primary \in Keys
      BY <2>0, <3>2 DEF AffinityType, EntryType
    <3> QED
      BY <3>1, <3>3 DEF AffinityType, EntryType, GroupsAreWhole, Live, P
  <2>4. ASSUME NEW p \in Pickers, PickLookup(p)
        PROVE  AffinityType' /\ GroupsAreWhole'
    <3> DEFINE k == picker[p].primary
    <3>1. UNCHANGED <<clock, accounts>> /\ picker[p].pc = "lookup"
      BY <2>4 DEF PickLookup
    <3>2. (\E cached : Choose(p, cached)) \/ picker' = [picker EXCEPT ![p].pc = "fallback"]
      BY <2>4 DEF PickLookup
    <3>3. /\ picker' \in [Pickers -> P]
          /\ \A q \in Pickers : picker'[q].pc # "idle" => picker'[q].primary \in Keys
      BY <3>1, <3>2, ChooseType
    <3>4. k \in Keys
      BY <3>1 DEF AffinityType, EntryType
    <3> HIDE DEF k
    <3>5. CASE Live(k)
      <4> DEFINE m == Merge(<<k>>, entries[k].aliases)
      <4>1. entries' = ReplaceAliasGroups(entries[k].auth, Compact(m), {entries[k]})
        BY <2>4, <3>5 DEF PickLookup, k
      <4>2. k \in DOMAIN entries /\ entries[k].aliases \in Seq(Keys)
        BY <3>5 DEF Live, AffinityType, EntryType
      <4>3. <<k>> \in Seq(Keys) /\ Range(<<k>>) = {k}
        BY <3>4 DEF Range
      <4>4. m \in Seq(Keys) /\ Range(m) \subseteq Range(<<k>>) \cup Range(entries[k].aliases)
        BY <4>2, <4>3, MergeMembers
      <4> HIDE DEF m
      <4>5. Compact(m) \in Seq(Keys) /\ Range(Compact(m)) \subseteq Range(m)
        BY <4>4, CompactMembers
      <4>6. \A l \in Range(entries[k].aliases) : entries[l] = entries[k]
        BY <3>4, <3>5 DEF GroupsAreWhole
      <4>7. \A l \in Range(Compact(m)) : entries[l] \in {entries[k]}
        BY <4>3, <4>4, <4>5, <4>6
      <4>8. /\ GroupsAreWhole' /\ DOMAIN entries' \subseteq Keys
            /\ EntryType'
        BY <3>1, <4>1, <4>5, <4>7, ReplaceWhole
      <4> QED
        BY <2>0, <3>1, <3>3, <4>8 DEF AffinityType, EntryType
    <3>6. CASE entries' = Without({entries[k]})
      BY <2>0, <3>1, <3>3, <3>6, RemovedWhole DEF AffinityType, EntryType
    <3>7. CASE entries' = entries
      BY <2>0, <3>1, <3>3, <3>7 DEF AffinityType, EntryType, GroupsAreWhole, Live
    <3> QED
      BY <2>4, <3>5, <3>6, <3>7 DEF PickLookup, k
  <2>5. ASSUME NEW p \in Pickers, PickFallback(p)
        PROVE  AffinityType' /\ GroupsAreWhole'
    <3>1. UNCHANGED <<clock, accounts>> /\ picker[p].pc = "fallback" /\ (\E cached : Choose(p, cached))
      BY <2>5 DEF PickFallback
    <3>2. /\ picker' \in [Pickers -> P]
          /\ \A q \in Pickers : picker'[q].pc # "idle" => picker'[q].primary \in Keys
      BY <3>1, ChooseType
    <3>3. (\E group : entries' = Without({group})) \/ entries' = entries
      BY <2>5 DEF PickFallback
    <3>4. CASE \E group : entries' = Without({group})
      BY <2>0, <3>1, <3>2, <3>4, RemovedWhole DEF AffinityType, EntryType
    <3>5. CASE entries' = entries
      BY <2>0, <3>1, <3>2, <3>5 DEF AffinityType, EntryType, GroupsAreWhole, Live
    <3> QED
      BY <3>3, <3>4, <3>5
  <2>6. ASSUME NEW p \in Pickers, PickBind(p)
        PROVE  AffinityType' /\ GroupsAreWhole'
    <3>1. /\ UNCHANGED <<clock, accounts>> /\ picker[p].pc = "bind"
          /\ entries' = SetAliases(picker[p].auth, Keyed(p)) /\ picker' = [picker EXCEPT ![p] = Idle]
      BY <2>6 DEF PickBind
    <3>2. picker[p].primary \in Keys /\ picker[p].fallback \in Keys \cup {NoKey}
      BY <2>0, <3>1 DEF AffinityType, EntryType
    <3>3. Keyed(p) \in Seq(Keys)
      <4>1. CASE picker[p].fallback = NoKey
        BY <3>2, <4>1 DEF Keyed
      <4>2. CASE picker[p].fallback # NoKey
        BY <3>2, <4>2 DEF Keyed
      <4> QED
        BY <4>1, <4>2
    <3>4. /\ GroupsAreWhole' /\ DOMAIN entries' \subseteq Keys
          /\ EntryType'
      BY <3>1, <3>3, SetAliasesWhole
    <3>5. /\ picker' \in [Pickers -> P]
          /\ \A q \in Pickers : picker'[q].pc # "idle" => picker'[q].primary \in Keys
      <4>1. Idle \in P /\ Idle.pc = "idle"
        BY DEF Idle
      <4> HIDE DEF P
      <4> QED
        BY <2>0, <3>1, <4>1 DEF AffinityType, EntryType
    <3> QED
      BY <2>0, <3>1, <3>4, <3>5 DEF AffinityType, EntryType
  <2>7. ASSUME NEW a \in Accounts, RemoveAccount(a)
        PROVE  AffinityType' /\ GroupsAreWhole'
    BY <2>7 DEF RemoveAccount, AffinityType, EntryType, GroupsAreWhole, Live
  <2>8. ASSUME NEW a \in Accounts, InvalidateAuth(a)
        PROVE  AffinityType' /\ GroupsAreWhole'
    <3> DEFINE D == {l \in DOMAIN entries : entries[l].auth # a}
    <3>1. UNCHANGED <<clock, accounts, picker>> /\ entries' = [k \in D |-> entries[k]]
      BY <2>8 DEF InvalidateAuth
    <3>2. \A k \in D : Live(k) => Range(entries[k].aliases) \subseteq D
      BY DEF AffinityType, EntryType, GroupsAreWhole
    <3>3. D \in SUBSET (DOMAIN entries)
      OBVIOUS
    <3> HIDE DEF D
    <3>4. /\ GroupsAreWhole' /\ DOMAIN entries' \subseteq Keys
          /\ EntryType'
      BY <3>1, <3>2, <3>3, ShrinkWhole
    <3> QED
      BY <3>1, <3>4 DEF AffinityType, EntryType
  <2>9. CASE CacheCleanup
    <3> DEFINE D == {l \in DOMAIN entries : Live(l)}
    <3>1. UNCHANGED <<clock, accounts, picker>> /\ entries' = [k \in D |-> entries[k]]
      BY <2>9 DEF CacheCleanup
    <3>2. \A k \in D : Live(k) => Range(entries[k].aliases) \subseteq D
      BY DEF AffinityType, EntryType, GroupsAreWhole, Live
    <3>3. D \in SUBSET (DOMAIN entries)
      OBVIOUS
    <3> HIDE DEF D
    <3>4. /\ GroupsAreWhole' /\ DOMAIN entries' \subseteq Keys
          /\ EntryType'
      BY <3>1, <3>2, <3>3, ShrinkWhole
    <3> QED
      BY <3>1, <3>4 DEF AffinityType, EntryType
  <2>10. CASE AffinityTick
    <3>1. UNCHANGED <<entries, accounts, picker>> /\ clock' \in Nat /\ clock <= clock'
      BY <2>0, <2>10 DEF AffinityTick
    <3> QED
      BY <2>1, <3>1 DEF AffinityType, EntryType
  <2> QED
    BY <2>2, <2>3, <2>4, <2>5, <2>6, <2>7, <2>8, <2>9, <2>10 DEF AffinityNext
<1> QED
  BY <1>1, <1>2, PTL DEF AffinitySpec

-----------------------------------------------------------------------------
(* Request execution: the permits of the upstream concurrency limit and the *)
(* recording of results.                                                    *)

CallPC == {"idle", "pick", "prepare", "unprepared", "limiter", "wait", "execute", "answer",
           "cooldown", "over"}

(* Where a request owes a result.                                          *)
Owing == {"answer", "unprepared"}

CallState ==
  [pc : CallPC, kind : {"call", "stream"}, round : Nat, tried : SUBSET Creds,
   attempted : SUBSET Creds, auth : Creds \cup {NoPermit}, left : Nat, refreshed : BOOLEAN,
   limit : Nat, permit : Nat \cup {NoPermit}]

(* The goroutines of a request and the limiters have their types.          *)
PathTypeOK ==
  /\ limitConfig \in Nat
  /\ limiters \in Seq([limit : Nat, held : Int])
  /\ call \in [Calls -> CallState]
  /\ stream \in [Calls -> {"off", "run", "failed", "done"}]
  /\ relay \in [Calls -> Nat \cup {NoPermit}]
  /\ owed \in [Calls -> Int]

(* A request that is owed a result is being answered, or was not prepared, *)
(* or its stream runs; a stream starts when its request is over.           *)
OwedNow(q) == IF call[q].pc \in Owing \/ stream[q] = "run" THEN 1 ELSE 0

Recording ==
  \A q \in Calls :
    /\ owed[q] = OwedNow(q)
    /\ stream[q] # "off" => At(q, "over")

(* A permit is held by a request while it executes, then by its relay, and *)
(* comes from a limiter that exists.                                       *)
Permits ==
  /\ \A q \in Calls :
       /\ call[q].permit # NoPermit =>
            call[q].pc \in {"execute", "answer"} /\ call[q].permit \in DOMAIN limiters
       /\ At(q, "wait") => call[q].limit \in DOMAIN limiters
       /\ relay[q] # NoPermit => At(q, "over") /\ relay[q] \in DOMAIN limiters
  /\ PermitsBalance

PathInv == PathTypeOK /\ Recording /\ Permits

-----------------------------------------------------------------------------
(* The records that a step leaves behind are states of a request.          *)
LEMMA NotStartedState ==
  /\ NotStarted \in CallState
  /\ NotStarted.permit = NoPermit
  BY DEF CallState, CallPC, NotStarted

(* Rest gives up the permit.                                               *)
LEMMA RestState ==
  ASSUME NEW q \in Calls, call[q] \in CallState, NEW pc \in CallPC
  PROVE  Rest(q, pc) \in CallState /\ Rest(q, pc).pc = pc /\ Rest(q, pc).permit = NoPermit
  BY NotStartedState DEF CallState, Rest

(* What a failed round does to the goroutine of its request: it has no     *)
(* permit, and is neither executed nor waiting for a limiter.              *)
Resting(q) ==
  /\ call' \in [Calls -> CallState]
  /\ \A p \in Calls \ {q} : call'[p] = call[p]
  /\ call'[q].permit = NoPermit
  /\ call'[q].pc \in {"over", "cooldown", "pick"}

(* RoundFails, NextCredential and Returns leave a request at rest.         *)
LEMMA AfterRound ==
  ASSUME PathTypeOK, NEW q \in Calls, RoundFails(q) \/ NextCredential(q) \/ Returns(q)
  PROVE  Resting(q)
<1>0. call[q] \in CallState /\ call \in [Calls -> CallState]
  BY DEF PathTypeOK
<1>1. ASSUME NEW c \in CallState, call' = [call EXCEPT ![q] = c],
             c.permit = NoPermit, c.pc \in {"over", "cooldown", "pick"}
      PROVE  Resting(q)
  BY <1>0, <1>1 DEF Resting
<1>2. CASE Returns(q)
  <2> DEFINE c == [NotStarted EXCEPT !.pc = "over"]
  <2>1. c \in CallState /\ c.permit = NoPermit /\ c.pc = "over"
    BY NotStartedState DEF CallState, CallPC
  <2> QED
    BY <1>1, <1>2, <2>1 DEF Returns, Becomes
<1>3. CASE Becomes(q, Rest(q, "cooldown"))
  <2>1. Rest(q, "cooldown") \in CallState
          /\ Rest(q, "cooldown").pc = "cooldown" /\ Rest(q, "cooldown").permit = NoPermit
    BY <1>0, RestState DEF CallPC
  <2> QED
    BY <1>1, <1>3, <2>1 DEF Becomes
<1>4. CASE NextCredential(q)
  <2> DEFINE c == [Rest(q, "pick") EXCEPT !.tried = call[q].tried, !.attempted = call[q].attempted]
  <2>1. Rest(q, "pick") \in CallState
          /\ Rest(q, "pick").pc = "pick" /\ Rest(q, "pick").permit = NoPermit
    BY <1>0, RestState DEF CallPC
  <2>2. c \in CallState /\ c.permit = NoPermit /\ c.pc = "pick"
    BY <1>0, <2>1 DEF CallState
  <2> QED
    BY <1>1, <1>4, <2>2 DEF NextCredential, Becomes
<1> QED
  BY <1>2, <1>3, <1>4 DEF RoundFails

(* A step that leaves the permits alone.                                   *)
Quiet(q) ==
  /\ call' \in [Calls -> CallState]
  /\ \A p \in Calls \ {q} : call'[p] = call[p]
  /\ call'[q].permit = call[q].permit
  /\ call'[q].permit # NoPermit => call'[q].pc \in {"execute", "answer"}
  /\ call[q].pc = "over" => call'[q].pc = "over"
  /\ call'[q].pc # "wait"
  /\ UNCHANGED <<limiters, relay>>

(* A step that ends the use of a permit.                                   *)
GivesBack(q) ==
  /\ Resting(q)
  /\ call[q].pc # "over"
  /\ Release(call[q].permit)
  /\ UNCHANGED relay

(* A request without a permit that changes its place is quiet.             *)
LEMMA RestingIsQuiet ==
  ASSUME Permits, NEW q \in Calls, Resting(q), call[q].pc \notin {"execute", "answer", "over"},
         UNCHANGED <<limiters, relay>>
  PROVE  Quiet(q)
  BY DEF Permits, Resting, Quiet

(* A request that puts another record in its place is quiet if the record  *)
(* has its permit.                                                         *)
LEMMA BecomesIsQuiet ==
  ASSUME PathTypeOK, NEW q \in Calls, NEW c \in CallState, call' = [call EXCEPT ![q] = c],
         c.permit = call[q].permit, c.permit # NoPermit => c.pc \in {"execute", "answer"},
         call[q].pc # "over", c.pc # "wait", UNCHANGED <<limiters, relay>>
  PROVE  Quiet(q)
  BY DEF PathTypeOK, Quiet

(* Every step does one of six things to the permits.                       *)
LEMMA PermitFrame ==
  ASSUME PathInv, [PathNext]_pathVars
  PROVE  \/ UNCHANGED <<limiters, call, relay>>
         \/ \E q \in Calls :
              \/ Quiet(q) \/ GivesBack(q)
              \/ UpstreamLimiterFor(q) \/ AcquirePermit(q) \/ AnswerStream(q) \/ RelayEnds(q)
<1> USE DEF PathInv
<1>1. CASE UNCHANGED pathVars \/ \E limit \in Limits : SetLimit(limit)
  BY <1>1 DEF pathVars, SetLimit
<1>2. ASSUME NEW q \in Calls,
             ClientLeaves(q) \/ StreamError(q) \/ StreamEnd(q) \/ StreamAbandoned(q)
      PROVE  UNCHANGED <<limiters, call, relay>>
  BY <1>2 DEF ClientLeaves, StreamError, StreamEnd, StreamAbandoned
<1>3. ASSUME NEW q \in Calls, PickFails(q) \/ PrepareRecorded(q) \/ AcquireFails(q)
      PROVE  Quiet(q)
  <2>1. /\ RoundFails(q) \/ NextCredential(q)
        /\ call[q].pc \in {"pick", "unprepared", "wait"} /\ UNCHANGED <<limiters, relay>>
    BY <1>3 DEF PickFails, PrepareRecorded, AcquireFails, At
  <2> QED
    BY <2>1, AfterRound, RestingIsQuiet
<1>4. ASSUME NEW q \in Calls, Intercepted(q) \/ AnswerTooLate(q) \/ AnswerInvalid(q) \/ AnswerCall(q)
      PROVE  GivesBack(q)
  <2>1. /\ RoundFails(q) \/ NextCredential(q) \/ Returns(q)
        /\ call[q].pc \in {"execute", "answer"} /\ Release(call[q].permit) /\ UNCHANGED relay
    BY <1>4 DEF Intercepted, AnswerTooLate, AnswerInvalid, AnswerCall, At
  <2> QED
    BY <2>1, AfterRound DEF GivesBack
<1>5. ASSUME NEW q \in Calls, NEW kind \in {"call", "stream"}, Arrive(q, kind) PROVE Quiet(q)
  <2> DEFINE c == [NotStarted EXCEPT !.pc = "pick", !.kind = kind, !.round = 1]
  <2>1. c \in CallState /\ c.permit = NoPermit /\ c.pc = "pick"
    BY NotStartedState DEF CallState, CallPC
  <2>2. call[q].pc = "idle" /\ call' = [call EXCEPT ![q] = c] /\ UNCHANGED <<limiters, relay>>
    BY <1>5 DEF Arrive, Becomes, At
  <2>3. call[q].permit = NoPermit
    BY <2>2 DEF Permits
  <2> QED
    BY <2>1, <2>2, <2>3, BecomesIsQuiet
<1>6. ASSUME NEW q \in Calls, PickNext(q) PROVE Quiet(q)
  <2>1. call[q] \in CallState /\ call[q].pc = "pick" /\ call[q].permit = NoPermit
        /\ UNCHANGED <<limiters, relay>>
    BY <1>6 DEF PickNext, At, Permits, PathTypeOK
  <2>2. ASSUME NEW a \in Creds, Becomes(q, [call[q] EXCEPT !.tried = @ \cup {a}])
        PROVE  Quiet(q)
    <3> DEFINE c == [call[q] EXCEPT !.tried = @ \cup {a}]
    <3>1. c \in CallState /\ c.permit = NoPermit /\ c.pc = "pick"
      BY <2>1 DEF CallState
    <3> QED
      BY <2>1, <2>2, <3>1, BecomesIsQuiet DEF Becomes
  <2>3. ASSUME NEW a \in Creds, NEW models \in PoolSizes,
               Becomes(q, [call[q] EXCEPT !.pc = "prepare", !.auth = a, !.left = models,
                                       !.refreshed = FALSE, !.tried = @ \cup {a},
                                       !.attempted = @ \cup {a}])
        PROVE  Quiet(q)
    <3> DEFINE c == [call[q] EXCEPT !.pc = "prepare", !.auth = a, !.left = models,
                                       !.refreshed = FALSE, !.tried = @ \cup {a},
                                       !.attempted = @ \cup {a}]
    <3>1. models \in Nat
      BY PathAssumption
    <3>2. c \in CallState /\ c.permit = NoPermit /\ c.pc = "prepare"
      BY <2>1, <3>1 DEF CallState, CallPC
    <3> QED
      BY <2>1, <2>3, <3>2, BecomesIsQuiet DEF Becomes
  <2> QED
    BY <1>6, <2>2, <2>3 DEF PickNext
<1>7. ASSUME NEW q \in Calls, PrepareRequestAuth(q) PROVE Quiet(q)
  <2> DEFINE pc == IF limitConfig = 0 THEN "execute" ELSE "limiter"
             c == [call[q] EXCEPT !.pc = pc, !.limit = limitConfig]
  <2>1. /\ call[q] \in CallState /\ call[q].pc = "prepare" /\ call[q].permit = NoPermit
        /\ UNCHANGED <<limiters, relay>> /\ call' = [call EXCEPT ![q] = c] /\ limitConfig \in Nat
    BY <1>7 DEF PrepareRequestAuth, At, Becomes, Permits, PathTypeOK
  <2>2. c \in CallState /\ c.permit = NoPermit /\ c.pc # "wait"
    BY <2>1 DEF CallState, CallPC
  <2> QED
    BY <2>1, <2>2, BecomesIsQuiet
<1>p. ASSUME NEW q \in Calls, PrepareFails(q) PROVE Quiet(q)
  <2> DEFINE c == [call[q] EXCEPT !.pc = "unprepared"]
  <2>1. /\ call[q] \in CallState /\ call[q].pc = "prepare" /\ call[q].permit = NoPermit
        /\ UNCHANGED <<limiters, relay>> /\ call' = [call EXCEPT ![q] = c]
    BY <1>p DEF PrepareFails, At, Becomes, Permits, PathTypeOK
  <2>2. c \in CallState /\ c.permit = NoPermit /\ c.pc # "wait"
    BY <2>1 DEF CallState, CallPC
  <2> QED
    BY <2>1, <2>2, BecomesIsQuiet
<1>8. ASSUME NEW q \in Calls, Execute(q) PROVE Quiet(q)
  <2> DEFINE c == [call[q] EXCEPT !.pc = "answer"]
  <2>1. /\ call[q] \in CallState /\ call[q].pc = "execute"
        /\ UNCHANGED <<limiters, relay>> /\ call' = [call EXCEPT ![q] = c]
    BY <1>8 DEF Execute, At, Becomes, PathTypeOK
  <2>2. c \in CallState /\ c.permit = call[q].permit /\ c.pc = "answer"
    BY <2>1 DEF CallState, CallPC
  <2> QED
    BY <2>1, <2>2, BecomesIsQuiet
<1>9. ASSUME NEW q \in Calls, RefreshAfterUnauthorized(q) PROVE Quiet(q)
  <2> DEFINE c == [call[q] EXCEPT !.refreshed = TRUE]
  <2>1. /\ call[q] \in CallState /\ call[q].pc = "answer"
        /\ UNCHANGED <<limiters, relay>> /\ call' = [call EXCEPT ![q] = c]
    BY <1>9 DEF RefreshAfterUnauthorized, At, Becomes, PathTypeOK
  <2>2. c \in CallState /\ c.permit = call[q].permit /\ c.pc = "answer"
    BY <2>1 DEF CallState, CallPC
  <2> QED
    BY <2>1, <2>2, BecomesIsQuiet
<1>10. ASSUME NEW q \in Calls, AnswerFailed(q) PROVE Quiet(q) \/ GivesBack(q)
  <2>1. call[q] \in CallState /\ call[q].pc = "answer" /\ UNCHANGED relay
    BY <1>10 DEF AnswerFailed, At, PathTypeOK
  <2>2. CASE call[q].left > 1
    <3> DEFINE c == [call[q] EXCEPT !.pc = "execute", !.left = @ - 1]
    <3>1. c \in CallState /\ c.permit = call[q].permit /\ c.pc = "execute"
      <4>1. call[q].left \in Nat /\ call[q].left - 1 \in Nat
        BY <2>1, <2>2 DEF CallState
      <4> QED
        BY <2>1, <4>1 DEF CallState, CallPC
    <3> QED
      BY <1>10, <2>1, <2>2, <3>1, BecomesIsQuiet DEF AnswerFailed, Becomes
  <2>3. CASE ~ call[q].left > 1
    BY <1>10, <2>1, <2>3, AfterRound DEF AnswerFailed, GivesBack
  <2> QED
    BY <2>2, <2>3
<1>11. ASSUME NEW q \in Calls, NextRound(q) PROVE Quiet(q)
  <2>1. call[q] \in CallState /\ call[q].pc = "cooldown" /\ UNCHANGED <<limiters, relay>>
    BY <1>11 DEF NextRound, At, PathTypeOK
  <2>2. CASE Returns(q)
    BY <2>1, <2>2, AfterRound, RestingIsQuiet
  <2>3. CASE Becomes(q, [Rest(q, "pick") EXCEPT !.round = @ + 1])
    <3> DEFINE c == [Rest(q, "pick") EXCEPT !.round = @ + 1]
    <3>1. Rest(q, "pick") \in CallState
          /\ Rest(q, "pick").pc = "pick" /\ Rest(q, "pick").permit = NoPermit
      BY <2>1, RestState DEF CallPC
    <3>2. c \in CallState /\ c.permit = NoPermit /\ c.pc = "pick"
      BY <3>1 DEF CallState
    <3>3. call[q].permit = NoPermit
      BY <2>1 DEF Permits
    <3> QED
      BY <2>1, <2>3, <3>2, <3>3, BecomesIsQuiet DEF Becomes
  <2> QED
    BY <1>11, <2>2, <2>3 DEF NextRound
<1> QED
  BY <1>1, <1>2, <1>3, <1>4, <1>5, <1>6, <1>7, <1>8, <1>9, <1>10, <1>11, <1>p DEF PathNext

-----------------------------------------------------------------------------
(* The limiters. *)

Limiter == [limit : Nat, held : Int]

(* What the sequence of limiters holds.                                    *)
LEMMA LimiterElement ==
  ASSUME limiters \in Seq(Limiter), NEW k \in DOMAIN limiters
  PROVE  /\ limiters[k] \in Limiter
         /\ limiters[k].held \in Int /\ limiters[k].limit \in Nat
<1>1. k \in 1 .. Len(limiters)
  BY LenProperties
<1>2. limiters[k] \in Limiter
  BY <1>1, ElementOfSeq
<1> QED
  BY <1>2 DEF Limiter

(* A change of one limiter's count leaves the rest as it is.               *)
LEMMA LimiterChange ==
  ASSUME limiters \in Seq(Limiter), NEW k \in DOMAIN limiters, NEW n \in Int,
         limiters' = [limiters EXCEPT ![k].held = n]
  PROVE  /\ limiters' \in Seq(Limiter)
         /\ DOMAIN limiters' = DOMAIN limiters
         /\ limiters'[k].held = n /\ limiters'[k].limit = limiters[k].limit
         /\ \A j \in DOMAIN limiters \ {k} : limiters'[j] = limiters[j]
<1>1. limiters[k] \in Limiter
  BY LimiterElement
<1>2. [limiters[k] EXCEPT !.held = n] \in Limiter
      /\ [limiters[k] EXCEPT !.held = n].held = n
      /\ [limiters[k] EXCEPT !.held = n].limit = limiters[k].limit
  BY <1>1 DEF Limiter
<1>3. limiters' = [limiters EXCEPT ![k] = [limiters[k] EXCEPT !.held = n]]
  OBVIOUS
<1>4. DOMAIN limiters = 1 .. Len(limiters)
  BY LenProperties
<1> QED
  BY <1>2, <1>3, <1>4, ExceptSeq

(* The holders of a limiter's permits are finitely many.                   *)
LEMMA HoldersFinite ==
  ASSUME NEW k
  PROVE  IsFiniteSet(Holders(k)) /\ Cardinality(Holders(k)) \in Nat
<1>1. Holders(k) \in SUBSET Calls
  BY DEF Holders
<1> QED
  BY <1>1, PathAssumption, FS_Subset, FS_CardinalityType

(* A permit that comes back is taken off its own limiter.                  *)
LEMMA ReturnBalances ==
  ASSUME PathTypeOK, PermitsBalance, NEW q \in Calls, NEW k \in DOMAIN limiters,
         limiters' = [limiters EXCEPT ![k].held = @ - 1],
         q \in Holders(k), Holders(k)' = Holders(k) \ {q},
         \A j \in DOMAIN limiters \ {k} : Holders(j)' = Holders(j)
  PROVE  PermitsBalance'
<1>1. limiters \in Seq(Limiter) /\ limiters[k].held \in Int /\ limiters[k].limit \in Nat
  <2>1. limiters \in Seq(Limiter)
    BY DEF PathTypeOK, Limiter
  <2> QED
    BY <2>1, LimiterElement
<1>2. limiters' = [limiters EXCEPT ![k].held = limiters[k].held - 1] /\ limiters[k].held - 1 \in Int
  BY <1>1
<1>3. /\ DOMAIN limiters' = DOMAIN limiters
      /\ limiters'[k].held = limiters[k].held - 1 /\ limiters'[k].limit = limiters[k].limit
      /\ \A j \in DOMAIN limiters \ {k} : limiters'[j] = limiters[j]
  BY <1>1, <1>2, LimiterChange
<1>4. Cardinality(Holders(k)') = Cardinality(Holders(k)) - 1
  BY HoldersFinite, FS_RemoveElement
<1>5. limiters'[k].held = Cardinality(Holders(k)') /\ limiters'[k].held <= limiters'[k].limit
  BY <1>1, <1>3, <1>4 DEF PermitsBalance
<1> QED
  BY <1>3, <1>5 DEF PermitsBalance

(* Every step keeps the permits and the limiters in balance.               *)
LEMMA PermitsStep ==
  ASSUME PathInv, [PathNext]_pathVars
  PROVE  Permits' /\ limiters' \in Seq(Limiter) /\ call' \in [Calls -> CallState]
                  /\ relay' \in [Calls -> Nat \cup {NoPermit}]
<1>0. /\ limiters \in Seq(Limiter) /\ call \in [Calls -> CallState]
      /\ relay \in [Calls -> Nat \cup {NoPermit}] /\ Permits /\ PathTypeOK
      /\ DOMAIN limiters = 1 .. Len(limiters) /\ Len(limiters) \in Nat
  BY LenProperties DEF PathInv, PathTypeOK, Limiter
<1>h. Permits' <=>
        /\ \A p \in Calls :
             /\ call'[p].permit # NoPermit =>
                  call'[p].pc \in {"execute", "answer"} /\ call'[p].permit \in DOMAIN limiters'
             /\ call'[p].pc = "wait" => call'[p].limit \in DOMAIN limiters'
             /\ relay'[p] # NoPermit => call'[p].pc = "over" /\ relay'[p] \in DOMAIN limiters'
        /\ PermitsBalance'
  BY DEF Permits, At
<1>i. \A p \in Calls :
             /\ call[p].permit # NoPermit =>
                  call[p].pc \in {"execute", "answer"} /\ call[p].permit \in DOMAIN limiters
             /\ call[p].pc = "wait" => call[p].limit \in DOMAIN limiters
             /\ relay[p] # NoPermit => call[p].pc = "over" /\ relay[p] \in DOMAIN limiters
  BY <1>0 DEF Permits, At
<1>j. NoPermit \notin DOMAIN limiters
  BY <1>0, PathAssumption
<1>1. CASE UNCHANGED <<limiters, call, relay>>
  BY <1>0, <1>1 DEF Permits, PermitsBalance, Holders, At
<1>2. ASSUME NEW q \in Calls, Quiet(q)
      PROVE  Permits' /\ limiters' \in Seq(Limiter) /\ call' \in [Calls -> CallState]
                      /\ relay' \in [Calls -> Nat \cup {NoPermit}]
  <2>1. \A k : Holders(k)' = Holders(k)
    BY <1>2 DEF Quiet, Holders
  <2>2. PermitsBalance'
    BY <1>0, <1>2, <2>1 DEF Quiet, Permits, PermitsBalance
  <2> QED
    BY <1>0, <1>2, <1>h, <1>i, <2>2 DEF Quiet
<1>3. ASSUME NEW q \in Calls, GivesBack(q)
      PROVE  Permits' /\ limiters' \in Seq(Limiter) /\ call' \in [Calls -> CallState]
                      /\ relay' \in [Calls -> Nat \cup {NoPermit}]
  <2>1. /\ call' \in [Calls -> CallState] /\ \A p \in Calls \ {q} : call'[p] = call[p]
        /\ call'[q].permit = NoPermit /\ call'[q].pc \in {"over", "cooldown", "pick"}
        /\ call[q].pc # "over" /\ relay' = relay /\ Release(call[q].permit)
    BY <1>3 DEF GivesBack, Resting
  <2>2. CASE call[q].permit = NoPermit
    <3>1. limiters' = limiters /\ \A k : Holders(k)' = Holders(k)
      BY <2>1, <2>2 DEF Release, Holders
    <3>2. PermitsBalance'
      BY <1>0, <3>1 DEF Permits, PermitsBalance
    <3> QED
      BY <1>0, <1>h, <1>i, <2>1, <3>1, <3>2
  <2>3. CASE call[q].permit # NoPermit
    <3>0. PICK k \in DOMAIN limiters : k = call[q].permit
      BY <1>i, <2>3
    <3>1. relay[q] = NoPermit
      BY <1>i, <2>1
    <3>2. limiters' = [limiters EXCEPT ![k].held = @ - 1]
      BY <2>1, <2>3, <3>0 DEF Release
    <3>3. q \in Holders(k) /\ Holders(k)' = Holders(k) \ {q}
      BY <1>j, <2>1, <3>0, <3>1 DEF Holders
    <3>4. \A j \in DOMAIN limiters \ {k} : Holders(j)' = Holders(j)
      BY <1>j, <2>1, <3>0, <3>1 DEF Holders
    <3>5. PermitsBalance'
      BY <1>0, <3>1, <3>2, <3>3, <3>4, ReturnBalances DEF Permits
    <3>6. limiters[k].held - 1 \in Int
      BY <1>0, <3>1, LimiterElement
    <3>7. limiters' \in Seq(Limiter) /\ DOMAIN limiters' = DOMAIN limiters
      BY <1>0, <3>1, <3>2, <3>6, LimiterChange
    <3> QED
      BY <1>0, <1>h, <1>i, <2>1, <3>5, <3>7
  <2> QED
    BY <2>2, <2>3
<1>4. ASSUME NEW q \in Calls, RelayEnds(q)
      PROVE  Permits' /\ limiters' \in Seq(Limiter) /\ call' \in [Calls -> CallState]
                      /\ relay' \in [Calls -> Nat \cup {NoPermit}]
  <2>0. PICK k \in DOMAIN limiters : k = relay[q]
    BY <1>4, <1>i DEF RelayEnds
  <2>1. /\ call' = call /\ relay' = [relay EXCEPT ![q] = NoPermit]
        /\ limiters' = [limiters EXCEPT ![k].held = @ - 1]
    BY <1>4, <2>0 DEF RelayEnds, Release
  <2>2. call[q].permit = NoPermit
    BY <1>4, <1>i DEF RelayEnds
  <2>3. q \in Holders(k) /\ Holders(k)' = Holders(k) \ {q}
    BY <1>0, <1>j, <2>0, <2>1, <2>2 DEF Holders
  <2>4. \A j \in DOMAIN limiters \ {k} : Holders(j)' = Holders(j)
    BY <1>0, <1>j, <2>0, <2>1, <2>2 DEF Holders
  <2>5. PermitsBalance'
    BY <1>0, <2>1, <2>3, <2>4, ReturnBalances DEF Permits
  <2>6. limiters[k].held - 1 \in Int
    BY <1>0, <2>1, LimiterElement
  <2>7. limiters' \in Seq(Limiter) /\ DOMAIN limiters' = DOMAIN limiters
    BY <1>0, <2>1, <2>6, LimiterChange
  <2> QED
    BY <1>0, <1>h, <1>i, <2>1, <2>5, <2>7
<1>5. ASSUME NEW q \in Calls, AcquirePermit(q)
      PROVE  Permits' /\ limiters' \in Seq(Limiter) /\ call' \in [Calls -> CallState]
                      /\ relay' \in [Calls -> Nat \cup {NoPermit}]
  <2>0. PICK k \in DOMAIN limiters : k = call[q].limit
    BY <1>5, <1>i DEF AcquirePermit, At
  <2> DEFINE c == [call[q] EXCEPT !.pc = "execute", !.permit = k, !.limit = 0]
  <2>1. /\ call[q].pc = "wait" /\ limiters[k].held < limiters[k].limit
        /\ limiters' = [limiters EXCEPT ![k].held = @ + 1]
        /\ call' = [call EXCEPT ![q] = c] /\ relay' = relay
    BY <1>5, <2>0 DEF AcquirePermit, At, Becomes
  <2>2. call[q].permit = NoPermit /\ relay[q] = NoPermit
    BY <1>i, <2>1
  <2>3. c \in CallState /\ c.pc = "execute" /\ c.permit = k
    <3>1. call[q] \in CallState /\ k \in Nat
      BY <1>0
    <3> QED
      BY <3>1 DEF CallState, CallPC
  <2>4. call' \in [Calls -> CallState] /\ call'[q] = c /\ \A p \in Calls \ {q} : call'[p] = call[p]
    BY <1>0, <2>1, <2>3
  <2>5. limiters[k].held + 1 \in Int /\ limiters[k].held \in Int /\ limiters[k].limit \in Nat
    BY <1>0, <2>2, LimiterElement
  <2>6. /\ limiters' \in Seq(Limiter) /\ DOMAIN limiters' = DOMAIN limiters
        /\ limiters'[k].held = limiters[k].held + 1 /\ limiters'[k].limit = limiters[k].limit
        /\ \A j \in DOMAIN limiters \ {k} : limiters'[j] = limiters[j]
    BY <1>0, <2>1, <2>2, <2>5, LimiterChange
  <2> HIDE DEF c
  <2>7. q \notin Holders(k) /\ Holders(k)' = Holders(k) \cup {q}
    BY <1>j, <2>1, <2>2, <2>3, <2>4 DEF Holders
  <2>8. \A j \in DOMAIN limiters \ {k} : Holders(j)' = Holders(j)
    BY <1>j, <2>1, <2>2, <2>3, <2>4 DEF Holders
  <2>9. Cardinality(Holders(k)') = Cardinality(Holders(k)) + 1
    BY <2>7, HoldersFinite, FS_AddElement
  <2>10. limiters'[k].held = Cardinality(Holders(k)') /\ limiters'[k].held <= limiters'[k].limit
    BY <1>0, <2>1, <2>2, <2>5, <2>6, <2>9 DEF Permits, PermitsBalance
  <2>11. PermitsBalance'
    BY <1>0, <2>6, <2>8, <2>10 DEF Permits, PermitsBalance
  <2> QED
    BY <1>0, <1>h, <1>i, <2>1, <2>2, <2>3, <2>4, <2>6, <2>11
<1>6. ASSUME NEW q \in Calls, AnswerStream(q)
      PROVE  Permits' /\ limiters' \in Seq(Limiter) /\ call' \in [Calls -> CallState]
                      /\ relay' \in [Calls -> Nat \cup {NoPermit}]
  <2> DEFINE c == [NotStarted EXCEPT !.pc = "over", !.auth = call[q].auth]
  <2>1. /\ call[q].pc = "answer" /\ limiters' = limiters
        /\ relay' = [relay EXCEPT ![q] = call[q].permit] /\ call' = [call EXCEPT ![q] = c]
    BY <1>6 DEF AnswerStream, At, Becomes
  <2>2. call[q] \in CallState
    BY <1>0
  <2>3. c \in CallState /\ c.pc = "over" /\ c.permit = NoPermit /\ call[q].permit \in Nat \cup {NoPermit}
    BY <2>2, NotStartedState DEF CallState, CallPC
  <2>4. call' \in [Calls -> CallState] /\ call'[q] = c /\ \A p \in Calls \ {q} : call'[p] = call[p]
    BY <1>0, <2>1, <2>3
  <2> HIDE DEF c
  <2>5. relay[q] = NoPermit
    BY <1>i, <2>1
  <2>6. \A k \in DOMAIN limiters : Holders(k)' = Holders(k)
    BY <1>0, <1>j, <2>1, <2>3, <2>4, <2>5 DEF Holders
  <2>7. PermitsBalance'
    BY <1>0, <2>1, <2>6 DEF Permits, PermitsBalance
  <2> QED
    BY <1>0, <1>h, <1>i, <2>1, <2>3, <2>4, <2>7
<1>7. ASSUME NEW q \in Calls, UpstreamLimiterFor(q)
      PROVE  Permits' /\ limiters' \in Seq(Limiter) /\ call' \in [Calls -> CallState]
                      /\ relay' \in [Calls -> Nat \cup {NoPermit}]
  <2> DEFINE new == [limit |-> call[q].limit, held |-> 0]
             c == [call[q] EXCEPT !.pc = "wait", !.limit = Len(limiters')]
  <2>1. /\ call[q].pc = "limiter" /\ relay' = relay /\ call' = [call EXCEPT ![q] = c]
        /\ \/ limiters' = limiters /\ limiters # <<>>
           \/ limiters' = Append(limiters, new)
    BY <1>7 DEF UpstreamLimiterFor, At, Becomes
  <2>2. call[q] \in CallState /\ new \in Limiter /\ call[q].permit = NoPermit
    <3>1. call[q] \in CallState /\ call[q].permit = NoPermit
      BY <1>0, <1>i, <2>1
    <3> QED
      BY <3>1 DEF CallState, Limiter
  <2>3. /\ limiters' \in Seq(Limiter) /\ Len(limiters') \in DOMAIN limiters'
        /\ DOMAIN limiters \subseteq DOMAIN limiters' /\ Len(limiters') \in Nat
        /\ \A k \in DOMAIN limiters : limiters'[k] = limiters[k]
        /\ \A k \in DOMAIN limiters' \ DOMAIN limiters : limiters'[k] = new
    <3> HIDE DEF new
    <3>1. CASE limiters' = limiters /\ limiters # <<>>
      BY <1>0, <3>1, EmptySeq
    <3>2. CASE limiters' = Append(limiters, new)
      BY <1>0, <2>2, <3>2, AppendProperties, LenProperties
    <3> QED
      BY <2>1, <3>1, <3>2
  <2>4. c \in CallState /\ c.pc = "wait" /\ c.permit = NoPermit /\ c.limit = Len(limiters')
    BY <2>2, <2>3 DEF CallState, CallPC
  <2>5. call' \in [Calls -> CallState] /\ call'[q] = c /\ \A p \in Calls \ {q} : call'[p] = call[p]
    BY <1>0, <2>1, <2>4
  <2> HIDE DEF c
  <2>6. \A k : Holders(k)' = Holders(k)
    BY <2>1, <2>2, <2>4, <2>5 DEF Holders
  <2>7. \A k \in DOMAIN limiters' \ DOMAIN limiters : Holders(k) = {}
    BY <1>0, <1>i, <2>3, PathAssumption, LenProperties DEF Holders
  <2>8. new.held = 0 /\ new.limit = call[q].limit /\ call[q].limit \in Nat
    BY <2>2 DEF CallState
  <2> HIDE DEF new
  <2>9. PermitsBalance'
    <3>1. ASSUME NEW k \in DOMAIN limiters
          PROVE  limiters'[k].held = Cardinality(Holders(k)') /\ limiters'[k].held <= limiters'[k].limit
      BY <1>0, <2>3, <2>6 DEF Permits, PermitsBalance
    <3>2. ASSUME NEW k \in DOMAIN limiters' \ DOMAIN limiters
          PROVE  limiters'[k].held = Cardinality(Holders(k)') /\ limiters'[k].held <= limiters'[k].limit
      <4>1. limiters'[k] = new /\ Holders(k)' = {}
        BY <2>3, <2>6, <2>7
      <4>2. Cardinality(Holders(k)') = 0
        BY <4>1, FS_EmptySet
      <4> QED
        BY <2>8, <4>1, <4>2
    <3> QED
      BY <3>1, <3>2 DEF PermitsBalance
  <2> QED
    BY <1>0, <1>h, <1>i, <2>1, <2>3, <2>4, <2>5, <2>9
<1> QED
  BY <1>1, <1>2, <1>3, <1>4, <1>5, <1>6, <1>7, PermitFrame

-----------------------------------------------------------------------------
(* Results. *)

(* Where a step puts its request, and what it records.                     *)
Begun(q, pc, delta) ==
  /\ \A p \in Calls \ {q} : call'[p] = call[p]
  /\ call'[q].pc = pc
  /\ owed' = [owed EXCEPT ![q] = @ + delta]

(* A request that records a result, or none, goes on without an answer.    *)
LEMMA BegunStep ==
  ASSUME PathTypeOK, Recording, NEW q \in Calls, NEW pc, NEW delta \in Int,
         Begun(q, pc, delta), UNCHANGED stream, call[q].pc # "over",
         delta = (IF pc \in Owing THEN 1 ELSE 0) - (IF call[q].pc \in Owing THEN 1 ELSE 0)
  PROVE  Recording' /\ owed' \in [Calls -> Int]
<1>1. owed' \in [Calls -> Int]
  BY DEF PathTypeOK, Begun
<1>2. ASSUME NEW p \in Calls \ {q}
      PROVE  owed'[p] = OwedNow(p)' /\ (stream'[p] # "off" => At(p, "over")')
  BY DEF PathTypeOK, Recording, OwedNow, At, Begun
<1>3. stream[q] = "off" /\ owed[q] = (IF call[q].pc \in Owing THEN 1 ELSE 0)
  BY DEF Recording, OwedNow, At
<1>4. owed'[q] = OwedNow(q)' /\ (stream'[q] # "off" => At(q, "over")')
  BY <1>3 DEF PathTypeOK, OwedNow, At, Begun
<1> QED
  BY <1>1, <1>2, <1>4 DEF Recording

(* A failed round, or a return, ends an attempt or comes before one.       *)
LEMMA RestingStep ==
  ASSUME PathTypeOK, Recording, NEW q \in Calls, RoundFails(q) \/ NextCredential(q) \/ Returns(q),
         UNCHANGED stream,
         \/ call[q].pc \notin Owing \cup {"over"} /\ UNCHANGED owed
         \/ call[q].pc \in Owing /\ owed' = [owed EXCEPT ![q] = @ - 1]
  PROVE  Recording' /\ owed' \in [Calls -> Int]
<1>1. PICK pc \in {"over", "cooldown", "pick"} : call'[q].pc = pc
  BY AfterRound DEF Resting
<1>2. \A p \in Calls \ {q} : call'[p] = call[p]
  BY AfterRound DEF Resting
<1>3. owed \in [Calls -> Int]
  BY DEF PathTypeOK
<1>4. CASE call[q].pc \notin Owing \cup {"over"} /\ UNCHANGED owed
  <2>1. Begun(q, pc, 0)
    BY <1>1, <1>2, <1>3, <1>4 DEF Begun
  <2> QED
    BY <1>1, <1>4, <2>1, BegunStep DEF Owing
<1>5. CASE call[q].pc \in Owing /\ owed' = [owed EXCEPT ![q] = @ - 1]
  <2>1. Begun(q, pc, -1)
    BY <1>1, <1>2, <1>3, <1>5 DEF Begun
  <2> QED
    BY <1>1, <1>5, <2>1, BegunStep DEF Owing
<1> QED
  BY <1>4, <1>5

(* Every step of a stream keeps the account of its request.                *)
LEMMA StreamStep ==
  ASSUME PathTypeOK, Recording, NEW q \in Calls, call' = call,
         StreamError(q) \/ StreamEnd(q) \/ StreamAbandoned(q)
  PROVE  Recording' /\ owed' \in [Calls -> Int] /\ stream' \in [Calls -> {"off", "run", "failed", "done"}]
<1>1. /\ stream[q] \in {"run", "failed"} /\ call[q].pc = "over"
      /\ owed[q] = (IF stream[q] = "run" THEN 1 ELSE 0)
  BY DEF Recording, OwedNow, Owing, At, StreamError, StreamEnd, StreamAbandoned
<1>2. \/ stream[q] = "run" /\ owed' = [owed EXCEPT ![q] = @ - 1]
      \/ stream[q] = "failed" /\ UNCHANGED owed
  BY <1>1 DEF StreamError, StreamEnd, StreamAbandoned, MarkResult, LeaveOut
<1>3. \E v \in {"failed", "done"} : stream' = [stream EXCEPT ![q] = v]
  BY DEF StreamError, StreamEnd, StreamAbandoned
<1>4. owed' \in [Calls -> Int] /\ owed'[q] = 0 /\ \A p \in Calls \ {q} : owed'[p] = owed[p]
  BY <1>1, <1>2 DEF PathTypeOK
<1>5. /\ stream' \in [Calls -> {"off", "run", "failed", "done"}]
      /\ stream'[q] \in {"failed", "done"} /\ \A p \in Calls \ {q} : stream'[p] = stream[p]
  BY <1>3 DEF PathTypeOK
<1> QED
  BY <1>1, <1>4, <1>5 DEF Recording, OwedNow, Owing, At

(* Every step keeps the account of the results.                            *)
LEMMA RecordingStep ==
  ASSUME PathInv, [PathNext]_pathVars
  PROVE  /\ Recording' /\ owed' \in [Calls -> Int]
         /\ stream' \in [Calls -> {"off", "run", "failed", "done"}]
<1> USE DEF PathInv
<1>0. /\ PathTypeOK /\ Recording /\ owed \in [Calls -> Int]
      /\ stream \in [Calls -> {"off", "run", "failed", "done"}]
      /\ \A q \in Calls : call[q] \in CallState
  BY DEF PathTypeOK
<1>1. CASE UNCHANGED pathVars \/ \E limit \in Limits : SetLimit(limit)
  BY <1>0, <1>1 DEF pathVars, SetLimit, Recording, OwedNow, At
<1>2. ASSUME NEW q \in Calls, ClientLeaves(q) \/ RelayEnds(q)
      PROVE  Recording' /\ UNCHANGED <<owed, stream>>
  BY <1>0, <1>2 DEF ClientLeaves, RelayEnds, Recording, OwedNow, At
<1>3. ASSUME NEW q \in Calls, StreamError(q) \/ StreamEnd(q) \/ StreamAbandoned(q)
      PROVE  /\ Recording' /\ owed' \in [Calls -> Int]
             /\ stream' \in [Calls -> {"off", "run", "failed", "done"}]
  BY <1>0, <1>3, StreamStep DEF StreamError, StreamEnd, StreamAbandoned
<1>4. ASSUME NEW q \in Calls,
             \/ PickFails(q) \/ AcquireFails(q) \/ Intercepted(q)
             \/ NextRound(q) /\ Returns(q)
      PROVE  Recording' /\ owed' \in [Calls -> Int] /\ UNCHANGED stream
  <2>1. /\ RoundFails(q) \/ NextCredential(q) \/ Returns(q)
        /\ call[q].pc \notin Owing \cup {"over"} /\ UNCHANGED <<owed, stream>>
    BY <1>4 DEF Owing, PickFails, AcquireFails, Intercepted, NextRound, At
  <2> QED
    BY <1>0, <2>1, RestingStep
<1>5. ASSUME NEW q \in Calls,
             \/ PrepareRecorded(q) \/ AnswerTooLate(q) \/ AnswerInvalid(q) \/ AnswerCall(q)
             \/ AnswerFailed(q) /\ ~ call[q].left > 1
      PROVE  Recording' /\ owed' \in [Calls -> Int] /\ UNCHANGED stream
  <2>1. /\ RoundFails(q) \/ NextCredential(q) \/ Returns(q)
        /\ call[q].pc \in Owing /\ owed' = [owed EXCEPT ![q] = @ - 1] /\ UNCHANGED stream
    BY <1>5 DEF Owing, PrepareRecorded, AnswerTooLate, AnswerInvalid, AnswerCall, AnswerFailed, At,
                MarkResult, LeaveOut
  <2> QED
    BY <1>0, <2>1, RestingStep
<1>6. ASSUME NEW q \in Calls, NEW c, call' = [call EXCEPT ![q] = c], UNCHANGED <<owed, stream>>,
             call[q].pc # "over", c.pc \in Owing <=> call[q].pc \in Owing
      PROVE  Recording'
  <2>1. call'[q].pc = c.pc /\ \A p \in Calls \ {q} : call'[p] = call[p]
    BY <1>6 DEF PathTypeOK
  <2> QED
    BY <1>0, <1>6, <2>1 DEF Recording, OwedNow, At
<1>7. ASSUME NEW q \in Calls, NEW kind \in {"call", "stream"}, Arrive(q, kind)
      PROVE  Recording' /\ UNCHANGED <<owed, stream>>
  <2>1. [NotStarted EXCEPT !.pc = "pick", !.kind = kind, !.round = 1].pc = "pick"
    BY NotStartedState DEF CallState
  <2> QED
    BY <1>6, <1>7, <2>1 DEF Arrive, At, Becomes, Owing
<1>8. ASSUME NEW q \in Calls, PickNext(q) PROVE Recording' /\ UNCHANGED <<owed, stream>>
  <2>1. call[q] \in CallState /\ call[q].pc = "pick" /\ UNCHANGED <<owed, stream>>
    BY <1>0, <1>8 DEF PickNext, At
  <2>2. PICK c \in CallState : call' = [call EXCEPT ![q] = c] /\ c.pc \in {"pick", "prepare"}
    <3>1. PICK a \in Creds, models \in PoolSizes :
            \/ Becomes(q, [call[q] EXCEPT !.tried = @ \cup {a}])
            \/ Becomes(q, [call[q] EXCEPT !.pc = "prepare", !.auth = a, !.left = models,
                                       !.refreshed = FALSE, !.tried = @ \cup {a},
                                       !.attempted = @ \cup {a}])
      BY <1>8 DEF PickNext
    <3>2. models \in Nat
      BY PathAssumption
    <3>3. LET c == [call[q] EXCEPT !.tried = @ \cup {a}] IN c \in CallState /\ c.pc = "pick"
      BY <2>1 DEF CallState
    <3>4. LET c == [call[q] EXCEPT !.pc = "prepare", !.auth = a, !.left = models,
                                       !.refreshed = FALSE, !.tried = @ \cup {a},
                                       !.attempted = @ \cup {a}]
          IN  c \in CallState /\ c.pc = "prepare"
      BY <2>1, <3>2 DEF CallState, CallPC
    <3> QED
      BY <3>1, <3>3, <3>4 DEF Becomes
  <2> QED
    BY <1>6, <2>1, <2>2 DEF Owing
<1>9. ASSUME NEW q \in Calls, PrepareRequestAuth(q) PROVE Recording' /\ UNCHANGED <<owed, stream>>
  <2> DEFINE pc == IF limitConfig = 0 THEN "execute" ELSE "limiter"
             c == [call[q] EXCEPT !.pc = pc, !.limit = limitConfig]
  <2>1. call[q] \in CallState /\ call[q].pc = "prepare" /\ call' = [call EXCEPT ![q] = c]
        /\ UNCHANGED <<owed, stream>>
    BY <1>0, <1>9 DEF PrepareRequestAuth, At, Becomes
  <2>2. c.pc \notin Owing /\ call[q].pc \notin Owing
    BY <2>1 DEF CallState, Owing
  <2> HIDE DEF c
  <2> QED
    BY <1>6, <2>1, <2>2
<1>10. ASSUME NEW q \in Calls, UpstreamLimiterFor(q) PROVE Recording' /\ UNCHANGED <<owed, stream>>
  <2> DEFINE c == [call[q] EXCEPT !.pc = "wait", !.limit = Len(limiters')]
  <2>1. call[q] \in CallState /\ call[q].pc = "limiter" /\ call' = [call EXCEPT ![q] = c]
        /\ UNCHANGED <<owed, stream>>
    BY <1>0, <1>10 DEF UpstreamLimiterFor, At, Becomes
  <2>2. c.pc = "wait"
    BY <2>1 DEF CallState
  <2> QED
    BY <1>6, <2>1, <2>2 DEF Owing
<1>11. ASSUME NEW q \in Calls, AcquirePermit(q) PROVE Recording' /\ UNCHANGED <<owed, stream>>
  <2> DEFINE c == [call[q] EXCEPT !.pc = "execute", !.permit = call[q].limit, !.limit = 0]
  <2>1. call[q] \in CallState /\ call[q].pc = "wait" /\ call' = [call EXCEPT ![q] = c]
        /\ UNCHANGED <<owed, stream>>
    BY <1>0, <1>11 DEF AcquirePermit, At, Becomes
  <2>2. c.pc = "execute"
    BY <2>1 DEF CallState
  <2> QED
    BY <1>6, <2>1, <2>2 DEF Owing
<1>12. ASSUME NEW q \in Calls, RefreshAfterUnauthorized(q)
       PROVE  Recording' /\ UNCHANGED <<owed, stream>>
  <2> DEFINE c == [call[q] EXCEPT !.refreshed = TRUE]
  <2>1. call[q] \in CallState /\ call[q].pc = "answer" /\ call' = [call EXCEPT ![q] = c]
        /\ UNCHANGED <<owed, stream>>
    BY <1>0, <1>12 DEF RefreshAfterUnauthorized, At, Becomes
  <2>2. c.pc = "answer"
    BY <2>1 DEF CallState
  <2> QED
    BY <1>6, <2>1, <2>2 DEF Owing
<1>13. ASSUME NEW q \in Calls, NextRound(q), Becomes(q, [Rest(q, "pick") EXCEPT !.round = @ + 1])
       PROVE  Recording' /\ UNCHANGED <<owed, stream>>
  <2> DEFINE c == [Rest(q, "pick") EXCEPT !.round = @ + 1]
  <2>1. Rest(q, "pick") \in CallState /\ Rest(q, "pick").pc = "pick"
    BY <1>0, RestState DEF CallPC
  <2>2. c.pc = "pick"
    BY <2>1 DEF CallState
  <2> QED
    BY <1>6, <1>13, <2>2 DEF NextRound, At, Becomes, Owing
<1>14. ASSUME NEW q \in Calls, Execute(q)
       PROVE  Recording' /\ owed' \in [Calls -> Int] /\ UNCHANGED stream
  <2> DEFINE c == [call[q] EXCEPT !.pc = "answer"]
  <2>1. /\ call[q] \in CallState /\ call[q].pc = "execute" /\ call' = [call EXCEPT ![q] = c]
        /\ UNCHANGED stream /\ owed' = [owed EXCEPT ![q] = @ + 1]
    BY <1>0, <1>14 DEF Execute, At, Becomes, Begins
  <2>2. c.pc = "answer"
    BY <2>1 DEF CallState
  <2>3. Begun(q, "answer", 1)
    BY <2>1, <2>2 DEF Begun, PathTypeOK
  <2>4. "answer" \in Owing /\ call[q].pc \notin Owing /\ call[q].pc # "over"
    BY <2>1 DEF Owing
  <2> QED
    BY <1>0, <2>1, <2>3, <2>4, BegunStep
<1>p. ASSUME NEW q \in Calls, PrepareFails(q)
      PROVE  Recording' /\ owed' \in [Calls -> Int] /\ UNCHANGED stream
  <2> DEFINE c == [call[q] EXCEPT !.pc = "unprepared"]
  <2>1. /\ call[q] \in CallState /\ call[q].pc = "prepare" /\ call' = [call EXCEPT ![q] = c]
        /\ UNCHANGED stream /\ owed' = [owed EXCEPT ![q] = @ + 1]
    BY <1>0, <1>p DEF PrepareFails, At, Becomes, Begins
  <2>2. c.pc = "unprepared"
    BY <2>1 DEF CallState
  <2>3. Begun(q, "unprepared", 1)
    BY <2>1, <2>2 DEF Begun, PathTypeOK
  <2>4. "unprepared" \in Owing /\ call[q].pc \notin Owing /\ call[q].pc # "over"
    BY <2>1 DEF Owing
  <2> QED
    BY <1>0, <2>1, <2>3, <2>4, BegunStep
<1>15. ASSUME NEW q \in Calls, AnswerFailed(q), call[q].left > 1
       PROVE  Recording' /\ owed' \in [Calls -> Int] /\ UNCHANGED stream
  <2> DEFINE c == [call[q] EXCEPT !.pc = "execute", !.left = @ - 1]
  <2>1. /\ call[q] \in CallState /\ call[q].pc = "answer" /\ call' = [call EXCEPT ![q] = c]
        /\ UNCHANGED stream /\ owed' = [owed EXCEPT ![q] = @ - 1]
    BY <1>0, <1>15 DEF AnswerFailed, At, Becomes, MarkResult
  <2>2. c.pc = "execute"
    BY <2>1 DEF CallState
  <2>3. Begun(q, "execute", -1)
    BY <1>0, <2>1, <2>2 DEF Begun, PathTypeOK
  <2>4. "execute" \notin Owing /\ call[q].pc \in Owing /\ call[q].pc # "over"
    BY <2>1 DEF Owing
  <2> QED
    BY <1>0, <2>1, <2>3, <2>4, BegunStep
<1>16. ASSUME NEW q \in Calls, AnswerStream(q)
       PROVE  /\ Recording' /\ UNCHANGED owed
              /\ stream' \in [Calls -> {"off", "run", "failed", "done"}]
  <2> DEFINE c == [NotStarted EXCEPT !.pc = "over", !.auth = call[q].auth]
  <2>1. /\ call[q].pc = "answer" /\ call' = [call EXCEPT ![q] = c]
        /\ stream' = [stream EXCEPT ![q] = "run"] /\ UNCHANGED owed
    BY <1>16 DEF AnswerStream, At, Becomes
  <2>2. c.pc = "over"
    BY NotStartedState DEF CallState
  <2>3. /\ call'[q].pc = "over" /\ \A p \in Calls \ {q} : call'[p] = call[p] /\ stream'[p] = stream[p]
        /\ stream'[q] = "run" /\ stream' \in [Calls -> {"off", "run", "failed", "done"}]
    BY <1>0, <2>1, <2>2 DEF PathTypeOK
  <2> QED
    BY <1>0, <2>1, <2>3 DEF Recording, OwedNow, Owing, At
<1>17. ASSUME NEW q \in Calls, NextRound(q)
       PROVE  Returns(q) \/ Becomes(q, [Rest(q, "pick") EXCEPT !.round = @ + 1])
  BY <1>17 DEF NextRound
<1> QED
  BY <1>0, <1>1, <1>2, <1>3, <1>4, <1>5, <1>7, <1>8, <1>9, <1>10, <1>11, <1>12, <1>13, <1>14,
     <1>15, <1>16, <1>17, <1>p DEF PathNext

(* The configured limit is a number.                                       *)
LEMMA LimitConfigStep ==
  ASSUME limitConfig \in Nat, [PathNext]_pathVars
  PROVE  limitConfig' \in Nat
<1>1. ASSUME NEW limit \in Limits, SetLimit(limit) PROVE limitConfig' \in Nat
  BY <1>1, PathAssumption DEF SetLimit
<1>2. CASE UNCHANGED limitConfig
  BY <1>2
<1> QED
  BY <1>1, <1>2
  DEF PathNext, pathVars, Arrive, ClientLeaves, PickFails, PickNext, PrepareRequestAuth,
      PrepareFails, PrepareRecorded, UpstreamLimiterFor, AcquirePermit, AcquireFails, Intercepted, Execute,
      RefreshAfterUnauthorized, AnswerTooLate, AnswerInvalid, AnswerFailed, AnswerCall,
      AnswerStream, NextRound, StreamError, StreamEnd, StreamAbandoned, RelayEnds

(* The initial state satisfies the invariant.                              *)
LEMMA PathInitInv ==
  ASSUME PathInit
  PROVE  PathInv
<1>1. PathTypeOK
  BY NotStartedState, PathAssumption, EmptySeq DEF PathInit, PathTypeOK
<1>2. \A q \in Calls : call[q].pc = "idle" /\ call[q].permit = NoPermit
  BY DEF PathInit, NotStarted
<1>3. Recording
  BY <1>2 DEF PathInit, Recording, OwedNow, Owing, At
<1>4. Permits
  BY <1>2 DEF PathInit, Permits, PermitsBalance, At
<1> QED
  BY <1>1, <1>3, <1>4 DEF PathInv

(* Every step keeps the invariant.                                         *)
LEMMA PathStepInv ==
  ASSUME PathInv, [PathNext]_pathVars
  PROVE  PathInv'
  BY PermitsStep, RecordingStep, LimitConfigStep DEF PathInv, PathTypeOK, Limiter

(* PathInv is an invariant of the request path.                            *)
LEMMA PathInvariance == PathSpec => []PathInv
  BY PathInitInv, PathStepInv, PTL DEF PathSpec

-----------------------------------------------------------------------------
(* Every permit that is out belongs to a request that executes or to a     *)
(* stream that has not ended, at the limiter that gave it, and no limiter  *)
(* is above its limit: whatever return of executeMixedOnce or              *)
(* executeStreamMixedOnce is taken and however often the limit changes.    *)
THEOREM PermitsAreBalanced == PathSpec => []PermitsBalance
  BY PathInvariance, PTL DEF PathInv, Permits

(* Every attempt that was begun is recorded once, whichever of the client, *)
(* the permit and the source of a stream ends first.                       *)
THEOREM AttemptsAreRecordedOnce == PathSpec => []AttemptIsRecordedOnce
<1>1. PathInv => AttemptIsRecordedOnce
  BY DEF PathInv, Recording, OwedNow, Owing, AttemptIsRecordedOnce, At
<1> QED
  BY <1>1, PathInvariance, PTL

=============================================================================
