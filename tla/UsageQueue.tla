----------------------------- MODULE UsageQueue -----------------------------
(***************************************************************************)
(* The queue of usage records: internal/redisqueue/queue.go, its           *)
(* consumers, and the goroutine that forwards the records to Home          *)
(* (startHomeUsageForwarder in sdk/cliproxy/service_home.go).              *)
(*                                                                         *)
(* A record goes to the subscribers of the moment or, if there are none,   *)
(* into the queue, from which a client or the forwarder pops it.  The      *)
(* switch, the subscribers and the items are read and changed in separate  *)
(* critical sections, and channels are closed after the lock is released.  *)
(*                                                                         *)
(* A record's payload is left out, and so are the head index and the       *)
(* compaction of the slice: items holds what has not been popped.  Of time *)
(* only the items older than the retention matter (expired).               *)
(***************************************************************************)
EXTENDS Naturals, Sequences, FiniteSets, SequencesExt

CONSTANTS
  Records,       \* usage records, each enqueued once by the usage plugin
  Subscribers,   \* subscriptions, each with an id of its own
  FeedCap,       \* capacity of a subscriber's channel (256 in the code)
  PopCount,      \* the records a consumer pops at a time (64 in the forwarder)
  MaxSwitches,   \* bound on the switching, clearing and refresh notices
  Nobody

ASSUME QueueAssumption ==
  /\ Nobody \notin Records
  /\ {FeedCap, PopCount} \subseteq Nat \ {0} /\ MaxSwitches \in Nat

VARIABLES
  enabled, items, subscribers,
  expired,       \* how many of the oldest items are past the retention
  feed,          \* the channel of each subscription: its load and whether it is closed
  leaving,       \* the subscriptions taken out of the map by unsubscribe, not yet closed
  entry,         \* where the call of Enqueue for a record is
  switch,        \* the goroutine that switches or clears the queue
  switches,
  client,        \* the client that pops, after its test of the switch
  forwarder,
  delivered,     \* how often a record was handed out: to a client, to the
                 \* subscribers of a moment, or to Home
  excused,       \* history: dropped by the switch, by age or by full subscribers
  ambiguous,     \* history: stored by Home though the push failed
  broken         \* a closed channel was sent to or closed again

queueVars == <<enabled, items, subscribers, expired, feed, leaving, entry, switch, switches,
               client, forwarder, delivered, excused, ambiguous, broken>>

QueueInit ==
  /\ enabled = TRUE
  /\ items = <<>>
  /\ subscribers = {}
  /\ expired = 0
  /\ feed = [s \in Subscribers |-> [load |-> 0, closed |-> FALSE]]
  /\ leaving = {}
  /\ entry = [r \in Records |-> "unborn"]
  /\ switch = [pc |-> "idle", closing |-> {}]
  /\ switches = 0
  /\ client = "idle"
  /\ forwarder = [pc |-> "idle", held |-> <<>>, putting |-> Nobody]
  /\ delivered = [r \in Records |-> 0]
  /\ excused = {}
  /\ ambiguous = {}
  /\ broken = FALSE

-----------------------------------------------------------------------------
Switched == switches < MaxSwitches /\ switches' = switches + 1

(* pruneLocked: what is left of the items, and what goes. *)
PruneLocked == SubSeq(items, expired + 1, Len(items))
Pruned == {items[k] : k \in 1 .. expired}

(* Time passes: more of the items are past the retention. *)
Age ==
  /\ expired < Len(items)
  /\ expired' = expired + 1
  /\ UNCHANGED <<enabled, items, subscribers, feed, leaving, entry, switch, switches, client,
                 forwarder, delivered, excused, ambiguous, broken>>

-----------------------------------------------------------------------------
(* Enqueue. *)

Produce(r) ==
  /\ entry[r] = "unborn"
  /\ entry' = [entry EXCEPT ![r] = "check"]
  /\ UNCHANGED <<enabled, items, subscribers, expired, feed, leaving, switch, switches, client,
                 forwarder, delivered, excused, ambiguous, broken>>

EnqueueCheck(r) ==
  /\ entry[r] = "check"
  /\ entry' = [entry EXCEPT ![r] = IF enabled THEN "publish" ELSE "rest"]
  /\ excused' = IF enabled THEN excused ELSE excused \cup {r}
  /\ UNCHANGED <<enabled, items, subscribers, expired, feed, leaving, switch, switches, client,
                 forwarder, delivered, ambiguous, broken>>

Full(s) == feed[s].load = FeedCap

PublishKeepingFull ==
  /\ subscribers' = subscribers
  /\ feed' = [s \in Subscribers |->
                CASE s \notin subscribers -> feed[s]
                  [] s \in subscribers /\ Full(s) -> [feed[s] EXCEPT !.closed = TRUE]
                  [] OTHER -> [feed[s] EXCEPT !.load = @ + 1]]
  /\ broken' = (broken \/ \E s \in subscribers : feed[s].closed)

(* publishToSubscribers: a subscriber that does not keep up is taken out   *)
(* of the map and closed, under the lock.                                  *)
PublishToSubscribers ==
  /\ subscribers' = {s \in subscribers : ~Full(s)}
  /\ feed' = [s \in Subscribers |->
                CASE s \notin subscribers -> feed[s]
                  [] s \in subscribers /\ Full(s) -> [feed[s] EXCEPT !.closed = TRUE]
                  [] OTHER -> [feed[s] EXCEPT !.load = @ + 1]]
  /\ broken' = (broken \/ \E s \in subscribers : feed[s].closed)

(* A record that every subscriber was too slow for is not queued either. *)
Publish(r) ==
  /\ entry[r] = "publish"
  /\ PublishToSubscribers
  /\ LET receivers == {s \in subscribers : ~Full(s)} IN
       /\ delivered' = IF receivers # {} THEN [delivered EXCEPT ![r] = @ + 1] ELSE delivered
       /\ excused' = IF subscribers # {} /\ receivers = {} THEN excused \cup {r} ELSE excused
  /\ entry' = [entry EXCEPT ![r] = IF subscribers = {} THEN "enqueue" ELSE "rest"]
  /\ UNCHANGED <<enabled, items, expired, leaving, switch, switches, client, forwarder, ambiguous>>

EnqueueItem(r) ==
  /\ entry[r] = "enqueue"
  /\ items' = Append(PruneLocked, r)
  /\ expired' = 0
  /\ excused' = excused \cup Pruned
  /\ entry' = [entry EXCEPT ![r] = "rest"]
  /\ UNCHANGED <<enabled, subscribers, feed, leaving, switch, switches, client, forwarder,
                 delivered, ambiguous, broken>>

(* The watcher tells the subscribers to look again. *)
NotifyUsageRefresh ==
  /\ Switched
  /\ PublishToSubscribers
  /\ UNCHANGED <<enabled, items, expired, leaving, entry, switch, client, forwarder, delivered,
                 excused, ambiguous>>

-----------------------------------------------------------------------------
(* Subscribers.  The channel starts with one message, the support for      *)
(* refresh notices.                                                        *)

SubscribeUsage(s) ==
  /\ feed[s] = [load |-> 0, closed |-> FALSE]
  /\ s \notin subscribers \cup leaving \cup switch.closing
  /\ feed' = [feed EXCEPT ![s].load = 1]
  /\ subscribers' = subscribers \cup {s}
  /\ UNCHANGED <<enabled, items, expired, leaving, entry, switch, switches, client, forwarder,
                 delivered, excused, ambiguous, broken>>

ReadFeed(s) ==
  /\ feed[s].load > 0
  /\ feed' = [feed EXCEPT ![s].load = @ - 1]
  /\ UNCHANGED <<enabled, items, subscribers, expired, leaving, entry, switch, switches, client,
                 forwarder, delivered, excused, ambiguous, broken>>

Unsubscribe(s) ==
  /\ s \in subscribers
  /\ subscribers' = subscribers \ {s}
  /\ leaving' = leaving \cup {s}
  /\ UNCHANGED <<enabled, items, expired, feed, entry, switch, switches, client, forwarder,
                 delivered, excused, ambiguous, broken>>

CloseFeed(s) ==
  /\ feed' = [feed EXCEPT ![s].closed = TRUE]
  /\ broken' = (broken \/ feed[s].closed)

UnsubscribeClose(s) ==
  /\ s \in leaving
  /\ leaving' = leaving \ {s}
  /\ CloseFeed(s)
  /\ UNCHANGED <<enabled, items, subscribers, expired, entry, switch, switches, client, forwarder,
                 delivered, excused, ambiguous>>

-----------------------------------------------------------------------------
(* SetEnabled, and SetUsageStatisticsEnabled, which only clears. *)

SetEnabled(value) ==
  /\ switch.pc = "idle"
  /\ Switched
  /\ enabled' = value
  /\ switch' = IF value THEN switch ELSE [switch EXCEPT !.pc = "clear"]
  /\ UNCHANGED <<items, subscribers, expired, feed, leaving, entry, client, forwarder, delivered,
                 excused, ambiguous, broken>>

SetUsageStatisticsDisabled ==
  /\ switch.pc = "idle"
  /\ Switched
  /\ switch' = [switch EXCEPT !.pc = "clear"]
  /\ UNCHANGED <<enabled, items, subscribers, expired, feed, leaving, entry, client, forwarder,
                 delivered, excused, ambiguous, broken>>

Clear ==
  /\ switch.pc = "clear"
  /\ switch' = [pc |-> "close", closing |-> subscribers]
  /\ excused' = excused \cup Range(items)
  /\ items' = <<>>
  /\ expired' = 0
  /\ subscribers' = {}
  /\ UNCHANGED <<enabled, feed, leaving, entry, switches, client, forwarder, delivered, ambiguous,
                 broken>>

ClearClose ==
  /\ switch.pc = "close"
  /\ \/ /\ switch.closing = {}
        /\ switch' = [switch EXCEPT !.pc = "idle"]
        /\ UNCHANGED <<feed, broken>>
     \/ \E s \in switch.closing : /\ CloseFeed(s)
                                  /\ switch' = [switch EXCEPT !.closing = @ \ {s}]
  /\ UNCHANGED <<enabled, items, subscribers, expired, leaving, entry, switches, client, forwarder,
                 delivered, excused, ambiguous>>

-----------------------------------------------------------------------------
(* The consumers.  popOldest prunes and takes up to PopCount of the items. *)

Available == Len(PruneLocked)
Popped == SubSeq(PruneLocked, 1, IF PopCount > Available THEN Available ELSE PopCount)

PopOldest ==
  /\ items' = SubSeq(PruneLocked, Len(Popped) + 1, Available)
  /\ expired' = 0
  /\ excused' = excused \cup Pruned

(* A management client or a Redis client. *)
ClientCheck ==
  /\ client = "idle"
  /\ enabled
  /\ client' = "pop"
  /\ UNCHANGED <<enabled, items, subscribers, expired, feed, leaving, entry, switch, switches,
                 forwarder, delivered, excused, ambiguous, broken>>

ClientPop ==
  /\ client = "pop"
  /\ PopOldest
  /\ delivered' = [r \in Records |-> IF r \in Range(Popped) THEN delivered[r] + 1
                                                            ELSE delivered[r]]
  /\ client' = "idle"
  /\ UNCHANGED <<enabled, subscribers, feed, leaving, entry, switch, switches, forwarder, ambiguous,
                 broken>>

ForwardCheck ==
  /\ forwarder.pc = "idle"
  /\ enabled
  /\ forwarder' = [forwarder EXCEPT !.pc = "pop"]
  /\ UNCHANGED <<enabled, items, subscribers, expired, feed, leaving, entry, switch, switches,
                 client, delivered, excused, ambiguous, broken>>

ForwardPop ==
  /\ forwarder.pc = "pop"
  /\ PopOldest
  /\ forwarder' = IF Popped = <<>> THEN [forwarder EXCEPT !.pc = "idle"]
                                   ELSE [forwarder EXCEPT !.pc = "push", !.held = Popped]
  /\ UNCHANGED <<enabled, subscribers, feed, leaving, entry, switch, switches, client, delivered,
                 ambiguous, broken>>

ForwardPushSkipping ==
  /\ forwarder.pc = "push"
  /\ LET r == Head(forwarder.held)
         rest == Tail(forwarder.held) IN
       \/ /\ delivered' = [delivered EXCEPT ![r] = @ + 1]
          /\ forwarder' = [forwarder EXCEPT !.held = rest,
                                            !.pc = IF rest = <<>> THEN "idle" ELSE "push"]
          /\ UNCHANGED ambiguous
       \/ /\ forwarder' = [forwarder EXCEPT !.pc = "requeue", !.held = rest]
          /\ UNCHANGED <<delivered, ambiguous>>
  /\ UNCHANGED <<enabled, items, subscribers, expired, feed, leaving, entry, switch, switches,
                 client, excused, broken>>

(* LPushUsage, which may fail before or after Home has stored the record.  *)
(* After a failure this record and the ones behind it are enqueued again.  *)
ForwardPush ==
  /\ forwarder.pc = "push"
  /\ LET r == Head(forwarder.held)
         rest == Tail(forwarder.held) IN
       \/ /\ delivered' = [delivered EXCEPT ![r] = @ + 1]
          /\ forwarder' = [forwarder EXCEPT !.held = rest,
                                            !.pc = IF rest = <<>> THEN "idle" ELSE "push"]
          /\ UNCHANGED ambiguous
       \/ /\ forwarder' = [forwarder EXCEPT !.pc = "requeue"]
          /\ UNCHANGED <<delivered, ambiguous>>
       \/ /\ r \notin ambiguous
          /\ delivered' = [delivered EXCEPT ![r] = @ + 1]
          /\ ambiguous' = ambiguous \cup {r}
          /\ forwarder' = [forwarder EXCEPT !.pc = "requeue"]
  /\ UNCHANGED <<enabled, items, subscribers, expired, feed, leaving, entry, switch, switches,
                 client, excused, broken>>

(* One call of Enqueue after the other, then back to the loop. *)
ForwardRequeue ==
  /\ forwarder.pc = "requeue"
  /\ forwarder.putting # Nobody => entry[forwarder.putting] = "rest"
  /\ IF forwarder.held = <<>>
     THEN forwarder' = [forwarder EXCEPT !.pc = "idle", !.putting = Nobody] /\ UNCHANGED entry
     ELSE LET r == Head(forwarder.held) IN
            /\ entry' = [entry EXCEPT ![r] = "check"]
            /\ forwarder' = [forwarder EXCEPT !.held = Tail(@), !.putting = r]
  /\ UNCHANGED <<enabled, items, subscribers, expired, feed, leaving, switch, switches, client,
                 delivered, excused, ambiguous, broken>>

-----------------------------------------------------------------------------
QueueNext ==
  /\ ~broken
  /\ \/ Age
     \/ \E r \in Records : Produce(r) \/ EnqueueCheck(r) \/ Publish(r) \/ EnqueueItem(r)
     \/ NotifyUsageRefresh
     \/ \E s \in Subscribers :
          SubscribeUsage(s) \/ ReadFeed(s) \/ Unsubscribe(s) \/ UnsubscribeClose(s)
     \/ \E value \in BOOLEAN : SetEnabled(value)
     \/ SetUsageStatisticsDisabled
     \/ Clear
     \/ ClearClose
     \/ ClientCheck
     \/ ClientPop
     \/ ForwardCheck
     \/ ForwardPop
     \/ ForwardPush
     \/ ForwardRequeue

QueueSpec == QueueInit /\ [][QueueNext]_queueVars

-----------------------------------------------------------------------------
(* Properties. *)

InHand(r) == entry[r] \in {"check", "publish", "enqueue"} \/ r \in Range(forwarder.held)

(* In how many places a record is: on its way through Enqueue or in the    *)
(* forwarder's hands, in the queue, handed out, or dropped for a reason.   *)
Places(r) ==
  (IF InHand(r) THEN 1 ELSE 0)
    + Cardinality({k \in DOMAIN items : items[k] = r})
    + delivered[r]
    + (IF r \in excused THEN 1 ELSE 0)

(* A usage record is counted exactly once: whatever happens between a      *)
(* failed push and the next, with subscribers, clients and the switch      *)
(* around, no record vanishes without the switch, its age or a subscriber  *)
(* that was too slow being the reason, and none is handed out twice,       *)
(* except after a push that failed although Home had stored the record.    *)
RecordIsInOnePlace ==
  \A r \in Records : entry[r] # "unborn" =>
    IF r \in ambiguous THEN Places(r) >= 1 ELSE Places(r) = 1

(* No subscriber's channel is closed twice or sent to after it was closed, *)
(* though publishing, unsubscribing and clearing each close channels and   *)
(* two of them do so outside the lock.                                     *)
FeedsAreClosedOnce == ~broken
=============================================================================
