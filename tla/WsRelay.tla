------------------------------ MODULE WsRelay ------------------------------
(***************************************************************************)
(* The websocket relay: requests are forwarded over the connection of a    *)
(* provider and its frames are handed to the callers that wait for them    *)
(* (internal/wsrelay).                                                     *)
(*                                                                         *)
(* A session is registered under a random name of its own, as              *)
(* ensureWebsocketGateway sets no provider factory, so no session replaces *)
(* another and one session is enough.  Around it run the callers, a        *)
(* goroutine per request that waits for its context, the goroutine that    *)
(* reads the connection, and whoever cleans up: the reader, the heartbeat  *)
(* or Stop.  They share the pending map, the channel of each request and   *)
(* the channel s.closed.                                                   *)
(*                                                                         *)
(* A send on a closed channel panics, also inside a select with a default, *)
(* and nothing recovers the reader or the cleanup: the process is gone     *)
(* (crashed).  A caller that panics is recovered by the HTTP server.       *)
(*                                                                         *)
(* The content of a frame is left out: an answer is a number of chunks.    *)
(***************************************************************************)
EXTENDS Naturals, Sequences

CONSTANTS
  Requests,      \* message ids
  ChannelCap,    \* capacity of a request's channel (8 in the code)
  Chunks         \* the chunks of a streamed answer

ASSUME RelayAssumption == ChannelCap \in Nat \ {0} /\ Chunks \in Nat

VARIABLES
  registered,    \* the session is in Manager.sessions
  sessionClosed, \* s.closed is closed
  pending,       \* s.pending, a set of requests
  channel,       \* the channel of each request
  caller,        \* the goroutine of each request, with the chunks it got
  watching,      \* the requests whose context goroutine runs
  cancelled,     \* the requests whose context is done
  provider,      \* the provider's part: the chunks it sent, and its end
  reader,        \* the goroutine of session.run
  cleaner,       \* the goroutine inside cleanup
  lossy,         \* history: the requests that lost a message to a full channel
  crashed        \* a send on a closed channel took the process down

relayVars == <<registered, sessionClosed, pending, channel, caller, watching, cancelled,
               provider, reader, cleaner, lossy, crashed>>

Terminal == {"response", "error", "end"}
Modes == {"nonstream", "stream"}
Returned == {"ok", "failed", "panicked"}

RelayInit ==
  /\ registered = TRUE
  /\ sessionClosed = FALSE
  /\ pending = {}
  /\ channel = [r \in Requests |-> [msgs |-> <<>>, closed |-> FALSE]]
  /\ caller = [r \in Requests |-> [pc |-> "idle", mode |-> "stream", got |-> 0]]
  /\ watching = {}
  /\ cancelled = {}
  /\ provider = [r \in Requests |-> [asked |-> FALSE, sent |-> 0, over |-> FALSE]]
  /\ reader = [pc |-> "read"]
  /\ cleaner = [pc |-> "no"]
  /\ lossy = {}
  /\ crashed = FALSE

-----------------------------------------------------------------------------
(* Channels. *)

(* select { case ch <- msg: default: } *)
TrySend(r, msg) ==
  IF channel[r].closed
  THEN crashed' = TRUE /\ UNCHANGED <<channel, lossy>>
  ELSE /\ UNCHANGED crashed
       /\ IF Len(channel[r].msgs) < ChannelCap
          THEN channel' = [channel EXCEPT ![r].msgs = Append(@, msg)] /\ UNCHANGED lossy
          ELSE lossy' = lossy \cup {r} /\ UNCHANGED channel

(* LoadAndDelete and, if the entry was there, close.  The entry and the    *)
(* channel it holds leave the map together, so whoever takes it closes.    *)
TakeAndClose(r) ==
  /\ pending' = pending \ {r}
  /\ channel' = IF r \in pending THEN [channel EXCEPT ![r].closed = TRUE] ELSE channel

Go(r, pc) == caller' = [caller EXCEPT ![r].pc = pc]

-----------------------------------------------------------------------------
(* The caller: NonStream or Stream, Manager.Send and session.request. *)

Send(r) ==
  /\ caller[r].pc = "idle"
  /\ \E mode \in Modes :
       caller' = [caller EXCEPT ![r] = [pc |-> IF registered THEN "found" ELSE "failed",
                                        mode |-> mode, got |-> 0]]
  /\ UNCHANGED <<registered, sessionClosed, pending, channel, watching, cancelled, provider,
                 reader, cleaner, lossy, crashed>>

Store(r) ==
  /\ caller[r].pc = "found"
  /\ pending' = pending \cup {r}
  /\ Go(r, "stored")
  /\ UNCHANGED <<registered, sessionClosed, channel, watching, cancelled, provider, reader,
                 cleaner, lossy, crashed>>

(* The entry is read back, and the assertion on its type fails if cleanup  *)
(* has replaced the map in between.                                        *)
LoadBack(r) ==
  /\ caller[r].pc = "stored"
  /\ Go(r, IF r \in pending THEN "loaded" ELSE "panicked")
  /\ UNCHANGED <<registered, sessionClosed, pending, channel, watching, cancelled, provider,
                 reader, cleaner, lossy, crashed>>

SendCheckSkipped(r) ==
  /\ caller[r].pc = "loaded"
  /\ Go(r, "writing")
  /\ UNCHANGED <<registered, sessionClosed, pending, channel, watching, cancelled, provider,
                 reader, cleaner, lossy, crashed>>

SendCheck(r) ==
  /\ caller[r].pc = "loaded"
  /\ Go(r, IF sessionClosed THEN "failing" ELSE "writing")
  /\ UNCHANGED <<registered, sessionClosed, pending, channel, watching, cancelled, provider,
                 reader, cleaner, lossy, crashed>>

(* A write may fail at any time, and does once the connection is closed.   *)
(* With the write done the context goroutine starts.                       *)
Write(r) ==
  /\ caller[r].pc = "writing"
  /\ \/ /\ cleaner.pc \notin {"notify", "done"}
        /\ Go(r, "await")
        /\ watching' = watching \cup {r}
        /\ provider' = [provider EXCEPT ![r].asked = TRUE]
     \/ Go(r, "failing") /\ UNCHANGED <<watching, provider>>
  /\ UNCHANGED <<registered, sessionClosed, pending, channel, cancelled, reader, cleaner, lossy,
                 crashed>>

SendFailed(r) ==
  /\ caller[r].pc = "failing"
  /\ TakeAndClose(r)
  /\ Go(r, "failed")
  /\ UNCHANGED <<registered, sessionClosed, watching, cancelled, provider, reader, cleaner,
                 lossy, crashed>>

(* The two loops over the answer.  A channel that is closed before the     *)
(* answer has ended is an error to Stream; NonStream returns what it has,  *)
(* if a chunk has come.                                                    *)
Receive(r) ==
  /\ caller[r].pc = "await"
  /\ \/ /\ channel[r].msgs # <<>>
        /\ LET msg == Head(channel[r].msgs) IN
             /\ channel' = [channel EXCEPT ![r].msgs = Tail(@)]
             /\ \/ msg = "chunk" /\ caller' = [caller EXCEPT ![r].got = @ + 1]
                \/ msg = "error" /\ Go(r, "failed")
                \/ msg \in {"response", "end"} /\ Go(r, "ok")
     \/ /\ channel[r].msgs = <<>> /\ channel[r].closed
        /\ Go(r, IF caller[r].mode = "nonstream" /\ caller[r].got > 0 THEN "ok" ELSE "failed")
        /\ UNCHANGED channel
  /\ UNCHANGED <<registered, sessionClosed, pending, watching, cancelled, provider, reader,
                 cleaner, lossy, crashed>>

GiveUp(r) ==
  /\ caller[r].pc = "await"
  /\ r \in cancelled
  /\ Go(r, "failed")
  /\ UNCHANGED <<registered, sessionClosed, pending, channel, watching, cancelled, provider,
                 reader, cleaner, lossy, crashed>>

(* The caller's context ends: its client left, or a deadline passed. *)
Cancel(r) ==
  /\ caller[r].pc \notin {"idle"} \cup Returned
  /\ r \notin cancelled
  /\ cancelled' = cancelled \cup {r}
  /\ UNCHANGED <<registered, sessionClosed, pending, channel, caller, watching, provider, reader,
                 cleaner, lossy, crashed>>

(* The goroutine that request leaves behind. *)
Watch(r) ==
  /\ r \in watching
  /\ \/ r \in cancelled /\ TakeAndClose(r)
     \/ sessionClosed /\ UNCHANGED <<pending, channel>>
  /\ watching' = watching \ {r}
  /\ UNCHANGED <<registered, sessionClosed, caller, cancelled, provider, reader, cleaner, lossy,
                 crashed>>

-----------------------------------------------------------------------------
(* The reader: session.run and dispatch. *)

(* The next frame of the provider is read and looked up: a chunk, or one   *)
(* of the frames that end an answer.  A frame for an id that is not        *)
(* pending is dropped.                                                     *)
ReadFrame(r, msg) ==
  /\ reader.pc = "read"
  /\ cleaner.pc \notin {"notify", "done"}
  /\ provider[r].asked /\ ~provider[r].over
  /\ \/ msg = "chunk" /\ provider[r].sent < Chunks
     \/ msg = "response" /\ provider[r].sent = 0
     \/ msg = "end" /\ provider[r].sent = Chunks
     \/ msg = "error"
  /\ provider' = IF msg = "chunk" THEN [provider EXCEPT ![r].sent = @ + 1]
                                  ELSE [provider EXCEPT ![r].over = TRUE]
  /\ reader' = IF r \in pending THEN [pc |-> "send", request |-> r, msg |-> msg] ELSE reader
  /\ UNCHANGED <<registered, sessionClosed, pending, channel, caller, watching, cancelled,
                 cleaner, lossy, crashed>>

DispatchSend ==
  /\ reader.pc = "send"
  /\ TrySend(reader.request, reader.msg)
  /\ reader' = IF reader.msg \in Terminal THEN [reader EXCEPT !.pc = "end"] ELSE [pc |-> "read"]
  /\ UNCHANGED <<registered, sessionClosed, pending, caller, watching, cancelled, provider,
                 cleaner>>

DispatchEnd ==
  /\ reader.pc = "end"
  /\ TakeAndClose(reader.request)
  /\ reader' = [pc |-> "read"]
  /\ UNCHANGED <<registered, sessionClosed, caller, watching, cancelled, provider, cleaner,
                 lossy, crashed>>

(* The connection was closed by a cleanup: the read fails, and the second  *)
(* cleanup has nothing to do.                                              *)
ReaderEnds ==
  /\ reader.pc = "read"
  /\ cleaner.pc \in {"notify", "done"}
  /\ reader' = [pc |-> "gone"]
  /\ UNCHANGED <<registered, sessionClosed, pending, channel, caller, watching, cancelled,
                 provider, cleaner, lossy, crashed>>

-----------------------------------------------------------------------------
(* cleanup, once: by the reader after a read error, by the heartbeat after *)
(* a failed ping, or by Stop, which has emptied the table of sessions.     *)

Close ==
  /\ cleaner.pc = "no"
  /\ sessionClosed' = TRUE
  /\ cleaner' = [pc |-> "range", first |-> pending, seen |-> {}]

ReadError ==
  /\ reader.pc = "read"
  /\ Close
  /\ reader' = [pc |-> "gone"]
  /\ UNCHANGED <<registered, pending, channel, caller, watching, cancelled, provider, lossy,
                 crashed>>

HeartbeatFails ==
  /\ Close
  /\ UNCHANGED <<registered, pending, channel, caller, watching, cancelled, provider, reader,
                 lossy, crashed>>

(* Stop empties the table and cleans up, unless that is under way. *)
StopRelay ==
  /\ registered
  /\ registered' = FALSE
  /\ \/ Close
     \/ cleaner.pc # "no" /\ UNCHANGED <<sessionClosed, cleaner>>
  /\ UNCHANGED <<pending, channel, caller, watching, cancelled, provider, reader, lossy, crashed>>

(* Range sees every entry that stays in the map from its start to its end, *)
(* may see one that is stored meanwhile, and sees none twice.              *)
RangeNext(r) ==
  /\ cleaner.pc = "range"
  /\ r \in pending \ cleaner.seen
  /\ cleaner' = [pc |-> "visit", first |-> cleaner.first, seen |-> cleaner.seen \cup {r}, at |-> r]
  /\ UNCHANGED <<registered, sessionClosed, pending, channel, caller, watching, cancelled,
                 provider, reader, lossy, crashed>>

RangeSendNothing ==
  /\ cleaner.pc = "visit"
  /\ cleaner' = [cleaner EXCEPT !.pc = "close"]
  /\ UNCHANGED <<registered, sessionClosed, pending, channel, caller, watching, cancelled,
                 provider, reader, lossy, crashed>>

RangeSend ==
  /\ cleaner.pc = "visit"
  /\ TrySend(cleaner.at, "error")
  /\ cleaner' = [cleaner EXCEPT !.pc = "close"]
  /\ UNCHANGED <<registered, sessionClosed, pending, caller, watching, cancelled, provider,
                 reader>>

RangeClose ==
  /\ cleaner.pc = "close"
  /\ channel' = [channel EXCEPT ![cleaner.at].closed = TRUE]
  /\ cleaner' = [pc |-> "range", first |-> cleaner.first, seen |-> cleaner.seen]
  /\ UNCHANGED <<registered, sessionClosed, pending, caller, watching, cancelled, provider,
                 reader, lossy, crashed>>

RangeOver == cleaner.pc = "range" /\ cleaner.first \cap pending \subseteq cleaner.seen

(* s.pending = sync.Map{} *)
ReplacePending ==
  /\ RangeOver
  /\ pending' = {}
  /\ cleaner' = [pc |-> "conn"]
  /\ UNCHANGED <<registered, sessionClosed, channel, caller, watching, cancelled, provider,
                 reader, lossy, crashed>>

(* The assignment is not synchronized: an operation on the map that it     *)
(* overlaps may find the map half initialized and panic.                   *)
TornPending ==
  /\ RangeOver
  /\ \/ \E r \in Requests : /\ caller[r].pc \in {"found", "stored", "failing"}
                            /\ Go(r, "panicked")
                            /\ UNCHANGED crashed
     \/ /\ reader.pc = "end" \/ watching \cap cancelled # {}
        /\ crashed' = TRUE
        /\ UNCHANGED caller
  /\ UNCHANGED <<registered, sessionClosed, pending, channel, watching, cancelled, provider,
                 reader, cleaner, lossy>>

CloseConn ==
  /\ cleaner.pc = "conn"
  /\ cleaner' = [pc |-> "notify"]
  /\ UNCHANGED <<registered, sessionClosed, pending, channel, caller, watching, cancelled,
                 provider, reader, lossy, crashed>>

HandleSessionClosed ==
  /\ cleaner.pc = "notify"
  /\ registered' = FALSE
  /\ cleaner' = [pc |-> "done"]
  /\ UNCHANGED <<sessionClosed, pending, channel, caller, watching, cancelled, provider, reader,
                 lossy, crashed>>

-----------------------------------------------------------------------------
(* What the environment does, and what the goroutines do on their own. *)

RelayEnvironment ==
  \/ \E r \in Requests : Send(r) \/ Cancel(r)
  \/ \E r \in Requests, msg \in {"chunk"} \cup Terminal : ReadFrame(r, msg)
  \/ ReadError
  \/ HeartbeatFails
  \/ StopRelay
  \/ TornPending

Call(r) == Store(r) \/ LoadBack(r) \/ SendCheck(r) \/ Write(r) \/ SendFailed(r) \/ Receive(r)

Dispatch == DispatchSend \/ DispatchEnd \/ ReaderEnds

Cleanup ==
  \/ \E r \in Requests : RangeNext(r)
  \/ RangeSend
  \/ RangeClose
  \/ ReplacePending
  \/ CloseConn
  \/ HandleSessionClosed

RelayNext ==
  /\ ~crashed
  /\ \/ RelayEnvironment
     \/ \E r \in Requests : Call(r) \/ GiveUp(r) \/ Watch(r)
     \/ Dispatch
     \/ Cleanup

RelaySpec == RelayInit /\ [][RelayNext]_relayVars

-----------------------------------------------------------------------------
(* Properties. *)

(* Once a session is closed nobody waits for it: a caller whose request    *)
(* was accepted while cleanup ran has either been told by cleanup or has   *)
(* found s.closed closed, so when cleanup has let go of the pending map    *)
(* every channel a caller waits on has a message or is closed.             *)
NoCallerIsStranded ==
  cleaner.pc \in {"conn", "notify", "done"} /\ ~crashed =>
    \A r \in Requests :
      caller[r].pc = "await" => channel[r].msgs # <<>> \/ channel[r].closed

(* A caller is told that its answer is complete only if it is: a session   *)
(* that ends in the middle of an answer does not look like its end.  Not   *)
(* covered are a caller that has left, and lossy: a request whose channel  *)
(* was full, so that dispatch dropped a message.  If that was the error,   *)
(* the part is returned as the whole; if it was a chunk, the answer has a  *)
(* hole.  In both cases the code tells nobody.                             *)
TruncationIsReported ==
  \A r \in Requests :
    caller[r].pc = "ok" => \/ provider[r].over /\ caller[r].got = provider[r].sent
                           \/ r \in lossy \cup cancelled
=============================================================================
