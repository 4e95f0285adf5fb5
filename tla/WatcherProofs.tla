--------------------------- MODULE WatcherProofs ---------------------------
(***************************************************************************)
(* Proofs about Watcher, for any auth directory, any number of sessions    *)
(* and of reloads that overlap, and any number of changes.                 *)
(***************************************************************************)
EXTENDS Watcher, SequenceTheorems, FiniteSetTheorems, TLAPS

(* What the variables hold. *)
Hashes == Contents \cup {None}
Values == Nat \cup Contents \cup {None}
Updates == UNION {[S -> Values] : S \in SUBSET Ids}
Events == [file : Files \cup {None}, op : {"write", "remove"}]
Work == [pc : {"idle", "stat", "read", "add", "remove", "dispatch", "hook"},
         file : Files \cup {None}, data : Hashes, updates : Updates]
Reloads == [pc : {"idle", "load", "set", "clients", "rescan", "commit", "apply", "snapshot",
                  "refresh", "dispatch", "rehash"},
            boot : BOOLEAN, cfg : Configs \cup {None}, changed : BOOLEAN,
            sequence : Nat, snap : Updates, updates : Updates]

DiskType ==
  /\ disk \in [Files -> Hashes] /\ configFile \in Configs
  /\ events \in Seq(Events)

SnapshotType ==
  /\ lastAuthHashes \in [Files -> Hashes] /\ currentAuths \in Updates
  /\ fileAuthsByPath \subseteq Files /\ runtimeAuths \subseteq Sessions

WorkType ==
  /\ handler \in Work /\ login \in Work
  /\ handler.pc \in {"stat", "read", "add", "remove"} => handler.file \in Files
  /\ login.pc = "hook" => login.file \in Files

ReloadType ==
  /\ config \in Configs
  /\ served \in [cfg : Configs, sequence : Nat] /\ applied \in Configs
  /\ reload \in [Reloaders -> Reloads]
  /\ \A r \in Reloaders :
       reload[r].pc \in {"set", "rescan", "commit", "apply"} => reload[r].cfg \in Configs

FeedType ==
  /\ pendingUpdates \in Updates /\ batch \in Updates
  /\ authUpdates \in Seq([id : Ids, val : Values])
  /\ manager \in [Ids -> Values]

(* Type correctness: updates are about known credentials, and a goroutine  *)
(* at a step that needs a file or a configuration has one.                 *)
WatcherTypeOK == DiskType /\ SnapshotType /\ WorkType /\ ReloadType /\ FeedType

-----------------------------------------------------------------------------
(* The updates and snapshots the operations build. *)

(* A map from known credentials to values is a set of updates. *)
LEMMA UpdatesIntro ==
  ASSUME NEW S \in SUBSET Ids, NEW f \in [S -> Values]
  PROVE  f \in Updates
  BY DEF Updates

(* ... and nothing else is. *)
LEMMA UpdatesElim ==
  ASSUME NEW f \in Updates
  PROVE  /\ DOMAIN f \subseteq Ids
         /\ \A i \in DOMAIN f : f[i] \in Values
         /\ f = [i \in DOMAIN f |-> f[i]]
  BY DEF Updates

(* The empty set of updates. *)
LEMMA NoUpdatesType == NoUpdates \in Updates
<1>1. NoUpdates \in [{} -> Values]
  BY DEF NoUpdates
<1> QED
  BY <1>1, UpdatesIntro

(* The snapshot of a directory and a configuration. *)
LEMMA SnapshotUpdates ==
  ASSUME NEW d \in [Files -> Hashes], NEW c \in Configs
  PROVE  Snapshot(d, c) \in Updates
<1> DEFINE S == {f \in Files : d[f] # None} \cup c.keys
<1>1. c.keys \subseteq Keys /\ c.version \in Nat
  BY DEF Configs
<1>2. S \in SUBSET Ids
  BY <1>1 DEF Ids
<1>3. \A i \in S : (IF i \in Keys THEN c.version ELSE d[i]) \in Values
  BY <1>1 DEF Values, Hashes
<1> HIDE DEF S
<1>4. [i \in S |-> IF i \in Keys THEN c.version ELSE d[i]] \in [S -> Values]
  BY <1>3
<1>5. Snapshot(d, c) = [i \in S |-> IF i \in Keys THEN c.version ELSE d[i]]
  BY DEF Snapshot, S
<1> QED
  BY <1>2, <1>4, <1>5, UpdatesIntro

(* An entry is added ... *)
LEMMA WithUpdates ==
  ASSUME NEW a \in Updates, NEW f \in Ids, NEW c \in Values
  PROVE  With(a, f, c) \in Updates
<1> DEFINE S == DOMAIN a \cup {f}
<1>1. S \in SUBSET Ids
  BY UpdatesElim
<1>2. [i \in S |-> IF i = f THEN c ELSE a[i]] \in [S -> Values]
  BY UpdatesElim
<1> HIDE DEF S
<1> QED
  BY <1>1, <1>2, UpdatesIntro DEF With, S

(* ... or some are taken out. *)
LEMMA WithoutUpdates ==
  ASSUME NEW a \in Updates, NEW S
  PROVE  Without(a, S) \in Updates
<1> DEFINE D == DOMAIN a \ S
<1>1. D \in SUBSET Ids
  BY UpdatesElim
<1>2. [i \in D |-> a[i]] \in [D -> Values]
  BY UpdatesElim
<1> HIDE DEF D
<1> QED
  BY <1>1, <1>2, UpdatesIntro DEF Without, D

(* A single update. *)
LEMMA OneUpdate ==
  ASSUME NEW f \in Ids, NEW c \in Values
  PROVE  [i \in {f} |-> c] \in Updates
<1>1. [i \in {f} |-> c] \in [{f} -> Values]
  OBVIOUS
<1> QED
  BY <1>1, UpdatesIntro

(* What a file's change amounts to. *)
LEMMA PerPathType ==
  ASSUME NEW f \in Files, NEW known, NEW c \in Hashes
  PROVE  PerPathUpdates(f, known, c) \in Updates
<1>1. f \in Ids /\ c \in Values /\ None \in Values
  BY DEF Ids, Values, Hashes
<1>2. [i \in {f} |-> c] \in Updates /\ [i \in {f} |-> None] \in Updates
  BY <1>1, OneUpdate
<1> QED
  BY <1>2, NoUpdatesType DEF PerPathUpdates

(* What two snapshots differ in. *)
LEMMA DifferenceType ==
  ASSUME NEW old \in Updates, NEW new \in Updates, NEW force
  PROVE  Difference(old, new, force) \in Updates
<1> DEFINE changed == {i \in DOMAIN new : i \in DOMAIN old /\ ~force => old[i] # new[i]}
           gone == DOMAIN old \ DOMAIN new
           S == (changed \cap DOMAIN new) \cup gone
<1>1. S \in SUBSET Ids
  BY UpdatesElim
<1>2. None \in Values
  BY DEF Values
<1>3. [i \in S |-> IF i \in gone THEN None ELSE new[i]] \in [S -> Values]
  BY <1>2, UpdatesElim
<1>4. Difference(old, new, force) = [i \in S |-> IF i \in gone THEN None ELSE new[i]]
  BY DEF Difference
<1> HIDE DEF S, gone
<1> QED
  BY <1>1, <1>3, <1>4, UpdatesIntro

(* A hand-over is well formed. *)
LEMMA HandOverType ==
  ASSUME NEW u \in Updates
  PROVE  HandOver(u) \in Work /\ HandOver(u).pc \in {"idle", "dispatch"}
  BY NoUpdatesType DEF HandOver, Resting, Work, Hashes

(* The dispatcher takes updates of known credentials only.                 *)
LEMMA DispatchType ==
  ASSUME FeedType, NEW u \in Updates, DispatchAuthUpdates(u)
  PROVE  FeedType'
<1> DEFINE S == DOMAIN pendingUpdates \cup DOMAIN u
<1>1. pendingUpdates \in Updates
  BY DEF FeedType
<1>2. S \in SUBSET Ids
  BY <1>1, UpdatesElim
<1>3. [i \in S |-> IF i \in DOMAIN u THEN u[i] ELSE pendingUpdates[i]] \in [S -> Values]
  BY <1>1, UpdatesElim
<1> HIDE DEF S
<1>4. pendingUpdates' \in Updates
  BY <1>2, <1>3, UpdatesIntro DEF DispatchAuthUpdates, S
<1> QED
  BY <1>4 DEF DispatchAuthUpdates, FeedType

(* A notification is one or two events of the file.                        *)
LEMMA NotifiedType ==
  ASSUME events \in Seq(Events), NEW f \in Files \cup {None},
         NEW ops \in {<<"remove">>, <<"write">>, <<"remove", "write">>}, Notified(f, ops)
  PROVE  events' \in Seq(Events)
<1>1. ops \in Seq({"write", "remove"})
  <2>1. <<"remove">> \in Seq({"write", "remove"}) /\ <<"write">> \in Seq({"write", "remove"})
    OBVIOUS
  <2>2. <<"remove", "write">> \in Seq({"write", "remove"})
    OBVIOUS
  <2> QED
    BY <2>1, <2>2
<1>2. [k \in DOMAIN ops |-> [file |-> f, op |-> ops[k]]] \in Seq(Events)
  <2>1. PICK n \in Nat : ops \in [1 .. n -> {"write", "remove"}]
    BY <1>1, SeqDef
  <2>2. \A k \in 1 .. n : [file |-> f, op |-> ops[k]] \in Events
    BY <2>1 DEF Events
  <2>3. [k \in DOMAIN ops |-> [file |-> f, op |-> ops[k]]] \in [1 .. n -> Events]
    BY <2>1, <2>2
  <2> QED
    BY <2>3, SeqDef
<1> QED
  BY <1>2 DEF Notified

-----------------------------------------------------------------------------
(* Type correctness *)

(* Edits of the directory and of the configuration file, and the window.   *)
LEMMA EditTypes ==
  ASSUME WatcherTypeOK, FileChange \/ ConfigChange \/ WindowPasses
  PROVE  WatcherTypeOK'
<1>1. UNCHANGED <<snapshotVars, configVars, handler, reload, login, feedVars>>
  BY DEF FileChange, ConfigChange, WindowPasses
<1>2. SnapshotType' /\ WorkType' /\ ReloadType' /\ FeedType'
  BY <1>1 DEF WatcherTypeOK, SnapshotType, WorkType, ReloadType, FeedType, snapshotVars, configVars,
              feedVars
<1>3. CASE FileChange
  <2>1. PICK f \in Files, c \in {None} \cup Contents :
          /\ disk' = [disk EXCEPT ![f] = c]
          /\ \E ops \in {<<"remove">>, <<"write">>, <<"remove", "write">>} : Notified(f, ops)
    BY <1>3 DEF FileChange
  <2>2. PICK ops \in {<<"remove">>, <<"write">>, <<"remove", "write">>} : Notified(f, ops)
    BY <2>1
  <2>3. events' \in Seq(Events)
    BY <2>2, NotifiedType DEF WatcherTypeOK, DiskType
  <2>4. disk' \in [Files -> Hashes] /\ configFile' \in Configs
    BY <1>3, <2>1 DEF WatcherTypeOK, DiskType, FileChange, Hashes
  <2> QED
    BY <1>2, <2>3, <2>4 DEF WatcherTypeOK, DiskType
<1>4. CASE ConfigChange
  <2>1. events' \in Seq(Events)
    BY <1>4, NotifiedType DEF WatcherTypeOK, DiskType, ConfigChange
  <2>2. disk' \in [Files -> Hashes] /\ configFile' \in Configs
    BY <1>4 DEF WatcherTypeOK, DiskType, ConfigChange, Configs
  <2> QED
    BY <1>2, <2>1, <2>2 DEF WatcherTypeOK, DiskType
<1>5. CASE WindowPasses
  <2>1. DiskType'
    BY <1>5 DEF WatcherTypeOK, DiskType, WindowPasses, diskVars
  <2> QED
    BY <1>2, <2>1 DEF WatcherTypeOK
<1> QED
  BY <1>3, <1>4, <1>5

(* The head of the queue is an event, and the rest are events.             *)
LEMMA NextEvent ==
  ASSUME events \in Seq(Events), events # <<>>
  PROVE  Head(events) \in Events /\ Tail(events) \in Seq(Events)
  OBVIOUS

(* The goroutine of processEvents.                                         *)
LEMMA HandlerTypes ==
  ASSUME WatcherTypeOK, HandlerStep
  PROVE  WatcherTypeOK'
<1>1. /\ UNCHANGED <<configVars, reload, login, disk, configFile, runtimeAuths>>
  BY DEF HandlerStep, HandleConfigEvent, HandleWriteEvent, HandleRemoveEvent, HandleStat, HandleRead,
         AddOrUpdateClient, RemoveClient, HandlerDispatch, diskVars, snapshotVars
<1>2. ReloadType'
  BY <1>1 DEF WatcherTypeOK, ReloadType, configVars
<1>3. login' \in Work /\ (login'.pc = "hook" => login'.file \in Files)
  BY <1>1 DEF WatcherTypeOK, WorkType
<1>4. handler \in Work /\ (handler.pc \in {"stat", "read", "add", "remove"} => handler.file \in Files)
  BY DEF WatcherTypeOK, WorkType
<1>5. events \in Seq(Events) /\ disk \in [Files -> Hashes] /\ lastAuthHashes \in [Files -> Hashes]
  BY DEF WatcherTypeOK, DiskType, SnapshotType
<1>6. SUFFICES /\ handler' \in Work
               /\ handler'.pc \in {"stat", "read", "add", "remove"} => handler'.file \in Files
               /\ events' \in Seq(Events)
               /\ lastAuthHashes' \in [Files -> Hashes] /\ currentAuths' \in Updates
               /\ fileAuthsByPath' \subseteq Files
               /\ FeedType'
  <2>1. disk' \in [Files -> Hashes] /\ configFile' \in Configs /\ runtimeAuths' \subseteq Sessions
    BY <1>1 DEF WatcherTypeOK, DiskType, SnapshotType
  <2> QED
    BY <1>2, <1>3, <1>6, <2>1 DEF WatcherTypeOK, DiskType, SnapshotType, WorkType
<1>7. currentAuths \in Updates /\ fileAuthsByPath \subseteq Files /\ FeedType
  BY DEF WatcherTypeOK, SnapshotType
<1>8. Resting \in Work /\ Resting.pc = "idle"
  BY NoUpdatesType DEF Resting, Work, Hashes
<1>9. UNCHANGED feedVars => FeedType'
  BY <1>7 DEF FeedType, feedVars
<1>10. CASE HandleConfigEvent
  <2>1. events' \in Seq(Events)
    BY <1>5, <1>10, NextEvent DEF HandleConfigEvent
  <2> QED
    BY <1>4, <1>5, <1>7, <1>9, <1>10, <2>1 DEF HandleConfigEvent, snapshotVars
<1>11. CASE HandleWriteEvent
  <2>1. events' \in Seq(Events) /\ Head(events).file \in Files
    BY <1>5, <1>11, NextEvent DEF HandleWriteEvent, Events
  <2>2. handler' \in Work /\ handler'.file \in Files
    BY <1>11, <2>1, NoUpdatesType DEF HandleWriteEvent, Resting, Work, Hashes
  <2> QED
    BY <1>5, <1>7, <1>9, <1>11, <2>1, <2>2 DEF HandleWriteEvent, snapshotVars
<1>12. CASE HandleRemoveEvent
  <2>1. events' \in Seq(Events) /\ Head(events).file \in Files
    BY <1>5, <1>12, NextEvent DEF HandleRemoveEvent, Events
  <2>2. \/ handler' = handler
        \/ handler' = [Resting EXCEPT !.pc = "stat", !.file = Head(events).file]
    BY <1>12 DEF HandleRemoveEvent
  <2>3. /\ handler' \in Work
        /\ handler'.pc \in {"stat", "read", "add", "remove"} => handler'.file \in Files
    BY <1>4, <2>1, <2>2, NoUpdatesType DEF Resting, Work, Hashes
  <2> QED
    BY <1>5, <1>7, <1>9, <1>12, <2>1, <2>3 DEF HandleRemoveEvent, snapshotVars
<1>13. CASE HandleStat
  <2>1. \/ handler' = Resting
        \/ handler' = [handler EXCEPT !.pc = "read"]
        \/ handler' = [handler EXCEPT !.pc = "remove"]
    BY <1>13 DEF HandleStat
  <2>2. handler.file \in Files
    BY <1>4, <1>13 DEF HandleStat
  <2>3. /\ handler' \in Work
        /\ handler'.pc \in {"stat", "read", "add", "remove"} => handler'.file \in Files
    BY <1>4, <1>8, <2>1, <2>2 DEF Work
  <2> QED
    BY <1>5, <1>7, <1>9, <1>13, <2>3 DEF HandleStat, snapshotVars, diskVars
<1>14. CASE HandleRead
  <2>1. handler.file \in Files
    BY <1>4, <1>14 DEF HandleRead
  <2>2. disk[handler.file] \in Hashes
    BY <1>5, <2>1
  <2>3. \/ handler' = Resting
        \/ handler' = [handler EXCEPT !.pc = "add", !.data = disk[handler.file]]
    BY <1>14 DEF HandleRead
  <2>4. lastAuthHashes' \in [Files -> Hashes]
    BY <1>5, <1>14, <2>2 DEF HandleRead
  <2>5. /\ handler' \in Work
        /\ handler'.pc \in {"stat", "read", "add", "remove"} => handler'.file \in Files
    BY <1>4, <1>8, <2>1, <2>2, <2>3 DEF Work
  <2> QED
    BY <1>5, <1>7, <1>9, <1>14, <2>4, <2>5 DEF HandleRead, diskVars
<1>15. CASE AddOrUpdateClient
  <2>1. handler.file \in Files /\ handler.data \in Hashes
    BY <1>4, <1>15 DEF AddOrUpdateClient, Work
  <2>2. handler.file \in Ids /\ handler.data \in Values
    BY <2>1 DEF Ids, Values, Hashes
  <2>3. currentAuths' \in Updates
    BY <1>7, <1>15, <2>2, WithUpdates DEF AddOrUpdateClient
  <2>4. PerPathUpdates(handler.file, TRUE, handler.data) \in Updates
    BY <2>1, PerPathType
  <2>5. handler' \in Work /\ handler'.pc \in {"idle", "dispatch"}
    BY <1>15, <2>4, HandOverType DEF AddOrUpdateClient
  <2> QED
    BY <1>5, <1>7, <1>9, <1>15, <2>1, <2>3, <2>5 DEF AddOrUpdateClient, diskVars
<1>16. CASE RemoveClient
  <2>1. handler.file \in Files /\ None \in Hashes
    BY <1>4, <1>16 DEF RemoveClient, Hashes
  <2>2. currentAuths' \in Updates
    BY <1>7, <1>16, WithoutUpdates DEF RemoveClient
  <2>3. PerPathUpdates(handler.file, handler.file \in fileAuthsByPath, None) \in Updates
    BY <2>1, PerPathType
  <2>4. handler' \in Work /\ handler'.pc \in {"idle", "dispatch"}
    BY <1>16, <2>3, HandOverType DEF RemoveClient
  <2>5. lastAuthHashes' \in [Files -> Hashes] /\ fileAuthsByPath' \subseteq Files
    BY <1>5, <1>7, <1>16, <2>1 DEF RemoveClient
  <2> QED
    BY <1>5, <1>9, <1>16, <2>2, <2>4, <2>5 DEF RemoveClient, diskVars
<1>17. CASE HandlerDispatch
  <2>1. handler.updates \in Updates
    BY <1>4 DEF Work
  <2>2. FeedType'
    BY <1>7, <1>17, <2>1, DispatchType DEF HandlerDispatch
  <2> QED
    BY <1>5, <1>7, <1>8, <1>17, <2>2 DEF HandlerDispatch, diskVars, snapshotVars
<1> QED
  BY <1>10, <1>11, <1>12, <1>13, <1>14, <1>15, <1>16, <1>17 DEF HandlerStep

(* A reload that moves on keeps the type if its own record does.           *)
LEMMA ReloadFrame ==
  ASSUME ReloadType, NEW r \in Reloaders, NEW rec \in Reloads,
         rec.pc \in {"set", "rescan", "commit", "apply"} => rec.cfg \in Configs,
         reload' = [reload EXCEPT ![r] = rec],
         config' \in Configs, served' \in [cfg : Configs, sequence : Nat], applied' \in Configs
  PROVE  ReloadType'
<1>1. reload' \in [Reloaders -> Reloads]
  BY DEF ReloadType
<1>2. \A q \in Reloaders : reload'[q] = IF q = r THEN rec ELSE reload[q]
  BY DEF ReloadType
<1> QED
  BY <1>1, <1>2 DEF ReloadType

(* The goroutines of reloadConfigIfChanged, the first half: up to the      *)
(* commit.                                                                 *)
LEMMA LoadTypes ==
  ASSUME WatcherTypeOK, NEW r \in Reloaders,
         \/ TimerFires(r) \/ ReloadHook(r) \/ LoadConfig(r) \/ SetConfig(r) \/ ReloadClients(r)
         \/ RescanAuthDir(r)
  PROVE  WatcherTypeOK'
<1> DEFINE c == reload[r]
<1>1. UNCHANGED <<disk, configFile, events, runtimeAuths, handler, login, feedVars, served, applied>>
  BY DEF TimerFires, ReloadHook, LoadConfig, SetConfig, ReloadClients, RescanAuthDir, diskVars,
         snapshotVars, configVars
<1>2. DiskType' /\ WorkType' /\ FeedType' /\ runtimeAuths' \subseteq Sessions
  BY <1>1 DEF WatcherTypeOK, DiskType, SnapshotType, WorkType, FeedType, feedVars
<1>3. /\ reload \in [Reloaders -> Reloads] /\ c \in Reloads /\ config \in Configs
      /\ c.pc \in {"set", "rescan", "commit", "apply"} => c.cfg \in Configs
      /\ served' \in [cfg : Configs, sequence : Nat] /\ applied' \in Configs
      /\ ReloadType
  BY <1>1 DEF WatcherTypeOK, ReloadType
<1>4. lastAuthHashes \in [Files -> Hashes] /\ currentAuths \in Updates /\ fileAuthsByPath \subseteq Files
  BY DEF WatcherTypeOK, SnapshotType
<1>5. disk \in [Files -> Hashes] /\ configFile \in Configs
  BY DEF WatcherTypeOK, DiskType
<1>6. SUFFICES /\ ReloadType'
               /\ lastAuthHashes' \in [Files -> Hashes] /\ currentAuths' \in Updates
               /\ fileAuthsByPath' \subseteq Files
  BY <1>2, <1>6 DEF WatcherTypeOK, SnapshotType
<1>7. CASE TimerFires(r) \/ ReloadHook(r)
  <2>1. UNCHANGED <<config, lastAuthHashes, currentAuths, fileAuthsByPath>>
    BY <1>7 DEF TimerFires, ReloadHook, snapshotVars, configVars
  <2>2. UNCHANGED reload \/ reload' = [reload EXCEPT ![r] = [c EXCEPT !.pc = "load"]]
    BY <1>7 DEF TimerFires, ReloadHook, ReloadConfigIfChanged, Move
  <2>3. CASE UNCHANGED reload
    <3>1. ReloadType'
      BY <1>3, <2>1, <2>3 DEF ReloadType
    <3> QED
      BY <1>4, <2>1, <3>1
  <2>4. CASE reload' = [reload EXCEPT ![r] = [c EXCEPT !.pc = "load"]]
    <3>1. [c EXCEPT !.pc = "load"] \in Reloads /\ [c EXCEPT !.pc = "load"].pc = "load"
      BY <1>3 DEF Reloads
    <3> HIDE DEF c
    <3>2. ReloadType'
      BY <1>3, <2>1, <2>4, <3>1, ReloadFrame
    <3> QED
      BY <1>4, <2>1, <3>2
  <2> QED
    BY <2>2, <2>3, <2>4
<1>8. CASE LoadConfig(r)
  <2> DEFINE d == [c EXCEPT !.pc = "set", !.cfg = configFile]
  <2>1. UNCHANGED <<config, lastAuthHashes, currentAuths, fileAuthsByPath>>
    BY <1>8 DEF LoadConfig, snapshotVars, configVars
  <2>2. reload' = [reload EXCEPT ![r] = d]
    BY <1>8 DEF LoadConfig
  <2>3. d \in Reloads /\ d.cfg \in Configs
    BY <1>3, <1>5 DEF Reloads
  <2> HIDE DEF d
  <2>4. ReloadType'
    BY <1>3, <2>1, <2>2, <2>3, ReloadFrame
  <2> QED
    BY <1>4, <2>1, <2>4
<1>9. CASE SetConfig(r)
  <2>1. PICK ch \in BOOLEAN : ch = (config # c.cfg)
    OBVIOUS
  <2> DEFINE d == [c EXCEPT !.pc = "clients", !.cfg = None, !.changed = ch]
  <2>2. /\ UNCHANGED <<lastAuthHashes, currentAuths, fileAuthsByPath>>
        /\ config' \in Configs
    BY <1>3, <1>9 DEF SetConfig, snapshotVars
  <2>3. reload' = [reload EXCEPT ![r] = d]
    BY <1>9, <2>1 DEF SetConfig
  <2>4. d \in Reloads /\ d.pc = "clients"
    BY <1>3, <2>1 DEF Reloads
  <2> HIDE DEF d
  <2>5. ReloadType'
    BY <1>3, <2>2, <2>3, <2>4, ReloadFrame
  <2> QED
    BY <1>4, <2>2, <2>5
<1>10. CASE ReloadClients(r)
  <2> DEFINE d == [c EXCEPT !.pc = "commit", !.cfg = config]
  <2>1. UNCHANGED <<config, lastAuthHashes, fileAuthsByPath>>
    BY <1>10 DEF ReloadClients, configVars
  <2>2. reload' = [reload EXCEPT ![r] = d]
    BY <1>10 DEF ReloadClients
  <2>3. d \in Reloads /\ d.cfg \in Configs
    BY <1>3 DEF Reloads
  <2>4. currentAuths' \in Updates
    BY <1>4, <1>10, WithoutUpdates DEF ReloadClients
  <2> HIDE DEF d
  <2>5. ReloadType'
    BY <1>3, <2>1, <2>2, <2>3, ReloadFrame
  <2> QED
    BY <1>4, <2>1, <2>4, <2>5
<1>11. CASE RescanAuthDir(r)
  <2> DEFINE d == [c EXCEPT !.pc = "commit"]
  <2>1. UNCHANGED <<config, currentAuths>>
    BY <1>11 DEF RescanAuthDir, configVars
  <2>2. reload' = [reload EXCEPT ![r] = d]
    BY <1>11 DEF RescanAuthDir, Move
  <2>3. d \in Reloads /\ d.cfg \in Configs
    BY <1>3, <1>11 DEF RescanAuthDir, Reloads
  <2>4. lastAuthHashes' \in [Files -> Hashes] /\ fileAuthsByPath' \subseteq Files
    BY <1>5, <1>11 DEF RescanAuthDir
  <2> HIDE DEF d
  <2>5. ReloadType'
    BY <1>3, <2>1, <2>2, <2>3, ReloadFrame
  <2> QED
    BY <1>4, <2>1, <2>4, <2>5
<1> QED
  BY <1>7, <1>8, <1>9, <1>10, <1>11

(* The second half: from the commit to the hash that is kept.              *)
LEMMA CommitTypes ==
  ASSUME WatcherTypeOK, NEW r \in Reloaders,
         \/ CommitConfigUpdate(r) \/ ApplyConfigRuntime(r) \/ SnapshotCoreAuths(r)
         \/ RefreshAuthState(r) \/ ReloadDispatch(r) \/ RecordConfigHash(r)
  PROVE  WatcherTypeOK'
<1> DEFINE c == reload[r]
<1>1. UNCHANGED <<disk, configFile, events, lastAuthHashes, fileAuthsByPath, runtimeAuths, handler,
                  login, config>>
  BY DEF CommitConfigUpdate, ApplyConfigRuntime, SnapshotCoreAuths, RefreshAuthState, ReloadDispatch,
         RecordConfigHash, diskVars, snapshotVars, configVars
<1>2. DiskType' /\ WorkType'
  BY <1>1 DEF WatcherTypeOK, DiskType, WorkType
<1>3. /\ reload \in [Reloaders -> Reloads] /\ c \in Reloads /\ config \in Configs /\ config' \in Configs
      /\ c.pc \in {"set", "rescan", "commit", "apply"} => c.cfg \in Configs
      /\ served \in [cfg : Configs, sequence : Nat] /\ applied \in Configs
      /\ ReloadType
  BY <1>1 DEF WatcherTypeOK, ReloadType
<1>4. currentAuths \in Updates /\ runtimeAuths \subseteq Sessions /\ FeedType
  BY DEF WatcherTypeOK, SnapshotType
<1>5. /\ disk \in [Files -> Hashes]
      /\ lastAuthHashes' \in [Files -> Hashes] /\ fileAuthsByPath' \subseteq Files
      /\ runtimeAuths' \subseteq Sessions
  BY <1>1 DEF WatcherTypeOK, DiskType, SnapshotType
<1>6. SUFFICES ReloadType' /\ currentAuths' \in Updates /\ FeedType'
  BY <1>2, <1>5, <1>6 DEF WatcherTypeOK, SnapshotType
<1>7. UNCHANGED feedVars => FeedType'
  BY <1>4 DEF FeedType, feedVars
<1>8. CASE CommitConfigUpdate(r)
  <2> DEFINE d == [c EXCEPT !.pc = "apply", !.sequence = served.sequence + 1]
  <2>1. reload' = [reload EXCEPT ![r] = d]
    BY <1>8 DEF CommitConfigUpdate
  <2>2. served.sequence \in Nat /\ c.cfg \in Configs
    BY <1>3, <1>8 DEF CommitConfigUpdate
  <2>3. d \in Reloads /\ d.cfg \in Configs
    <3>1. PICK n \in Nat : n = served.sequence + 1
      BY <2>2
    <3>2. d = [c EXCEPT !.pc = "apply", !.sequence = n]
      BY <3>1
    <3>3. c \in Reloads /\ c.cfg \in Configs
      BY <1>3, <2>2
    <3> HIDE DEF c, d
    <3> QED
      BY <3>2, <3>3 DEF Reloads
  <2>4. served' \in [cfg : Configs, sequence : Nat] /\ applied' \in Configs
    BY <1>3, <1>8, <2>2 DEF CommitConfigUpdate
  <2> HIDE DEF d
  <2>5. ReloadType'
    BY <1>3, <2>1, <2>3, <2>4, ReloadFrame
  <2> QED
    BY <1>4, <1>7, <1>8, <2>5 DEF CommitConfigUpdate, snapshotVars
<1>9. CASE ApplyConfigRuntime(r)
  <2> DEFINE d == [c EXCEPT !.pc = "snapshot", !.cfg = None, !.sequence = 0]
  <2>1. reload' = [reload EXCEPT ![r] = d]
    BY <1>9 DEF ApplyConfigRuntime
  <2>2. d \in Reloads /\ d.pc = "snapshot"
    BY <1>3 DEF Reloads
  <2>3. served' \in [cfg : Configs, sequence : Nat] /\ applied' \in Configs
    BY <1>3, <1>9 DEF ApplyConfigRuntime
  <2> HIDE DEF d
  <2>4. ReloadType'
    BY <1>3, <2>1, <2>2, <2>3, ReloadFrame
  <2> QED
    BY <1>4, <1>7, <1>9, <2>4 DEF ApplyConfigRuntime, snapshotVars
<1>10. CASE SnapshotCoreAuths(r)
  <2> DEFINE d == [c EXCEPT !.pc = "refresh", !.snap = Snapshot(disk, config)]
  <2>1. reload' = [reload EXCEPT ![r] = d]
    BY <1>10 DEF SnapshotCoreAuths
  <2>2. Snapshot(disk, config) \in Updates
    BY <1>3, <1>5, SnapshotUpdates
  <2>3. d \in Reloads /\ d.pc = "refresh"
    BY <1>3, <2>2 DEF Reloads
  <2>4. served' \in [cfg : Configs, sequence : Nat] /\ applied' \in Configs
    BY <1>3, <1>10 DEF SnapshotCoreAuths, configVars
  <2> HIDE DEF d
  <2>5. ReloadType'
    BY <1>3, <2>1, <2>3, <2>4, ReloadFrame
  <2> QED
    BY <1>4, <1>7, <1>10, <2>5 DEF SnapshotCoreAuths, snapshotVars
<1>11. CASE RefreshAuthState(r)
  <2> DEFINE S == DOMAIN c.snap \cup runtimeAuths
             new == [i \in S |-> IF i \in runtimeAuths THEN 1 ELSE c.snap[i]]
  <2>1. PICK force \in BOOLEAN :
          /\ currentAuths' = new
          /\ reload' = [reload EXCEPT ![r].pc = "dispatch", ![r].changed = FALSE,
                                      ![r].snap = NoUpdates,
                                      ![r].updates = Difference(currentAuths, new, force)]
    BY <1>11 DEF RefreshAuthState
  <2> DEFINE diff == Difference(currentAuths, new, force)
             d == [c EXCEPT !.pc = "dispatch", !.changed = FALSE, !.snap = NoUpdates,
                            !.updates = diff]
  <2>2. c.snap \in Updates
    BY <1>3 DEF Reloads
  <2>3. S \in SUBSET Ids
    BY <1>4, <2>2, UpdatesElim DEF Ids
  <2>4. new \in [S -> Values]
    BY <2>2, UpdatesElim DEF Values
  <2>5. new \in Updates
    BY <2>3, <2>4, UpdatesIntro
  <2>10. reload' = [reload EXCEPT ![r] = d]
    BY <2>1
  <2> HIDE DEF new, S
  <2>6. diff \in Updates
    BY <1>4, <2>5, DifferenceType
  <2> HIDE DEF diff
  <2>7. d \in Reloads /\ d.pc = "dispatch"
    BY <1>3, <2>6, NoUpdatesType DEF Reloads
  <2>8. served' \in [cfg : Configs, sequence : Nat] /\ applied' \in Configs
    BY <1>3, <1>11 DEF RefreshAuthState, configVars
  <2> HIDE DEF d
  <2>9. ReloadType'
    BY <1>3, <2>7, <2>8, <2>10, ReloadFrame
  <2> QED
    BY <1>7, <1>11, <2>1, <2>5, <2>9 DEF RefreshAuthState
<1>12. CASE ReloadDispatch(r)
  <2>1. NoReload \in Reloads /\ NoReload.pc = "idle"
    BY NoUpdatesType DEF NoReload, Reloads
  <2>2. [NoReload EXCEPT !.pc = "rehash"] \in Reloads /\ [NoReload EXCEPT !.pc = "rehash"].pc = "rehash"
    BY NoUpdatesType DEF NoReload, Reloads
  <2>3. PICK d \in Reloads : d.pc \in {"idle", "rehash"} /\ reload' = [reload EXCEPT ![r] = d]
    BY <1>12, <2>1, <2>2 DEF ReloadDispatch
  <2>4. served' \in [cfg : Configs, sequence : Nat] /\ applied' \in Configs
    BY <1>3, <1>12 DEF ReloadDispatch, configVars
  <2>5. ReloadType'
    BY <1>3, <2>3, <2>4, ReloadFrame
  <2>6. c.updates \in Updates
    BY <1>3 DEF Reloads
  <2>7. FeedType'
    BY <1>4, <1>12, <2>6, DispatchType DEF ReloadDispatch
  <2> QED
    BY <1>4, <1>12, <2>5, <2>7 DEF ReloadDispatch, snapshotVars
<1>13. CASE RecordConfigHash(r)
  <2>1. NoReload \in Reloads /\ NoReload.pc = "idle"
    BY NoUpdatesType DEF NoReload, Reloads
  <2>2. reload' = [reload EXCEPT ![r] = NoReload]
    BY <1>13 DEF RecordConfigHash
  <2>3. served' \in [cfg : Configs, sequence : Nat] /\ applied' \in Configs
    BY <1>3, <1>13 DEF RecordConfigHash
  <2>4. ReloadType'
    BY <1>3, <2>1, <2>2, <2>3, ReloadFrame
  <2> QED
    BY <1>4, <1>7, <1>13, <2>4 DEF RecordConfigHash, snapshotVars
<1> QED
  BY <1>8, <1>9, <1>10, <1>11, <1>12, <1>13

(* The websocket sessions and the logins.                                  *)
LEMMA SessionTypes ==
  ASSUME WatcherTypeOK, NEW s \in Sessions, Connected(s) \/ Disconnected(s) \/ SessionDispatch(s)
  PROVE  WatcherTypeOK'
<1>1. /\ UNCHANGED <<disk, configFile, events, lastAuthHashes, fileAuthsByPath, configVars, handler,
                     reload, login>>
      /\ SnapshotType /\ FeedType
  BY DEF Connected, Disconnected, SessionDispatch, diskVars, snapshotVars, WatcherTypeOK
<1>2. DiskType' /\ WorkType' /\ ReloadType'
  BY <1>1 DEF WatcherTypeOK, DiskType, WorkType, ReloadType, configVars
<1>3. s \in Ids /\ 1 \in Values /\ None \in Values
  BY DEF Ids, Values
<1>4. SUFFICES SnapshotType' /\ FeedType'
  BY <1>2, <1>4 DEF WatcherTypeOK
<1>5. CASE Connected(s) \/ Disconnected(s)
  <2>1. currentAuths' = With(currentAuths, s, 1) \/ currentAuths' = Without(currentAuths, {s})
    BY <1>5 DEF Connected, Disconnected
  <2>2. currentAuths' \in Updates
    BY <1>1, <1>3, <2>1, WithUpdates, WithoutUpdates DEF SnapshotType
  <2>3. runtimeAuths' \subseteq Sessions
    BY <1>1, <1>5 DEF Connected, Disconnected, SnapshotType
  <2>4. FeedType'
    BY <1>1, <1>5 DEF Connected, Disconnected, FeedType, feedVars
  <2> QED
    BY <1>1, <2>2, <2>3, <2>4 DEF SnapshotType
<1>6. CASE SessionDispatch(s)
  <2>1. [i \in {s} |-> 1] \in Updates /\ [i \in {s} |-> None] \in Updates
    BY <1>3, OneUpdate
  <2>2. PICK u \in Updates : DispatchAuthUpdates(u)
    BY <1>6, <2>1 DEF SessionDispatch
  <2>3. FeedType'
    BY <1>1, <2>2, DispatchType
  <2>4. SnapshotType'
    BY <1>1, <1>6 DEF SessionDispatch, SnapshotType, snapshotVars
  <2> QED
    BY <2>3, <2>4
<1> QED
  BY <1>5, <1>6

(* A login saves the file and hands over the credential itself.            *)
LEMMA LoginTypes ==
  ASSUME WatcherTypeOK, LoginSave \/ DispatchPersisted \/ LoginDispatch
  PROVE  WatcherTypeOK'
<1>1. /\ UNCHANGED <<configFile, lastAuthHashes, runtimeAuths, configVars, handler, reload>>
      /\ SnapshotType /\ FeedType /\ DiskType
  BY DEF LoginSave, DispatchPersisted, LoginDispatch, diskVars, snapshotVars, WatcherTypeOK
<1>2. /\ ReloadType' /\ handler' \in Work
      /\ handler'.pc \in {"stat", "read", "add", "remove"} => handler'.file \in Files
  BY <1>1 DEF WatcherTypeOK, WorkType, ReloadType, configVars
<1>3. login \in Work /\ (login.pc = "hook" => login.file \in Files)
  BY DEF WatcherTypeOK, WorkType
<1>4. SUFFICES /\ login' \in Work /\ (login'.pc = "hook" => login'.file \in Files)
               /\ SnapshotType' /\ FeedType' /\ DiskType'
  BY <1>2, <1>4 DEF WatcherTypeOK, WorkType
<1>5. CASE LoginSave
  <2>1. PICK f \in Files, c \in Contents :
          /\ disk' = [disk EXCEPT ![f] = c]
          /\ Notified(f, <<"write">>)
          /\ login' = [Resting EXCEPT !.pc = "hook", !.file = f, !.data = c]
    BY <1>5 DEF LoginSave
  <2>2. events' \in Seq(Events)
    BY <1>1, <2>1, NotifiedType DEF DiskType
  <2>3. DiskType'
    BY <1>1, <2>1, <2>2 DEF DiskType, Hashes
  <2>4. login' \in Work /\ login'.file \in Files
    BY <2>1, NoUpdatesType DEF Resting, Work, Hashes
  <2>5. SnapshotType' /\ FeedType'
    BY <1>1, <1>5 DEF LoginSave, SnapshotType, FeedType, snapshotVars, feedVars
  <2> QED
    BY <2>3, <2>4, <2>5
<1>6. CASE DispatchPersisted
  <2>1. login.file \in Files /\ login.data \in Hashes
    BY <1>3, <1>6 DEF DispatchPersisted, Work
  <2>2. login.file \in Ids /\ login.data \in Values
    BY <2>1 DEF Ids, Values, Hashes
  <2>3. currentAuths' \in Updates
    BY <1>1, <1>6, <2>2, WithUpdates DEF DispatchPersisted, SnapshotType
  <2>4. SnapshotType'
    BY <1>1, <1>6, <2>1, <2>3 DEF DispatchPersisted, SnapshotType
  <2>5. [i \in {login.file} |-> login.data] \in Updates
    BY <2>2, OneUpdate
  <2>6. login' \in Work /\ login'.pc = "dispatch"
    BY <1>6, <2>5 DEF DispatchPersisted, Resting, Work, Hashes
  <2>7. DiskType' /\ FeedType'
    BY <1>1, <1>6 DEF DispatchPersisted, DiskType, FeedType, diskVars, feedVars
  <2> QED
    BY <2>4, <2>6, <2>7
<1>7. CASE LoginDispatch
  <2>1. login.updates \in Updates
    BY <1>3 DEF Work
  <2>2. FeedType'
    BY <1>1, <1>7, <2>1, DispatchType DEF LoginDispatch
  <2>3. login' \in Work /\ login'.pc = "idle"
    BY <1>7, NoUpdatesType DEF LoginDispatch, Resting, Work, Hashes
  <2>4. DiskType' /\ SnapshotType'
    BY <1>1, <1>7 DEF LoginDispatch, DiskType, SnapshotType, diskVars, snapshotVars
  <2> QED
    BY <2>2, <2>3, <2>4
<1> QED
  BY <1>5, <1>6, <1>7

-----------------------------------------------------------------------------
(* Positions of a sequence and their ranks *)

(* The rank of a position among those of a set. *)
Rank(K, i) == Cardinality({j \in K : j <= i})

(* The ranks of a finite set of positions are 1 up to its cardinality, and *)
(* no two positions have the same one.                                     *)
LEMMA Ranks ==
  ASSUME NEW n \in Nat, NEW K \in SUBSET (1 .. n)
  PROVE  /\ IsFiniteSet(K) /\ Cardinality(K) \in Nat
         /\ \A i \in K : Rank(K, i) \in 1 .. Cardinality(K)
         /\ \A i, k \in K : Rank(K, i) = Rank(K, k) => i = k
         /\ \A m \in 1 .. Cardinality(K) : \E i \in K : Rank(K, i) = m
<1> DEFINE c == Cardinality(K)
           upto(i) == {j \in K : j <= i}
           rank == [i \in K |-> Cardinality(upto(i))]
<1>1. K \subseteq Nat
  OBVIOUS
<1>2. IsFiniteSet(K) /\ c \in Nat
  <2>1. IsFiniteSet(1 .. n)
    BY FS_Interval
  <2>2. IsFiniteSet(K)
    BY <2>1, FS_Subset
  <2> QED
    BY <2>2, FS_CardinalityType
<1>3. \A i \in K : IsFiniteSet(upto(i)) /\ Cardinality(upto(i)) \in 1 .. c
  <2> SUFFICES ASSUME NEW i \in K PROVE IsFiniteSet(upto(i)) /\ Cardinality(upto(i)) \in 1 .. c
    OBVIOUS
  <2>1. upto(i) \in SUBSET K /\ i \in upto(i)
    BY <1>1
  <2> HIDE DEF upto
  <2>2. IsFiniteSet(upto(i)) /\ Cardinality(upto(i)) <= c
    BY <1>2, <2>1, FS_Subset
  <2>3. Cardinality(upto(i)) \in Nat /\ Cardinality(upto(i)) # 0
    BY <2>1, <2>2, FS_CardinalityType, FS_EmptySet
  <2> HIDE DEF c
  <2> QED
    BY <1>2, <2>2, <2>3
<1>4. ASSUME NEW i \in K, NEW k \in K, i < k
      PROVE  Cardinality(upto(i)) # Cardinality(upto(k))
  <2>1. upto(i) \in SUBSET upto(k) /\ k \in upto(k) /\ k \notin upto(i)
    <3>1. i \in Nat /\ k \in Nat /\ \A j \in K : j \in Nat
      BY <1>1
    <3>2. \A j \in K : j <= i => j <= k
      BY <1>4, <3>1
    <3>3. k <= k /\ ~(k <= i)
      BY <1>4, <3>1
    <3> QED
      BY <3>2, <3>3
  <2>2. IsFiniteSet(upto(k))
    BY <1>3
  <2> HIDE DEF upto
  <2> QED
    BY <2>1, <2>2, FS_Subset
<1>5. ASSUME NEW i \in K, NEW k \in K, Cardinality(upto(i)) = Cardinality(upto(k)) PROVE i = k
  <2>1. i \in Nat /\ k \in Nat
    BY <1>1
  <2> HIDE DEF upto
  <2> QED
    BY <1>4, <1>5, <2>1
<1>6. rank \in Injection(K, 1 .. c)
  <2>1. rank \in [K -> 1 .. c]
    BY <1>3
  <2>2. ASSUME NEW i \in K, NEW k \in K, rank[i] = rank[k] PROVE i = k
    BY <1>5, <2>2
  <2> HIDE DEF rank
  <2> QED
    BY <2>1, <2>2 DEF Injection, IsInjective
<1>7. rank \in Surjection(K, 1 .. c)
  <2>1. IsFiniteSet(1 .. c) /\ Cardinality(1 .. c) = c
    <3> HIDE DEF c
    <3>1. 1 \in Int /\ c \in Int
      BY <1>2
    <3>2. IsFiniteSet(1 .. c) /\ Cardinality(1 .. c) = IF 1 > c THEN 0 ELSE c - 1 + 1
      BY <3>1, FS_Interval
    <3> QED
      BY <1>2, <3>2
  <2> HIDE DEF rank
  <2> QED
    BY <1>6, <2>1, FS_Injection
<1>8. \A m \in 1 .. c : \E i \in K : Cardinality(upto(i)) = m
  <2> SUFFICES ASSUME NEW m \in 1 .. c PROVE \E i \in K : rank[i] = m
    OBVIOUS
  <2> HIDE DEF rank
  <2> QED
    BY <1>7 DEF Surjection
<1> QED
  BY <1>2, <1>3, <1>5, <1>8 DEF Rank

(* Some positions have a last one, whose rank is their number.             *)
LEMMA LastPosition ==
  ASSUME NEW n \in Nat, NEW K \in SUBSET (1 .. n), K # {}
  PROVE  \E i \in K : Rank(K, i) = Cardinality(K) /\ \A j \in K : j <= i
<1>1. Cardinality(K) \in Nat /\ Cardinality(K) # 0 /\ IsFiniteSet(K)
  BY Ranks, FS_EmptySet
<1>2. Cardinality(K) \in 1 .. Cardinality(K)
  <2> DEFINE c == Cardinality(K)
  <2>1. c \in Nat /\ c # 0
    BY <1>1
  <2> HIDE DEF c
  <2>2. c \in 1 .. c
    BY <2>1
  <2> QED
    BY <2>2 DEF c
<1>3. PICK i \in K : Rank(K, i) = Cardinality(K)
  BY <1>2, Ranks
<1>4. {j \in K : j <= i} = K
  <2>1. {j \in K : j <= i} \in SUBSET K /\ Cardinality({j \in K : j <= i}) = Cardinality(K)
    BY <1>3 DEF Rank
  <2> QED
    BY <1>1, <2>1, FS_Subset
<1> QED
  BY <1>3, <1>4

(* The updates of one credential in the queue. *)
Of(q, i) == {k \in DOMAIN q : q[k].id = i}

(* coalesceAuthUpdates keeps the last update of each credential.           *)
LEMMA CoalesceLast ==
  ASSUME NEW q \in Seq([id : Ids, val : Values])
  PROVE  /\ DOMAIN Coalesce(q) = {i \in Ids : Of(q, i) # {}}
         /\ \A i \in DOMAIN Coalesce(q) : Coalesce(q)[i] \in Values
         /\ \A i \in DOMAIN Coalesce(q) : \A k \in Of(q, i) :
              Rank(Of(q, i), k) = Cardinality(Of(q, i)) => Coalesce(q)[i] = q[k].val
<1>1. PICK n \in Nat : q \in [1 .. n -> [id : Ids, val : Values]]
  <2> DEFINE U == [id : Ids, val : Values]
  <2>1. q \in Seq(U)
    OBVIOUS
  <2> HIDE DEF U
  <2>2. \E n \in Nat : q \in [1 .. n -> U]
    BY <2>1, SeqDef
  <2> QED
    BY <2>2 DEF U
<1>2. DOMAIN q = 1 .. n /\ \A k \in 1 .. n : q[k].id \in Ids /\ q[k].val \in Values
  BY <1>1
<1>3. DOMAIN Coalesce(q) = {q[k].id : k \in DOMAIN q}
  BY DEF Coalesce
<1>4. DOMAIN Coalesce(q) = {i \in Ids : Of(q, i) # {}}
  BY <1>2, <1>3 DEF Of
<1>5. ASSUME NEW i \in DOMAIN Coalesce(q)
      PROVE  \E k \in Of(q, i) : /\ Rank(Of(q, i), k) = Cardinality(Of(q, i))
                                 /\ Coalesce(q)[i] = q[k].val /\ q[k].val \in Values
  <2>1. Of(q, i) \in SUBSET (1 .. n) /\ Of(q, i) # {}
    BY <1>2, <1>4 DEF Of
  <2>2. PICK k \in Of(q, i) : /\ Rank(Of(q, i), k) = Cardinality(Of(q, i))
                              /\ \A l \in Of(q, i) : l <= k
    BY <2>1, LastPosition
  <2> DEFINE T(x) == q[x].id = i /\ \A l \in DOMAIN q : q[l].id = i => l <= x
             last == CHOOSE x \in DOMAIN q : T(x)
  <2>3. k \in DOMAIN q /\ T(k)
    BY <2>2 DEF Of
  <2>4. last \in DOMAIN q /\ T(last)
    BY <2>3
  <2>5. last <= k /\ k <= last
    BY <2>3, <2>4
  <2>6. last = k
    <3>1. last \in Nat /\ k \in Nat
      BY <1>2, <2>3, <2>4
    <3> HIDE DEF last
    <3> QED
      BY <2>5, <3>1
  <2>7. Coalesce(q)[i] = q[last].val
    BY <1>3 DEF Coalesce
  <2> HIDE DEF last, T
  <2> QED
    BY <1>2, <2>2, <2>3, <2>6, <2>7
<1>6. ASSUME NEW i \in DOMAIN Coalesce(q), NEW k \in Of(q, i),
             Rank(Of(q, i), k) = Cardinality(Of(q, i))
      PROVE  Coalesce(q)[i] = q[k].val
  <2>1. PICK l \in Of(q, i) : Rank(Of(q, i), l) = Cardinality(Of(q, i)) /\ Coalesce(q)[i] = q[l].val
    BY <1>5
  <2>2. Of(q, i) \in SUBSET (1 .. n)
    BY <1>2 DEF Of
  <2>3. l = k
    BY <1>6, <2>1, <2>2, Ranks
  <2> QED
    BY <2>1, <2>3
<1> QED
  BY <1>4, <1>5, <1>6

(* A batch that is not empty has something to deliver.                     *)
LEMMA BatchHead ==
  ASSUME NEW u \in Updates, u # NoUpdates
  PROVE  LET i == CHOOSE x \in DOMAIN u : TRUE IN i \in DOMAIN u /\ i \in Ids /\ u[i] \in Values
<1>1. DOMAIN u # {}
  <2>1. SUFFICES ASSUME DOMAIN u = {} PROVE FALSE
    OBVIOUS
  <2>2. u = [i \in {} |-> u[i]]
    BY <2>1, UpdatesElim
  <2>3. u = NoUpdates
    BY <2>2 DEF NoUpdates
  <2> QED
    BY <2>3
<1> QED
  BY <1>1, UpdatesElim

(* The dispatcher's loop and the consumer.                                 *)
LEMMA FeedTypes ==
  ASSUME WatcherTypeOK, FeedStep
  PROVE  WatcherTypeOK'
<1>1. DiskType' /\ SnapshotType' /\ WorkType' /\ ReloadType'
  BY DEF FeedStep, WatcherTypeOK, DiskType, SnapshotType, WorkType, ReloadType, diskVars,
         snapshotVars, configVars
<1>2. FeedType
  BY DEF WatcherTypeOK
<1>3. SUFFICES FeedType'
  BY <1>1, <1>3 DEF WatcherTypeOK
<1>4. CASE NextPendingBatch
  BY <1>2, <1>4, NoUpdatesType DEF NextPendingBatch, FeedType
<1>5. CASE DeliverUpdate
  <2> DEFINE i == CHOOSE x \in DOMAIN batch : TRUE
             u == [id |-> i, val |-> batch[i]]
  <2>1. i \in Ids /\ batch[i] \in Values
    BY <1>2, <1>5, BatchHead DEF DeliverUpdate, FeedType
  <2>2. authUpdates' = Append(authUpdates, u) /\ batch' = Without(batch, {i})
    BY <1>5 DEF DeliverUpdate
  <2> HIDE DEF i
  <2>3. u \in [id : Ids, val : Values]
    BY <2>1
  <2> HIDE DEF u
  <2>4. authUpdates' \in Seq([id : Ids, val : Values])
    BY <1>2, <2>2, <2>3 DEF FeedType
  <2>5. batch' \in Updates
    BY <1>2, <2>2, WithoutUpdates DEF FeedType
  <2> QED
    BY <1>2, <1>5, <2>4, <2>5 DEF DeliverUpdate, FeedType
<1>6. CASE ConsumeAuthUpdates
  <2>1. \A i \in DOMAIN Coalesce(authUpdates) : Coalesce(authUpdates)[i] \in Values
    BY <1>2, CoalesceLast DEF FeedType
  <2>2. manager' \in [Ids -> Values]
    BY <1>2, <1>6, <2>1 DEF ConsumeAuthUpdates, FeedType
  <2>3. authUpdates' \in Seq([id : Ids, val : Values])
    BY <1>6 DEF ConsumeAuthUpdates
  <2> QED
    BY <1>2, <1>6, <2>2, <2>3 DEF ConsumeAuthUpdates, FeedType
<1> QED
  BY <1>4, <1>5, <1>6 DEF FeedStep

(* The state in which the watcher starts is well typed.                    *)
LEMMA StartTypes ==
  ASSUME WatcherInit
  PROVE  WatcherTypeOK
<1>1. First(Contents) \in Contents
  BY WatcherAssumption DEF First
<1>2. DiskType
  <2>1. disk \in [Files -> Hashes]
    BY <1>1 DEF WatcherInit, Hashes
  <2> QED
    BY <2>1, WatcherAssumption DEF WatcherInit, DiskType, Configs
<1>3. SnapshotType
  BY NoUpdatesType DEF WatcherInit, SnapshotType, Hashes
<1>4. WorkType
  BY NoUpdatesType DEF WatcherInit, WorkType, Work, Resting, Hashes
<1>5. ReloadType
  <2> DEFINE d == [NoReload EXCEPT !.pc = "rescan", !.boot = TRUE, !.cfg = configFile]
  <2>1. NoReload \in Reloads /\ NoReload.pc = "idle"
    BY NoUpdatesType DEF NoReload, Reloads
  <2>2. d \in Reloads /\ d.cfg \in Configs
    BY <1>2, NoUpdatesType DEF NoReload, Reloads, DiskType
  <2>3. reload = [r \in Reloaders |-> IF r = First(Reloaders) THEN d ELSE NoReload]
    BY DEF WatcherInit
  <2> HIDE DEF d
  <2>4. /\ reload \in [Reloaders -> Reloads]
        /\ \A r \in Reloaders :
             reload[r].pc \in {"set", "rescan", "commit", "apply"} => reload[r].cfg \in Configs
    BY <2>1, <2>2, <2>3
  <2> QED
    BY <1>2, <2>4 DEF WatcherInit, ReloadType, DiskType
<1>6. FeedType
  <2>1. Snapshot(disk, configFile) \in Updates
    BY <1>2, SnapshotUpdates DEF DiskType
  <2>2. manager \in [Ids -> Values]
    BY <2>1, UpdatesElim DEF WatcherInit, Values
  <2> QED
    BY <2>2, NoUpdatesType DEF WatcherInit, FeedType
<1> QED
  BY <1>2, <1>3, <1>4, <1>5, <1>6 DEF WatcherTypeOK

(* Every step keeps the types.                                             *)
LEMMA StepTypes ==
  ASSUME WatcherTypeOK, [WatcherNext]_vars
  PROVE  WatcherTypeOK'
<1>1. CASE UNCHANGED vars
  BY <1>1 DEF vars, diskVars, snapshotVars, configVars, feedVars, WatcherTypeOK, DiskType,
              SnapshotType, WorkType, ReloadType, FeedType
<1>2. ASSUME NEW r \in Reloaders, ReloadStep(r) \/ ReloadHook(r) PROVE WatcherTypeOK'
  BY <1>2, LoadTypes, CommitTypes DEF ReloadStep
<1> QED
  BY <1>1, <1>2, EditTypes, HandlerTypes, SessionTypes, LoginTypes, FeedTypes DEF WatcherNext

(* The watcher's state is well typed: updates are about known credentials, *)
(* and a goroutine at a step that needs a file or a configuration has one, *)
(* however the producers overlap.                                          *)
THEOREM WatcherTypeCorrect == WatcherSpec => []WatcherTypeOK
<1>1. WatcherInit => WatcherTypeOK
  BY StartTypes
<1>2. WatcherTypeOK /\ [WatcherNext]_vars => WatcherTypeOK'
  BY StepTypes
<1> QED
  BY <1>1, <1>2, PTL DEF WatcherSpec

-----------------------------------------------------------------------------
(* The two phases of a configuration update *)

(* Commits are numbered, so a reload that waits to apply has the newest    *)
(* number only if it has the configuration that is served.                 *)
Numbered ==
  \A r \in Reloaders : reload[r].pc = "apply" =>
    /\ reload[r].sequence <= served.sequence
    /\ reload[r].sequence = served.sequence => reload[r].cfg = served.cfg

(* The served configuration is applied, or the reload that committed it is *)
(* still to apply it.                                                      *)
InHand ==
  \/ applied = served.cfg
  \/ \E r \in Reloaders : reload[r].pc = "apply" /\ reload[r].sequence = served.sequence

(* A step that neither commits nor applies leaves the waiting reloads.     *)
LEMMA OtherSteps ==
  ASSUME Numbered, InHand, UNCHANGED <<served, applied>>,
         \A r \in Reloaders : (reload'[r].pc = "apply" \/ reload[r].pc = "apply") => reload'[r] = reload[r]
  PROVE  Numbered' /\ InHand'
<1>1. Numbered'
  BY DEF Numbered
<1>2. InHand'
  BY DEF InHand
<1> QED
  BY <1>1, <1>2

(* Every step keeps the two facts.                                         *)
LEMMA CommitStep ==
  ASSUME WatcherTypeOK, Numbered, InHand, [WatcherNext]_vars
  PROVE  Numbered' /\ InHand'
<1>1. /\ reload \in [Reloaders -> Reloads] /\ served \in [cfg : Configs, sequence : Nat]
      /\ \A r \in Reloaders : reload[r] \in Reloads
  BY DEF WatcherTypeOK, ReloadType
<1>2. CASE UNCHANGED <<reload, served, applied>>
  BY <1>2, OtherSteps
<1>3. ASSUME NEW r \in Reloaders, NEW d, reload' = [reload EXCEPT ![r] = d], d.pc # "apply",
             reload[r].pc # "apply", UNCHANGED <<served, applied>>
      PROVE  Numbered' /\ InHand'
  <2>1. \A q \in Reloaders : reload'[q] = IF q = r THEN d ELSE reload[q]
    BY <1>1, <1>3
  <2> QED
    BY <1>3, <2>1, OtherSteps
<1>4. ASSUME NEW r \in Reloaders, TimerFires(r) \/ ReloadHook(r) PROVE Numbered' /\ InHand'
  <2>1. reload[r].pc = "idle" /\ UNCHANGED <<served, applied>>
    BY <1>4 DEF TimerFires, ReloadHook, NewGoroutine, configVars
  <2>2. UNCHANGED reload \/ reload' = [reload EXCEPT ![r] = [reload[r] EXCEPT !.pc = "load"]]
    BY <1>4 DEF TimerFires, ReloadHook, ReloadConfigIfChanged, Move
  <2>3. [reload[r] EXCEPT !.pc = "load"].pc = "load"
    BY <1>1 DEF Reloads
  <2> QED
    BY <1>2, <1>3, <2>1, <2>2, <2>3
<1>5. ASSUME NEW r \in Reloaders, LoadConfig(r) PROVE Numbered' /\ InHand'
  <2> DEFINE d == [reload[r] EXCEPT !.pc = "set", !.cfg = configFile]
  <2>1. reload[r].pc = "load" /\ UNCHANGED <<served, applied>> /\ reload' = [reload EXCEPT ![r] = d]
    BY <1>5 DEF LoadConfig, configVars
  <2>2. d.pc = "set"
    BY <1>1 DEF Reloads
  <2> QED
    BY <1>3, <2>1, <2>2
<1>6. ASSUME NEW r \in Reloaders, SetConfig(r) PROVE Numbered' /\ InHand'
  <2>1. PICK ch : ch = (config # reload[r].cfg)
    OBVIOUS
  <2> DEFINE d == [reload[r] EXCEPT !.pc = "clients", !.cfg = None, !.changed = ch]
  <2>2. reload[r].pc = "set" /\ UNCHANGED <<served, applied>> /\ reload' = [reload EXCEPT ![r] = d]
    BY <1>6, <2>1 DEF SetConfig
  <2>3. d.pc = "clients"
    BY <1>1 DEF Reloads
  <2> QED
    BY <1>3, <2>2, <2>3
<1>7. ASSUME NEW r \in Reloaders, ReloadClients(r) PROVE Numbered' /\ InHand'
  <2> DEFINE d == [reload[r] EXCEPT !.pc = "commit", !.cfg = config]
  <2>1. reload[r].pc = "clients" /\ UNCHANGED <<served, applied>> /\ reload' = [reload EXCEPT ![r] = d]
    BY <1>7 DEF ReloadClients, configVars
  <2>2. d.pc = "commit"
    BY <1>1 DEF Reloads
  <2> QED
    BY <1>3, <2>1, <2>2
<1>8. ASSUME NEW r \in Reloaders, RescanAuthDir(r) PROVE Numbered' /\ InHand'
  <2> DEFINE d == [reload[r] EXCEPT !.pc = "commit"]
  <2>1. reload[r].pc = "rescan" /\ UNCHANGED <<served, applied>> /\ reload' = [reload EXCEPT ![r] = d]
    BY <1>8 DEF RescanAuthDir, Move, configVars
  <2>2. d.pc = "commit"
    BY <1>1 DEF Reloads
  <2> QED
    BY <1>3, <2>1, <2>2
<1>9. ASSUME NEW r \in Reloaders, CommitConfigUpdate(r) PROVE Numbered' /\ InHand'
  <2> DEFINE d == [reload[r] EXCEPT !.pc = "apply", !.sequence = served.sequence + 1]
  <2>1. reload' = [reload EXCEPT ![r] = d]
    BY <1>9 DEF CommitConfigUpdate
  <2>2. d.pc = "apply" /\ d.sequence = served.sequence + 1 /\ d.cfg = reload[r].cfg
    BY <1>1 DEF Reloads
  <2>3. served'.cfg = reload[r].cfg /\ served'.sequence = served.sequence + 1
    BY <1>9 DEF CommitConfigUpdate
  <2> HIDE DEF d
  <2>4. \A q \in Reloaders : reload'[q] = IF q = r THEN d ELSE reload[q]
    BY <1>1, <2>1
  <2>5. served.sequence \in Nat /\ \A q \in Reloaders : reload[q].sequence \in Nat
    BY <1>1 DEF Reloads
  <2>6. Numbered'
    BY <2>2, <2>3, <2>4, <2>5 DEF Numbered
  <2>7. InHand'
    BY <2>2, <2>3, <2>4 DEF InHand
  <2> QED
    BY <2>6, <2>7
<1>10. ASSUME NEW r \in Reloaders, ApplyConfigRuntime(r) PROVE Numbered' /\ InHand'
  <2> DEFINE d == [reload[r] EXCEPT !.pc = "snapshot", !.cfg = None, !.sequence = 0]
  <2>1. reload' = [reload EXCEPT ![r] = d] /\ UNCHANGED served /\ reload[r].pc = "apply"
    BY <1>10 DEF ApplyConfigRuntime
  <2>2. d.pc = "snapshot"
    BY <1>1 DEF Reloads
  <2> HIDE DEF d
  <2>3. \A q \in Reloaders : reload'[q] = IF q = r THEN d ELSE reload[q]
    BY <1>1, <2>1
  <2>4. Numbered'
    BY <2>1, <2>2, <2>3 DEF Numbered
  <2>5. applied' = IF reload[r].sequence = served.sequence THEN reload[r].cfg ELSE applied
    BY <1>10 DEF ApplyConfigRuntime
  <2>6. InHand'
    BY <2>1, <2>2, <2>3, <2>5 DEF Numbered, InHand
  <2> QED
    BY <2>4, <2>6
<1>11. ASSUME NEW r \in Reloaders, SnapshotCoreAuths(r) PROVE Numbered' /\ InHand'
  <2> DEFINE d == [reload[r] EXCEPT !.pc = "refresh", !.snap = Snapshot(disk, config)]
  <2>1. reload[r].pc = "snapshot" /\ UNCHANGED <<served, applied>> /\ reload' = [reload EXCEPT ![r] = d]
    BY <1>11 DEF SnapshotCoreAuths, configVars
  <2>2. d.pc = "refresh"
    BY <1>1 DEF Reloads
  <2> QED
    BY <1>3, <2>1, <2>2
<1>12. ASSUME NEW r \in Reloaders, RefreshAuthState(r) PROVE Numbered' /\ InHand'
  <2>1. PICK u :
          reload' = [reload EXCEPT ![r].pc = "dispatch", ![r].changed = FALSE,
                                   ![r].snap = NoUpdates, ![r].updates = u]
    BY <1>12 DEF RefreshAuthState
  <2> DEFINE d == [reload[r] EXCEPT !.pc = "dispatch", !.changed = FALSE, !.snap = NoUpdates,
                                    !.updates = u]
  <2>2. reload[r].pc = "refresh" /\ UNCHANGED <<served, applied>> /\ reload' = [reload EXCEPT ![r] = d]
    BY <1>12, <2>1 DEF RefreshAuthState, configVars
  <2>3. d.pc = "dispatch"
    BY <1>1 DEF Reloads
  <2> QED
    BY <1>3, <2>2, <2>3
<1>13. ASSUME NEW r \in Reloaders, ReloadDispatch(r) \/ RecordConfigHash(r) PROVE Numbered' /\ InHand'
  <2>1. reload[r].pc # "apply" /\ UNCHANGED <<served, applied>>
    BY <1>13 DEF ReloadDispatch, RecordConfigHash, configVars
  <2>2. \/ reload' = [reload EXCEPT ![r] = NoReload]
        \/ reload' = [reload EXCEPT ![r] = [NoReload EXCEPT !.pc = "rehash"]]
    BY <1>13 DEF ReloadDispatch, RecordConfigHash
  <2>3. NoReload.pc = "idle" /\ [NoReload EXCEPT !.pc = "rehash"].pc = "rehash"
    BY DEF NoReload
  <2> QED
    BY <1>3, <2>1, <2>2, <2>3
<1>14. CASE ~\E r \in Reloaders : ReloadStep(r) \/ ReloadHook(r)
  <2>1. UNCHANGED <<reload, served, applied>>
    BY <1>14 DEF WatcherNext, HandlerStep, FileChange, ConfigChange, WindowPasses, HandleConfigEvent,
         HandleWriteEvent, HandleRemoveEvent, HandleStat, HandleRead, AddOrUpdateClient, RemoveClient,
         HandlerDispatch, Connected, Disconnected, SessionDispatch, LoginSave, DispatchPersisted,
         LoginDispatch, FeedStep, vars, configVars
  <2> QED
    BY <1>2, <2>1
<1> QED
  BY <1>4, <1>5, <1>6, <1>7, <1>8, <1>9, <1>10, <1>11, <1>12, <1>13, <1>14 DEF ReloadStep

(* However the reloads overlap, the runtime ends up with the configuration *)
(* that was committed last, never with an older one that was slower.       *)
THEOREM LastCommitWins == WatcherSpec => []LastCommitIsApplied
<1>1. WatcherInit => WatcherTypeOK /\ Numbered /\ InHand
  <2>1. WatcherInit => Numbered /\ InHand
    BY DEF WatcherInit, NoReload, Numbered, InHand
  <2> QED
    BY <2>1, StartTypes
<1>2. WatcherTypeOK /\ Numbered /\ InHand /\ [WatcherNext]_vars => WatcherTypeOK' /\ Numbered' /\ InHand'
  BY StepTypes, CommitStep
<1>3. InHand => LastCommitIsApplied
  BY DEF InHand, LastCommitIsApplied
<1> QED
  BY <1>1, <1>2, <1>3, PTL DEF WatcherSpec

-----------------------------------------------------------------------------
(* The feed *)

(* A piece of a sequence, position by position.                            *)
LEMMA Piece ==
  ASSUME NEW S, NEW w \in Seq(S), NEW b \in Seq(S), NEW n \in Nat, NEW m \in Nat, Len(b) = m,
         \A i \in 1 .. m : n + i \in 1 .. Len(w) /\ w[n + i] = b[i]
  PROVE  SubSeq(w, n + 1, n + m) = b
<1>1. PICK from \in Int, to \in Int : from = n + 1 /\ to = n + m
  OBVIOUS
<1>2. ASSUME NEW i \in from .. to PROVE w[i] \in S
  <2>1. PICK j \in 1 .. m : i = n + j
    <3>1. i - n \in 1 .. m /\ i = n + (i - n)
      BY <1>1
    <3> QED
      BY <3>1
  <2>2. b[j] \in S
    BY ElementOfSeq
  <2> QED
    BY <2>1, <2>2
<1>3. /\ SubSeq(w, from, to) \in Seq(S)
      /\ Len(SubSeq(w, from, to)) = IF from <= to THEN to - from + 1 ELSE 0
      /\ \A i \in 1 .. to - from + 1 : SubSeq(w, from, to)[i] = w[from + i - 1]
  BY ONLY <1>2, from \in Int, to \in Int, SubSeqProperties
<1>4. PICK s : s = SubSeq(w, from, to)
  OBVIOUS
<1>5. s \in Seq(S) /\ Len(s) = m
  <2>1. (IF from <= to THEN to - from + 1 ELSE 0) = m
    BY <1>1
  <2> QED
    BY <1>3, <1>4, <2>1
<1>6. ASSUME NEW i \in 1 .. m PROVE s[i] = b[i]
  <2>1. i \in 1 .. to - from + 1 /\ from + i - 1 = n + i
    BY <1>1
  <2>2. s[i] = w[from + i - 1]
    BY <1>3, <1>4, <2>1
  <2> QED
    BY <2>1, <2>2
<1>7. s = b
  BY ONLY <1>5, <1>6, Len(b) = m, b \in Seq(S), SeqEqual
<1> QED
  BY <1>1, <1>4, <1>7

(* The two parts of a concatenation.                                       *)
LEMMA ConcatParts ==
  ASSUME NEW S, NEW a \in Seq(S), NEW b \in Seq(S)
  PROVE  /\ SubSeq(a \o b, 1, Len(a)) = a
         /\ SubSeq(a \o b, Len(a) + 1, Len(a \o b)) = b
<1>1. PICK n \in Nat, m \in Nat : n = Len(a) /\ m = Len(b)
  OBVIOUS
<1>2. PICK w \in Seq(S) :
        /\ w = a \o b /\ Len(w) = n + m
        /\ \A i \in 1 .. n + m : w[i] = IF i <= n THEN a[i] ELSE b[i - n]
  <2>1. /\ a \o b \in Seq(S) /\ Len(a \o b) = n + m
        /\ \A i \in 1 .. n + m : (a \o b)[i] = IF i <= n THEN a[i] ELSE b[i - n]
    BY <1>1, ConcatProperties
  <2> QED
    BY ONLY <2>1
<1>3. SubSeq(w, 0 + 1, 0 + n) = a
  <2>1. ASSUME NEW i \in 1 .. n PROVE 0 + i \in 1 .. n + m /\ 0 + i = i /\ i <= n
    OBVIOUS
  <2>2. \A i \in 1 .. n : 0 + i \in 1 .. Len(w) /\ w[0 + i] = a[i]
    BY <1>2, <2>1
  <2> QED
    BY <1>1, <2>2, Piece
<1>4. SubSeq(w, n + 1, n + m) = b
  <2>1. ASSUME NEW i \in 1 .. m PROVE n + i \in 1 .. n + m /\ ~(n + i <= n) /\ n + i - n = i
    OBVIOUS
  <2>2. \A i \in 1 .. m : n + i \in 1 .. Len(w) /\ w[n + i] = b[i]
    BY <1>2, <2>1
  <2>3. Len(b) = m
    BY <1>1
  <2> QED
    BY ONLY <2>2, <2>3, n \in Nat, m \in Nat, w \in Seq(S), b \in Seq(S), Piece
<1>5. 0 + 1 = 1 /\ 0 + n = n
  OBVIOUS
<1> QED
  BY <1>1, <1>2, <1>3, <1>4, <1>5

(* The queue's updates of one credential: as many as there are, each at    *)
(* its rank.                                                               *)
LEMMA QueuedShape ==
  ASSUME NEW q \in Seq([id : Ids, val : Values]), NEW i
  PROVE  /\ Of(q, i) \in SUBSET (1 .. Len(q))
         /\ Queued(q, i) \in Seq(Values) /\ Len(Queued(q, i)) = Cardinality(Of(q, i))
         /\ \A k \in Of(q, i) : Queued(q, i)[Rank(Of(q, i), k)] = q[k].val
<1> DEFINE K == Of(q, i)
           c == Cardinality(K)
           nth(n) == CHOOSE k \in K : Rank(K, k) = n
<1>1. PICK l \in Nat : l = Len(q) /\ DOMAIN q = 1 .. l
  OBVIOUS
<1>2. K \in SUBSET (1 .. l)
  BY <1>1 DEF Of
<1>3. Queued(q, i) = [n \in 1 .. c |-> q[nth(n)].val]
  BY DEF Queued, Of, Rank
<1>4. \A k \in K : q[k] \in [id : Ids, val : Values]
  BY <1>1, <1>2, ElementOfSeq
<1>5. \A k \in K : q[k].val \in Values
  BY <1>4
<1> HIDE DEF K
<1>6. c \in Nat /\ \A k \in K : Rank(K, k) \in 1 .. c
  BY <1>2, Ranks
<1>7. \A n \in 1 .. c : nth(n) \in K /\ Rank(K, nth(n)) = n
  BY <1>2, Ranks
<1>8. ASSUME NEW k \in K PROVE nth(Rank(K, k)) = k
  <2>1. Rank(K, nth(Rank(K, k))) = Rank(K, k) /\ nth(Rank(K, k)) \in K
    BY <1>6, <1>7
  <2> HIDE DEF nth
  <2> QED
    BY <1>2, <2>1, Ranks
<1> HIDE DEF nth, c
<1>9. Queued(q, i) \in [1 .. c -> Values]
  BY <1>3, <1>5, <1>7
<1>10. Queued(q, i) \in Seq(Values) /\ Len(Queued(q, i)) = c
  BY <1>6, <1>9, SeqDef
<1>11. \A k \in K : Queued(q, i)[Rank(K, k)] = q[k].val
  BY <1>3, <1>6, <1>8
<1> QED
  BY <1>1, <1>2, <1>10, <1>11 DEF K, c

(* An update that is delivered joins the end of its credential's.          *)
LEMMA QueuedAppend ==
  ASSUME NEW q \in Seq([id : Ids, val : Values]), NEW u \in [id : Ids, val : Values], NEW i
  PROVE  Queued(Append(q, u), i) = IF u.id = i THEN Queued(q, i) \o <<u.val>> ELSE Queued(q, i)
<1> DEFINE K == Of(q, i)
           L == Of(Append(q, u), i)
           c == Cardinality(K)
<1>1. PICK l \in Nat : l = Len(q) /\ DOMAIN q = 1 .. l
  OBVIOUS
<1>2. /\ Append(q, u) \in Seq([id : Ids, val : Values]) /\ DOMAIN Append(q, u) = 1 .. l + 1
      /\ \A k \in 1 .. l : Append(q, u)[k] = q[k]
      /\ Append(q, u)[l + 1] = u
  BY <1>1
<1>3. K \in SUBSET (1 .. l) /\ l + 1 \notin K
  BY <1>1 DEF Of
<1>4. L = IF u.id = i THEN K \cup {l + 1} ELSE K
  BY <1>1, <1>2 DEF Of
<1>5. /\ Queued(q, i) \in Seq(Values) /\ Len(Queued(q, i)) = c
      /\ \A k \in K : Queued(q, i)[Rank(K, k)] = q[k].val
  BY QueuedShape
<1>6. /\ Queued(Append(q, u), i) \in Seq(Values) /\ Len(Queued(Append(q, u), i)) = Cardinality(L)
      /\ \A k \in L : Queued(Append(q, u), i)[Rank(L, k)] = Append(q, u)[k].val
  BY <1>2, QueuedShape
<1> HIDE DEF K, L
<1>7. IsFiniteSet(K) /\ c \in Nat /\ \A n \in 1 .. c : \E k \in K : Rank(K, k) = n
  BY <1>3, Ranks
<1>8. CASE u.id # i
  <2>1. L = K
    BY <1>4, <1>8
  <2>2. ASSUME NEW n \in 1 .. c PROVE Queued(Append(q, u), i)[n] = Queued(q, i)[n]
    <3>1. PICK k \in K : Rank(K, k) = n
      BY <1>7
    <3>2. k \in 1 .. l
      BY <1>3
    <3> QED
      BY <1>2, <1>5, <1>6, <2>1, <3>1, <3>2
  <2> HIDE DEF c
  <2>3. Len(Queued(Append(q, u), i)) = c
    BY <1>6, <2>1 DEF c
  <2> QED
    BY <1>5, <1>6, <1>8, <2>2, <2>3, SeqEqual
<1>9. CASE u.id = i
  <2>1. L = K \cup {l + 1}
    BY <1>4, <1>9
  <2>2. Cardinality(L) = c + 1
    BY <1>3, <1>7, <2>1, FS_AddElement
  <2>3. ASSUME NEW k \in K PROVE Rank(L, k) = Rank(K, k)
    <3>1. {j \in L : j <= k} = {j \in K : j <= k}
      <4>1. k \in 1 .. l
        BY <1>3
      <4>2. ~(l + 1 <= k)
        BY <4>1
      <4> QED
        BY <2>1, <4>2
    <3> QED
      BY <3>1 DEF Rank
  <2>4. Rank(L, l + 1) = c + 1
    <3>1. \A j \in L : j <= l + 1
      BY <1>3, <2>1
    <3>2. {j \in L : j <= l + 1} = L
      BY <3>1
    <3> QED
      BY <2>2, <3>2 DEF Rank
  <2>5. u.val \in Values /\ <<u.val>> \in Seq(Values) /\ Len(<<u.val>>) = 1 /\ <<u.val>>[1] = u.val
    OBVIOUS
  <2> HIDE DEF c
  <2>6. ASSUME NEW n \in 1 .. c PROVE Queued(Append(q, u), i)[n] = Queued(q, i)[n]
    <3>1. PICK k \in K : Rank(K, k) = n
      BY <1>7
    <3>2. k \in 1 .. l /\ k \in L
      BY <1>3, <2>1
    <3> QED
      BY <1>2, <1>5, <1>6, <2>3, <3>1, <3>2
  <2>7. Queued(Append(q, u), i)[c + 1] = u.val
    BY <1>2, <1>6, <2>1, <2>4
  <2>8. /\ Queued(q, i) \o <<u.val>> \in Seq(Values) /\ Len(Queued(q, i) \o <<u.val>>) = c + 1
        /\ \A n \in 1 .. c + 1 : (Queued(q, i) \o <<u.val>>)[n] =
             IF n <= c THEN Queued(q, i)[n] ELSE <<u.val>>[n - c]
    BY <1>5, <2>5, ConcatProperties
  <2>9. ASSUME NEW n \in 1 .. c + 1
        PROVE  Queued(Append(q, u), i)[n] = (Queued(q, i) \o <<u.val>>)[n]
    <3>1. CASE n <= c
      <4>1. n \in 1 .. c
        BY <1>7, <3>1
      <4> QED
        BY <2>6, <2>8, <3>1, <4>1
    <3>2. CASE ~(n <= c)
      <4>1. n = c + 1 /\ n - c = 1
        BY <1>7, <3>2
      <4> QED
        BY <2>5, <2>7, <2>8, <3>2, <4>1
    <3> QED
      BY <3>1, <3>2
  <2>10. Queued(Append(q, u), i) = Queued(q, i) \o <<u.val>>
    BY <1>6, <2>2, <2>8, <2>9, SeqEqual
  <2> QED
    BY <1>9, <2>10
<1> QED
  BY <1>8, <1>9

(* An empty queue has nothing for any credential.                          *)
LEMMA NothingQueued ==
  ASSUME NEW i
  PROVE  Queued(<<>>, i) = <<>>
<1>1. {k \in DOMAIN <<>> : <<>>[k].id = i} = {}
  OBVIOUS
<1>2. Cardinality({}) = 0
  BY FS_EmptySet
<1>3. <<>> \in Seq([id : Ids, val : Values])
  OBVIOUS
<1>4. Len(Queued(<<>>, i)) = 0 /\ Queued(<<>>, i) \in Seq(Values)
  BY <1>1, <1>2, <1>3, QueuedShape DEF Of
<1> QED
  BY <1>4

(* What waits for a credential is a sequence of values.                    *)
LEMMA HeldType ==
  ASSUME NEW u \in Updates, NEW i
  PROVE  Held(u, i) \in Seq(Values)
<1>1. CASE i \in DOMAIN u
  <2>1. u[i] \in Values
    BY <1>1, UpdatesElim
  <2> QED
    BY <1>1, <2>1 DEF Held
<1>2. CASE i \notin DOMAIN u
  BY <1>2 DEF Held
<1> QED
  BY <1>1, <1>2

(* ... and so are its three parts.                                         *)
LEMMA WaitingType ==
  ASSUME FeedType, NEW i
  PROVE  /\ Queued(authUpdates, i) \in Seq(Values) /\ Held(batch, i) \in Seq(Values)
         /\ Held(pendingUpdates, i) \in Seq(Values) /\ Waiting(i) \in Seq(Values)
<1>1. Queued(authUpdates, i) \in Seq(Values)
  BY QueuedShape DEF FeedType
<1>2. Held(batch, i) \in Seq(Values) /\ Held(pendingUpdates, i) \in Seq(Values)
  BY HeldType DEF FeedType
<1>3. Queued(authUpdates, i) \o Held(batch, i) \in Seq(Values)
  BY <1>1, <1>2, ConcatProperties
<1>4. Waiting(i) \in Seq(Values)
  BY <1>2, <1>3, ConcatProperties DEF Waiting
<1> QED
  BY <1>1, <1>2, <1>4

(* dispatchAuthUpdates sends: the update takes the place of the one that   *)
(* is still in the coalescing map, and of no other.                        *)
LEMMA DispatchSends ==
  ASSUME FeedType, NEW u \in Updates, DispatchAuthUpdates(u)
  PROVE  Feed!Send
<1>1. UNCHANGED <<batch, authUpdates, manager>>
  BY DEF DispatchAuthUpdates
<1>2. pendingUpdates' = [i \in DOMAIN pendingUpdates \cup DOMAIN u |->
                           IF i \in DOMAIN u THEN u[i] ELSE pendingUpdates[i]]
  BY DEF DispatchAuthUpdates
<1>3. ASSUME NEW i \in Ids
      PROVE  \/ Waiting(i)' = Waiting(i)
             \/ /\ Waiting(i)' # <<>>
                /\ \E k \in 0 .. Len(Waiting(i)) :
                     SubSeq(Waiting(i)', 1, Len(Waiting(i)') - 1) = SubSeq(Waiting(i), 1, k)
  <2>1. PICK a \in Seq(Values) : a = Queued(authUpdates, i) \o Held(batch, i)
    BY WaitingType, ConcatProperties
  <2>2. Waiting(i) = a \o Held(pendingUpdates, i)
    BY <2>1 DEF Waiting
  <2>3. Waiting(i)' = a \o Held(pendingUpdates', i)
    BY <1>1, <2>1 DEF Waiting, Queued, Held
  <2>4. CASE i \notin DOMAIN u
    <3>1. Held(pendingUpdates', i) = Held(pendingUpdates, i)
      BY <1>2, <2>4 DEF Held
    <3> QED
      BY <2>2, <2>3, <3>1
  <2>5. CASE i \in DOMAIN u
    <3>1. u[i] \in Values
      BY <2>5, UpdatesElim
    <3>2. Held(pendingUpdates', i) = <<u[i]>>
      BY <1>2, <2>5 DEF Held
    <3>3. PICK one \in Seq(Values) : one = <<u[i]>> /\ Len(one) = 1
      <4>1. <<u[i]>> \in Seq(Values) /\ Len(<<u[i]>>) = 1
        BY <3>1
      <4> QED
        BY ONLY <4>1
    <3>4. PICK w \in Seq(Values) : w = Waiting(i)' /\ w = a \o one /\ Len(w) = Len(a) + 1
      <4>1. a \o one \in Seq(Values) /\ Len(a \o one) = Len(a) + Len(one)
        BY ConcatProperties
      <4>2. Waiting(i)' = a \o one
        BY <2>3, <3>2, <3>3
      <4>3. Waiting(i)' \in Seq(Values) /\ Len(Waiting(i)') = Len(a) + 1
        BY <3>3, <4>1, <4>2
      <4> QED
        BY ONLY <4>2, <4>3
    <3>5. PICK n \in Nat : n = Len(a)
      OBVIOUS
    <3>6. w # <<>> /\ Len(w) - 1 = n
      BY <3>4, <3>5
    <3>7. SubSeq(w, 1, n) = a
      BY <3>3, <3>4, <3>5, ConcatParts
    <3>8. SubSeq(Waiting(i), 1, n) = a
      BY <2>2, <3>5, ConcatParts, WaitingType
    <3>9. n \in 0 .. Len(Waiting(i))
      <4>1. PICK h \in Seq(Values) : h = Held(pendingUpdates, i)
        BY WaitingType
      <4>2. Len(a \o h) = Len(a) + Len(h) /\ Len(h) \in Nat
        BY ConcatProperties
      <4> QED
        BY <2>2, <3>5, <4>1, <4>2
    <3> QED
      BY <3>4, <3>6, <3>7, <3>8, <3>9
  <2> QED
    BY <2>4, <2>5
<1> QED
  BY <1>1, <1>3 DEF Feed!Send

(* The loop's next batch, and the delivery of one update, change where     *)
(* updates wait and not which.                                             *)
LEMMA BatchStutters ==
  ASSUME FeedType, NextPendingBatch, NEW i
  PROVE  Waiting(i)' = Waiting(i)
<1>1. /\ batch = NoUpdates /\ batch' = pendingUpdates /\ pendingUpdates' = NoUpdates
      /\ authUpdates' = authUpdates
  BY DEF NextPendingBatch
<1>2. Held(NoUpdates, i) = <<>>
  BY DEF Held, NoUpdates
<1>3. PICK a \in Seq(Values), h \in Seq(Values) :
        a = Queued(authUpdates, i) /\ h = Held(pendingUpdates, i)
  BY WaitingType
<1>4. Waiting(i) = (a \o <<>>) \o h
  BY <1>1, <1>2, <1>3 DEF Waiting
<1>5. Waiting(i)' = (a \o h) \o <<>>
  BY <1>1, <1>2, <1>3 DEF Waiting
<1>6. a \o <<>> = a /\ a \o h \in Seq(Values)
  BY ConcatEmptySeq, ConcatProperties
<1>7. (a \o h) \o <<>> = a \o h
  BY <1>6, ConcatEmptySeq
<1> QED
  BY <1>4, <1>5, <1>6, <1>7

(* The head of the batch joins the end of the queue.                       *)
LEMMA DeliverStutters ==
  ASSUME FeedType, DeliverUpdate, NEW i \in Ids
  PROVE  Waiting(i)' = Waiting(i)
<1>1. PICK j : j = CHOOSE x \in DOMAIN batch : TRUE
  OBVIOUS
<1>2. j \in DOMAIN batch /\ j \in Ids /\ batch[j] \in Values
  BY <1>1, BatchHead DEF DeliverUpdate, FeedType
<1>3. PICK u \in [id : Ids, val : Values] : u = [id |-> j, val |-> batch[j]] /\ u.id = j /\ u.val = batch[j]
  <2> DEFINE v == [id |-> j, val |-> batch[j]]
  <2>1. v \in [id : Ids, val : Values]
    BY <1>2
  <2>2. v.id = j /\ v.val = batch[j]
    OBVIOUS
  <2> QED
    BY <2>1, <2>2
<1>4. /\ authUpdates' = Append(authUpdates, u) /\ batch' = Without(batch, {j})
      /\ pendingUpdates' = pendingUpdates
  BY <1>1, <1>3 DEF DeliverUpdate
<1>5. PICK a \in Seq(Values), b \in Seq(Values), h \in Seq(Values) :
        a = Queued(authUpdates, i) /\ b = Held(batch, i) /\ h = Held(pendingUpdates, i)
  BY WaitingType
<1>6. Waiting(i) = (a \o b) \o h
  BY <1>5 DEF Waiting
<1>7. Waiting(i)' = (Queued(authUpdates', i) \o Held(batch', i)) \o h
  BY <1>4, <1>5 DEF Waiting, Queued, Held
<1>8. authUpdates \in Seq([id : Ids, val : Values])
  BY DEF FeedType
<1>9. Queued(authUpdates', i) = IF u.id = i THEN a \o <<u.val>> ELSE a
  BY <1>4, <1>5, <1>8, QueuedAppend
<1>10. Queued(authUpdates', i) \o Held(batch', i) = a \o b
  <2>1. CASE i = j
    <3>1. b = <<batch[j]>> /\ Held(batch', i) = <<>>
      BY <1>2, <1>4, <1>5, <2>1 DEF Held, Without
    <3>2. Queued(authUpdates', i) = a \o b
      BY <1>3, <1>9, <2>1, <3>1
    <3>3. a \o b \in Seq(Values)
      BY ConcatProperties
    <3> QED
      BY <3>1, <3>2, <3>3, ConcatEmptySeq
  <2>2. CASE i # j
    <3>1. Held(batch', i) = b
      BY <1>4, <1>5, <2>2 DEF Held, Without
    <3> QED
      BY <1>3, <1>9, <2>2, <3>1
  <2> QED
    BY <2>1, <2>2
<1> QED
  BY <1>6, <1>7, <1>10

(* handleAuthUpdates shows the last queued update of each credential, and  *)
(* leaves what waits behind the queue.                                     *)
LEMMA ConsumeShows ==
  ASSUME FeedType, ConsumeAuthUpdates
  PROVE  Feed!Show
<1>1. /\ authUpdates' = <<>> /\ UNCHANGED <<pendingUpdates, batch>>
      /\ manager' = [i \in Ids |-> IF i \in DOMAIN Coalesce(authUpdates)
                                   THEN Coalesce(authUpdates)[i] ELSE manager[i]]
  BY DEF ConsumeAuthUpdates
<1>2. authUpdates \in Seq([id : Ids, val : Values])
  BY DEF FeedType
<1>3. ASSUME NEW i \in Ids
      PROVE  \/ Waiting(i)' = Waiting(i) /\ manager'[i] = manager[i]
             \/ \E k \in 1 .. Len(Waiting(i)) :
                  /\ manager'[i] = Waiting(i)[k]
                  /\ Waiting(i)' = SubSeq(Waiting(i), k + 1, Len(Waiting(i)))
  <2>1. PICK a \in Seq(Values), b \in Seq(Values), h \in Seq(Values) :
          a = Queued(authUpdates, i) /\ b = Held(batch, i) /\ h = Held(pendingUpdates, i)
    BY WaitingType
  <2>2. PICK t \in Seq(Values) : t = b \o h
    BY ConcatProperties
  <2>3. Waiting(i) = a \o t
    BY <2>1, <2>2, ConcatAssociative DEF Waiting
  <2>4. Queued(<<>>, i) = <<>>
    BY NothingQueued
  <2>5. Waiting(i)' = t
    <3>1. Waiting(i)' = (<<>> \o b) \o h
      BY <1>1, <2>1, <2>4 DEF Waiting
    <3>2. <<>> \o b = b
      BY ConcatEmptySeq
    <3> QED
      BY <2>2, <3>1, <3>2
  <2>6. CASE Of(authUpdates, i) = {}
    <3>1. i \notin DOMAIN Coalesce(authUpdates)
      BY <1>2, <2>6, CoalesceLast
    <3>2. Len(a) = 0
      BY <1>2, <2>1, <2>6, QueuedShape, FS_EmptySet
    <3>3. a = <<>>
      BY <3>2
    <3>4. Waiting(i) = t
      BY <2>3, <3>3, ConcatEmptySeq
    <3> QED
      BY <1>1, <2>5, <3>1, <3>4
  <2>7. CASE Of(authUpdates, i) # {}
    <3>1. i \in DOMAIN Coalesce(authUpdates)
      BY <1>2, <2>7, CoalesceLast
    <3>2. PICK l \in Nat : l = Len(authUpdates)
      BY <1>2
    <3>3. /\ Of(authUpdates, i) \in SUBSET (1 .. l) /\ Len(a) = Cardinality(Of(authUpdates, i))
          /\ \A k \in Of(authUpdates, i) : a[Rank(Of(authUpdates, i), k)] = authUpdates[k].val
      BY <1>2, <2>1, <3>2, QueuedShape
    <3>4. PICK k \in Of(authUpdates, i) :
            Rank(Of(authUpdates, i), k) = Cardinality(Of(authUpdates, i))
      BY <2>7, <3>3, LastPosition
    <3>5. Rank(Of(authUpdates, i), k) \in 1 .. Cardinality(Of(authUpdates, i))
      BY <3>3, Ranks
    <3>6. manager'[i] = authUpdates[k].val
      BY <1>1, <1>2, <3>1, <3>4, CoalesceLast
    <3>7. PICK n \in Nat : n = Len(a) /\ n \in 1 .. n /\ manager'[i] = a[n]
      BY <3>3, <3>4, <3>5, <3>6
    <3>8. /\ Len(a \o t) = Len(a) + Len(t) /\ Len(t) \in Nat
          /\ \A m \in 1 .. Len(a) + Len(t) :
               (a \o t)[m] = IF m <= Len(a) THEN a[m] ELSE t[m - Len(a)]
      BY ConcatProperties
    <3>9. n \in 1 .. Len(Waiting(i)) /\ Waiting(i)[n] = a[n]
      BY <2>3, <3>7, <3>8
    <3>10. SubSeq(Waiting(i), n + 1, Len(Waiting(i))) = t
      BY <2>3, <3>7, ConcatParts
    <3> QED
      BY <2>5, <3>7, <3>9, <3>10
  <2> QED
    BY <2>6, <2>7
<1> QED
  BY <1>3 DEF Feed!Show

(* The coalescing map, the batch, the queue and the consumer keep what     *)
(* LatestWins promises, however many producers hand over updates: no       *)
(* update of a credential is lost except to a later one, and none is       *)
(* applied out of order.                                                   *)
THEOREM FeedKeepsOrder == WatcherSpec => Feed!FeedSafety
<1>1. WatcherInit => Feed!FeedInit
  <2> SUFFICES ASSUME WatcherInit, NEW i \in Ids PROVE Waiting(i) = <<>>
    BY DEF Feed!FeedInit
  <2>1. authUpdates = <<>> /\ batch = NoUpdates /\ pendingUpdates = NoUpdates
    BY DEF WatcherInit
  <2>2. Held(NoUpdates, i) = <<>>
    BY DEF Held, NoUpdates
  <2>3. Queued(<<>>, i) = <<>>
    BY NothingQueued
  <2> QED
    BY <2>1, <2>2, <2>3 DEF Waiting
<1>2. WatcherTypeOK /\ [WatcherNext]_vars => [Feed!Send \/ Feed!Show]_(Feed!feedVars)
  <2> SUFFICES ASSUME WatcherTypeOK, [WatcherNext]_vars
               PROVE  Feed!Send \/ Feed!Show \/ UNCHANGED Feed!feedVars
    OBVIOUS
  <2>1. FeedType
    BY DEF WatcherTypeOK
  <2>2. ASSUME UNCHANGED feedVars PROVE UNCHANGED Feed!feedVars
    BY <2>2 DEF feedVars, Feed!feedVars, Waiting, Queued, Held
  <2>3. ASSUME \A i \in Ids : Waiting(i)' = Waiting(i), UNCHANGED manager
        PROVE  UNCHANGED Feed!feedVars
    BY <2>3 DEF Feed!feedVars
  <2>4. CASE HandlerDispatch
    <3>1. handler.updates \in Updates
      BY DEF WatcherTypeOK, WorkType, Work
    <3> QED
      BY <2>1, <2>4, <3>1, DispatchSends DEF HandlerDispatch
  <2>5. ASSUME NEW r \in Reloaders, ReloadDispatch(r) PROVE Feed!Send
    <3>1. reload[r] \in Reloads
      BY DEF WatcherTypeOK, ReloadType
    <3>2. reload[r].updates \in Updates
      BY <3>1 DEF Reloads
    <3> QED
      BY <2>1, <2>5, <3>2, DispatchSends DEF ReloadDispatch
  <2>6. ASSUME NEW s \in Sessions, SessionDispatch(s) PROVE Feed!Send
    <3>1. s \in Ids /\ 1 \in Values /\ None \in Values
      BY DEF Ids, Values
    <3>2. [i \in {s} |-> 1] \in Updates /\ [i \in {s} |-> None] \in Updates
      BY <3>1, OneUpdate
    <3>3. PICK u \in Updates : DispatchAuthUpdates(u)
      BY <2>6, <3>2 DEF SessionDispatch
    <3> QED
      BY <2>1, <3>3, DispatchSends
  <2>7. CASE LoginDispatch
    <3>1. login.updates \in Updates
      BY DEF WatcherTypeOK, WorkType, Work
    <3> QED
      BY <2>1, <2>7, <3>1, DispatchSends DEF LoginDispatch
  <2>8. CASE FeedStep
    <3>1. CASE NextPendingBatch
      BY <2>1, <2>3, <3>1, BatchStutters DEF NextPendingBatch
    <3>2. CASE DeliverUpdate
      BY <2>1, <2>3, <3>2, DeliverStutters DEF DeliverUpdate
    <3>3. CASE ConsumeAuthUpdates
      BY <2>1, <3>3, ConsumeShows
    <3> QED
      BY <2>8, <3>1, <3>2, <3>3 DEF FeedStep
  <2>9. CASE FileChange \/ ConfigChange \/ WindowPasses
    BY <2>2, <2>9 DEF FileChange, ConfigChange, WindowPasses
  <2>10. CASE HandlerStep /\ ~HandlerDispatch
    BY <2>2, <2>10 DEF HandlerStep, HandleConfigEvent, HandleWriteEvent, HandleRemoveEvent,
                       HandleStat, HandleRead, AddOrUpdateClient, RemoveClient
  <2>11. ASSUME NEW r \in Reloaders, (ReloadStep(r) /\ ~ReloadDispatch(r)) \/ ReloadHook(r)
         PROVE  UNCHANGED feedVars
    BY <2>11 DEF ReloadStep, ReloadHook, TimerFires, LoadConfig, SetConfig, ReloadClients,
         RescanAuthDir, CommitConfigUpdate, ApplyConfigRuntime, SnapshotCoreAuths, RefreshAuthState,
         RecordConfigHash
  <2>12. ASSUME NEW s \in Sessions, Connected(s) \/ Disconnected(s) PROVE UNCHANGED feedVars
    BY <2>12 DEF Connected, Disconnected
  <2>13. CASE LoginSave \/ DispatchPersisted
    BY <2>2, <2>13 DEF LoginSave, DispatchPersisted
  <2>14. CASE UNCHANGED vars
    BY <2>2, <2>14 DEF vars
  <2> QED
    BY <2>2, <2>4, <2>5, <2>6, <2>7, <2>8, <2>9, <2>10, <2>11, <2>12, <2>13, <2>14 DEF WatcherNext
<1>3. WatcherSpec => []WatcherTypeOK
  BY WatcherTypeCorrect
<1> QED
  BY <1>1, <1>2, <1>3, PTL DEF WatcherSpec, Feed!FeedSafety

-----------------------------------------------------------------------------
(* What settles *)

(* What the manager has of a credential once the feed has drained. *)
Told(i) == IF Waiting(i) = <<>> THEN manager[i] ELSE Waiting(i)[Len(Waiting(i))]

(* The updates that a goroutine has made and not yet handed over. *)
Handing(h, w, ss, l) ==
  {u \in Updates :
     \/ h.pc = "dispatch" /\ u = h.updates
     \/ l.pc = "dispatch" /\ u = l.updates
     \/ \E r \in Reloaders : w[r].pc = "dispatch" /\ u = w[r].updates
     \/ \E s \in Sessions : \/ ss[s] = "adding" /\ u = [i \in {s} |-> 1]
                            \/ ss[s] = "removing" /\ u = [i \in {s} |-> None]}

Handed == Handing(handler, reload, session, login)

(* ... and once they are handed over, too. *)
Owed(i) == LET mine == {u \in Handed : i \in DOMAIN u}
           IN IF mine = {} THEN Told(i) ELSE (CHOOSE u \in mine : TRUE)[i]

(* The file system has reported the change and the handler has not come to *)
(* it.                                                                     *)
Noted(f, op) == \E k \in DOMAIN events : events[k].file = f /\ events[k].op = op

ReloadsIdle == \A r \in Reloaders : reload[r].pc = "idle"
SessionsIdle == \A s \in Sessions : session[s] \notin {"adding", "removing"}

SessionsType ==
  /\ session \in [Sessions -> {"off", "adding", "on", "removing", "gone"}]
  /\ runtimeAuths = {s \in Sessions : session[s] \in {"adding", "on"}}

(* One producer at a time. *)
Alone ==
  /\ handler.pc # "idle" => ReloadsIdle /\ SessionsIdle /\ login.pc = "idle"
  /\ login.pc # "idle" => ReloadsIdle /\ SessionsIdle
  /\ \A r \in Reloaders : reload[r].pc # "idle" =>
       SessionsIdle /\ \A q \in Reloaders : q # r => reload[q].pc = "idle"
  /\ \A s \in Sessions : session[s] \in {"adding", "removing"} =>
       \A t \in Sessions : t # s => session[t] \notin {"adding", "removing"}

(* What the bookkeeping of the files says of those the producer works on. *)
Booked ==
  /\ \A f \in Files : lastAuthHashes[f] # None =>
       f \in fileAuthsByPath \/ (handler.pc = "add" /\ handler.file = f)
  /\ handler.pc = "add" => handler.data = lastAuthHashes[handler.file] /\ handler.data # None
  /\ handler.pc = "remove" => lastAuthHashes[handler.file] \notin {None, disk[handler.file]}
  /\ login.pc = "hook" => lastAuthHashes[login.file] # disk[login.file]
  /\ \A r \in Reloaders : reload[r].pc = "rescan" => \A f \in Files : lastAuthHashes[f] = None

(* A reload that has read the configuration file has its last version, and *)
(* a version that is not set yet is on its way.                            *)
Versions ==
  /\ lastConfigHash # None => lastConfigHash \in Configs /\ lastConfigHash.version <= configFile.version
  /\ lastConfigHash = configFile => config = configFile
  /\ config # configFile =>
       Noted(None, "write") \/ timer \/ \E r \in Reloaders : reload[r].pc \in {"load", "set"}
  /\ \A r \in Reloaders :
       /\ reload[r].pc \in {"idle", "load", "set", "clients", "rehash"} => ~reload[r].boot
       /\ reload[r].pc = "rescan" => reload[r].boot
       /\ reload[r].pc = "set" => reload[r].cfg = configFile
       /\ reload[r].pc \in {"clients", "commit", "apply", "snapshot", "refresh", "dispatch",
                            "rehash"} /\ ~reload[r].boot => config = configFile

(* The directory a reload has read is as the watcher knows it, except for  *)
(* files whose change is still to be handled.                              *)
Snapped ==
  \A r \in Reloaders : reload[r].pc = "refresh" =>
    /\ DOMAIN reload[r].snap \subseteq Files \cup config.keys
    /\ \A k \in config.keys : k \in DOMAIN reload[r].snap /\ reload[r].snap[k] = config.version
    /\ \A f \in Files : lastAuthHashes[f] = disk[f] =>
         IF disk[f] = None THEN f \notin DOMAIN reload[r].snap
                           ELSE f \in DOMAIN reload[r].snap /\ reload[r].snap[f] = disk[f]

Due(f) ==
  IF disk[f] = None
  THEN Noted(f, "remove") \/ (handler.file = f /\ handler.pc \in {"stat", "remove"})
  ELSE Noted(f, "write") \/ (handler.file = f /\ handler.pc \in {"stat", "read"})

(* A file that is not as the watcher knows it is about to be looked at. *)
FilesDue ==
  (\A r \in Reloaders : reload[r].pc # "rescan") =>
    \A f \in Files : disk[f] # lastAuthHashes[f] => Due(f)

(* The first reload has read the directory and not brought it to the feed. *)
Starting ==
  \E r \in Reloaders : reload[r].boot /\ reload[r].pc \in {"commit", "apply", "snapshot", "refresh"}

(* The manager is bound to have what the watcher knows of the files, of    *)
(* the sessions and of the configuration.                                  *)
FilesSettle ==
  \A f \in Files :
    /\ lastAuthHashes[f] = disk[f]
    /\ disk[f] # None => ~Starting
    /\ ~(handler.pc = "add" /\ handler.file = f)
    => Owed(f) = disk[f]
AuthsSettle == \A i \in DOMAIN currentAuths : Owed(i) = currentAuths[i]
SessionsSettle == \A s \in Sessions : Owed(s) = IF s \in runtimeAuths THEN 1 ELSE None

(* The configuration that is set has not been brought to the feed. *)
Midway ==
  \E r \in Reloaders : reload[r].pc \in {"clients", "commit", "apply", "snapshot", "refresh"}
Booting ==
  \E r \in Reloaders : reload[r].boot /\ reload[r].pc \in {"rescan", "commit", "apply", "snapshot",
                                                         "refresh"}

(* A key the manager is bound to have is one the watcher knows of, so that *)
(* its end will be noticed, or one that is stranded.                       *)
KeysSettle ==
  /\ \A k \in Keys : Owed(k) # None =>
       k \in DOMAIN currentAuths \cup stranded \/ (Booting /\ k \in config.keys)
  /\ ~Midway => \A k \in Keys :
       /\ k \in config.keys => Owed(k) = config.version
       /\ Owed(k) # None => k \in config.keys \cup stranded

Settling == FilesSettle /\ AuthsSettle /\ SessionsSettle /\ KeysSettle
Following == Alone /\ Booked /\ Versions /\ Snapped /\ FilesDue /\ Settling

(* What holds for as long as no two producers have overlapped. *)
SettleInv == WatcherTypeOK /\ SessionsType /\ (~mixed => Following)

-----------------------------------------------------------------------------
(* The dispatcher, the queue and the consumer bring what they were given.  *)
LEMMA FeedKeepsTold ==
  ASSUME FeedType, FeedStep, NEW i \in Ids
  PROVE  Told(i)' = Told(i)
<1>1. CASE NextPendingBatch
  <2>1. Waiting(i)' = Waiting(i) /\ manager' = manager
    BY <1>1, BatchStutters DEF NextPendingBatch
  <2> QED
    BY <2>1 DEF Told
<1>2. CASE DeliverUpdate
  <2>1. Waiting(i)' = Waiting(i) /\ manager' = manager
    BY <1>2, DeliverStutters DEF DeliverUpdate
  <2> QED
    BY <2>1 DEF Told
<1>3. CASE ConsumeAuthUpdates
  <2>1. \/ Waiting(i)' = Waiting(i) /\ manager'[i] = manager[i]
        \/ \E k \in 1 .. Len(Waiting(i)) :
             /\ manager'[i] = Waiting(i)[k]
             /\ Waiting(i)' = SubSeq(Waiting(i), k + 1, Len(Waiting(i)))
    BY <1>3, ConsumeShows DEF Feed!Show
  <2>2. CASE Waiting(i)' = Waiting(i) /\ manager'[i] = manager[i]
    BY <2>2 DEF Told
  <2>3. ASSUME NEW k \in 1 .. Len(Waiting(i)), manager'[i] = Waiting(i)[k],
               Waiting(i)' = SubSeq(Waiting(i), k + 1, Len(Waiting(i)))
        PROVE  Told(i)' = Told(i)
    <3>1. PICK w \in Seq(Values) : w = Waiting(i)
      BY WaitingType
    <3>2. PICK n \in Nat : n = Len(w) /\ k \in 1 .. n
      BY <2>3, <3>1
    <3>3. Told(i) = w[n]
      BY <3>1, <3>2 DEF Told
    <3>4. PICK v : v = Waiting(i)' /\ v = SubSeq(w, k + 1, n)
      BY <2>3, <3>1, <3>2
    <3>5. Told(i)' = IF v = <<>> THEN w[k] ELSE v[Len(v)]
      BY <2>3, <3>1, <3>4 DEF Told
    <3>6. CASE k = n
      <4>1. v = <<>>
        BY <3>2, <3>4, <3>6
      <4> QED
        BY <3>3, <3>5, <3>6, <4>1
    <3>7. CASE k < n
      <4>1. /\ v \in Seq(Values) /\ Len(v) = n - k
            /\ v[n - k] = w[n]
        BY <3>1, <3>2, <3>4, <3>7
      <4>2. v # <<>>
        BY <3>2, <3>7, <4>1
      <4> QED
        BY <3>3, <3>5, <4>1, <4>2
    <3> QED
      BY <3>2, <3>6, <3>7
  <2> QED
    BY <2>1, <2>2, <2>3
<1> QED
  BY <1>1, <1>2, <1>3 DEF FeedStep

(* An update that is handed over is the last word on its credential.       *)
LEMMA DispatchTells ==
  ASSUME FeedType, NEW u \in Updates, DispatchAuthUpdates(u), NEW i \in Ids
  PROVE  Told(i)' = IF i \in DOMAIN u THEN u[i] ELSE Told(i)
<1>1. /\ UNCHANGED <<batch, authUpdates, manager>>
      /\ pendingUpdates' = [j \in DOMAIN pendingUpdates \cup DOMAIN u |->
                              IF j \in DOMAIN u THEN u[j] ELSE pendingUpdates[j]]
  BY DEF DispatchAuthUpdates
<1>2. PICK a \in Seq(Values) : a = Queued(authUpdates, i) \o Held(batch, i)
  BY WaitingType, ConcatProperties
<1>3. Waiting(i) = a \o Held(pendingUpdates, i) /\ Waiting(i)' = a \o Held(pendingUpdates', i)
  BY <1>1, <1>2 DEF Waiting, Queued, Held
<1>4. CASE i \notin DOMAIN u
  <2>1. Held(pendingUpdates', i) = Held(pendingUpdates, i)
    BY <1>1, <1>4 DEF Held
  <2>2. Waiting(i)' = Waiting(i)
    BY <1>3, <2>1
  <2> QED
    BY <1>1, <1>4, <2>2 DEF Told
<1>5. CASE i \in DOMAIN u
  <2>1. u[i] \in Values
    BY <1>5, UpdatesElim
  <2>2. Held(pendingUpdates', i) = <<u[i]>>
    BY <1>1, <1>5 DEF Held
  <2>3. PICK w : w = a \o <<u[i]>>
    OBVIOUS
  <2>4. w # <<>> /\ w[Len(w)] = u[i]
    BY <2>1, <2>3
  <2>5. Waiting(i)' = w
    BY <1>3, <2>2, <2>3
  <2> QED
    BY <1>5, <2>4, <2>5 DEF Told
<1> QED
  BY <1>4, <1>5

(* Without a step of the feed nothing changes for the manager.             *)
LEMMA SameTold ==
  ASSUME UNCHANGED feedVars, NEW i
  PROVE  Told(i)' = Told(i)
  BY DEF Told, Waiting, Queued, Held, feedVars

(* Nothing is begun and nothing handed over: what is owed stays.           *)
LEMMA SameOwed ==
  ASSUME Handed' = Handed, NEW i, Told(i)' = Told(i)
  PROVE  Owed(i)' = Owed(i)
<1>1. {u \in Handed : i \in DOMAIN u}' = {u \in Handed : i \in DOMAIN u}
  OBVIOUS
<1> QED
  BY <1>1 DEF Owed

(* A producer has made updates while no other has any.                     *)
LEMMA BeginOwed ==
  ASSUME NEW u, Handed = {}, Handed' = {u}, NEW i, Told(i)' = Told(i)
  PROVE  Owed(i)' = IF i \in DOMAIN u THEN u[i] ELSE Owed(i)
<1>1. {v \in Handed : i \in DOMAIN v} = {}
  OBVIOUS
<1>2. Owed(i) = Told(i)
  BY <1>1 DEF Owed
<1>3. CASE i \in DOMAIN u
  <2>1. {v \in Handed' : i \in DOMAIN v} = {u}
    BY <1>3
  <2>2. {u} # {} /\ (CHOOSE v \in {u} : TRUE) = u
    OBVIOUS
  <2> QED
    BY <1>3, <2>1, <2>2 DEF Owed
<1>4. CASE i \notin DOMAIN u
  <2>1. {v \in Handed' : i \in DOMAIN v} = {}
    BY <1>4
  <2> QED
    BY <1>2, <1>4, <2>1 DEF Owed
<1> QED
  BY <1>3, <1>4

(* The only producer hands over: nothing else is owed than before.         *)
LEMMA EndOwed ==
  ASSUME FeedType, NEW u \in Updates, Handed = {u}, Handed' = {}, DispatchAuthUpdates(u),
         NEW i \in Ids
  PROVE  Owed(i)' = Owed(i)
<1>1. {v \in Handed' : i \in DOMAIN v} = {}
  OBVIOUS
<1>2. Owed(i)' = IF i \in DOMAIN u THEN u[i] ELSE Told(i)
  BY <1>1, DispatchTells DEF Owed
<1>3. CASE i \in DOMAIN u
  <2>1. {v \in Handed : i \in DOMAIN v} = {u}
    BY <1>3
  <2>2. {u} # {} /\ (CHOOSE v \in {u} : TRUE) = u
    OBVIOUS
  <2> QED
    BY <1>2, <1>3, <2>1, <2>2 DEF Owed
<1>4. CASE i \notin DOMAIN u
  <2>1. {v \in Handed : i \in DOMAIN v} = {}
    BY <1>4
  <2> QED
    BY <1>2, <1>4, <2>1 DEF Owed
<1> QED
  BY <1>3, <1>4

(* What is handed over when only the handler ...                           *)
LEMMA HandlerHands ==
  ASSUME NEW h, NEW w, NEW ss, NEW l,
         \A r \in Reloaders : w[r].pc # "dispatch",
         \A s \in Sessions : ss[s] \notin {"adding", "removing"}, l.pc # "dispatch"
  PROVE  /\ h.pc # "dispatch" => Handing(h, w, ss, l) = {}
         /\ h.pc = "dispatch" /\ h.updates \in Updates => Handing(h, w, ss, l) = {h.updates}
  BY DEF Handing

(* ... only the login ...                                                  *)
LEMMA LoginHands ==
  ASSUME NEW h, NEW w, NEW ss, NEW l,
         \A r \in Reloaders : w[r].pc # "dispatch",
         \A s \in Sessions : ss[s] \notin {"adding", "removing"}, h.pc # "dispatch"
  PROVE  /\ l.pc # "dispatch" => Handing(h, w, ss, l) = {}
         /\ l.pc = "dispatch" /\ l.updates \in Updates => Handing(h, w, ss, l) = {l.updates}
  BY DEF Handing

(* ... only one of the reloads ...                                         *)
LEMMA ReloadHands ==
  ASSUME NEW h, NEW w, NEW ss, NEW l, NEW r \in Reloaders,
         \A q \in Reloaders : q # r => w[q].pc # "dispatch",
         \A s \in Sessions : ss[s] \notin {"adding", "removing"},
         h.pc # "dispatch", l.pc # "dispatch"
  PROVE  /\ w[r].pc # "dispatch" => Handing(h, w, ss, l) = {}
         /\ w[r].pc = "dispatch" /\ w[r].updates \in Updates =>
              Handing(h, w, ss, l) = {w[r].updates}
  BY DEF Handing

(* ... or only one of the sessions has updates.                            *)
LEMMA SessionHands ==
  ASSUME NEW h, NEW w, NEW ss, NEW l, NEW s \in Sessions,
         \A t \in Sessions : t # s => ss[t] \notin {"adding", "removing"},
         \A r \in Reloaders : w[r].pc # "dispatch", h.pc # "dispatch", l.pc # "dispatch",
         NEW v, NEW u, u = [i \in {s} |-> v]
  PROVE  /\ ss[s] \notin {"adding", "removing"} => Handing(h, w, ss, l) = {}
         /\ ss[s] = "adding" /\ v = 1 => Handing(h, w, ss, l) = {u}
         /\ ss[s] = "removing" /\ v = None => Handing(h, w, ss, l) = {u}
<1>1. s \in Ids /\ 1 \in Values /\ None \in Values
  BY DEF Ids, Values
<1>2. PICK add, del : /\ add = [i \in {s} |-> 1] /\ del = [i \in {s} |-> None]
                      /\ add \in Updates /\ del \in Updates
  BY <1>1, OneUpdate
<1>3. Handing(h, w, ss, l) =
        {x \in Updates : \/ ss[s] = "adding" /\ x = add
                         \/ ss[s] = "removing" /\ x = del}
  BY <1>2 DEF Handing
<1> QED
  BY <1>2, <1>3

(* A notification is added to those that wait.                             *)
LEMMA NotifiedNotes ==
  ASSUME events \in Seq(Events), NEW f \in Files \cup {None},
         NEW ops \in {<<"remove">>, <<"write">>, <<"remove", "write">>}, Notified(f, ops)
  PROVE  /\ \A g, op : Noted(g, op) => Noted(g, op)'
         /\ \A k \in DOMAIN ops : Noted(f, ops[k])'
<1> DEFINE new == [k \in DOMAIN ops |-> [file |-> f, op |-> ops[k]]]
<1>1. ops \in Seq({"write", "remove"})
  <2>1. <<"remove">> \in Seq({"write", "remove"}) /\ <<"write">> \in Seq({"write", "remove"})
    OBVIOUS
  <2>2. <<"remove", "write">> \in Seq({"write", "remove"})
    OBVIOUS
  <2> QED
    BY <2>1, <2>2
<1>2. PICK m \in Nat : ops \in [1 .. m -> {"write", "remove"}]
  BY <1>1, SeqDef
<1>3. \A k \in 1 .. m : [file |-> f, op |-> ops[k]] \in Events
  BY <1>2 DEF Events
<1>4. new \in [1 .. m -> Events]
  BY <1>2, <1>3
<1>5. new \in Seq(Events) /\ Len(new) = m
  BY <1>4, SeqDef
<1>6. \A k \in 1 .. m : new[k].file = f /\ new[k].op = ops[k]
  BY <1>2
<1>7. events' = events \o new
  BY DEF Notified
<1> HIDE DEF new
<1>8. PICK n \in Nat : n = Len(events) /\ DOMAIN events = 1 .. n
  OBVIOUS
<1>9. /\ DOMAIN events' = 1 .. n + m
      /\ \A k \in 1 .. n + m : events'[k] = IF k <= n THEN events[k] ELSE new[k - n]
  <2>1. PICK a \in Seq(Events), b \in Seq(Events) : a = events /\ b = new
    BY <1>5
  <2>2. /\ a \o b \in Seq(Events) /\ Len(a \o b) = n + m
        /\ \A k \in 1 .. n + m : (a \o b)[k] = IF k <= n THEN a[k] ELSE b[k - n]
    BY <1>5, <1>8, <2>1, ConcatProperties
  <2>3. DOMAIN (a \o b) = 1 .. n + m
    BY <2>2
  <2> QED
    BY <1>7, <2>1, <2>2, <2>3
<1>10. ASSUME NEW g, NEW op, Noted(g, op) PROVE Noted(g, op)'
  <2>1. PICK k \in 1 .. n : events[k].file = g /\ events[k].op = op
    BY <1>8, <1>10 DEF Noted
  <2>2. k \in 1 .. n + m /\ events'[k] = events[k]
    BY <1>9
  <2> QED
    BY <1>9, <2>1, <2>2 DEF Noted
<1>11. ASSUME NEW k \in DOMAIN ops PROVE Noted(f, ops[k])'
  <2>1. k \in 1 .. m
    BY <1>2
  <2>2. n + k \in 1 .. n + m /\ ~(n + k <= n) /\ n + k - n = k
    BY <2>1
  <2>3. events'[n + k] = new[k]
    BY <1>9, <2>2
  <2> QED
    BY <1>6, <1>9, <2>1, <2>2, <2>3 DEF Noted
<1> QED
  BY <1>10, <1>11

(* The handler takes the oldest notification and leaves the others.        *)
LEMMA TakenNotes ==
  ASSUME events \in Seq(Events), events # <<>>, events' = Tail(events),
         NEW g, NEW op, Noted(g, op), ~(Head(events).file = g /\ Head(events).op = op)
  PROVE  Noted(g, op)'
<1>1. PICK k \in DOMAIN events : events[k].file = g /\ events[k].op = op
  BY DEF Noted
<1>2. k # 1 /\ k \in 1 .. Len(events)
  BY <1>1
<1>3. k - 1 \in DOMAIN Tail(events) /\ Tail(events)[k - 1] = events[k]
  BY <1>2
<1> QED
  BY <1>1, <1>3 DEF Noted

-----------------------------------------------------------------------------
(* A step of the feed, or of nobody the invariant speaks of.               *)
LEMMA FeedFollows ==
  ASSUME Following, \A i \in Ids : Told(i)' = Told(i), WatcherTypeOK,
         UNCHANGED <<handler, reload, session, login, snapshotVars, config, lastConfigHash, timer,
                     disk, configFile, events, stranded>>
  PROVE  Following'
<1>1. Handed' = Handed
  BY DEF Handed
<1>2. \A i \in Ids : Owed(i)' = Owed(i)
  BY <1>1, SameOwed
<1>3. UNCHANGED <<lastAuthHashes, fileAuthsByPath, currentAuths, runtimeAuths>>
  BY DEF snapshotVars
<1>4. \A g, op : Noted(g, op)' <=> Noted(g, op)
  BY DEF Noted
<1>5. Starting' <=> Starting
  BY DEF Starting
<1>6. DOMAIN currentAuths \subseteq Ids /\ Files \subseteq Ids /\ Sessions \subseteq Ids /\ Keys \subseteq Ids
  BY UpdatesElim DEF WatcherTypeOK, SnapshotType, Ids
<1>7. Alone' /\ Booked' /\ Snapped'
  BY <1>3 DEF Following, Alone, Booked, Snapped, ReloadsIdle, SessionsIdle
<1>8. Versions'
  BY <1>4 DEF Following, Versions
<1>9. FilesDue'
  BY <1>3, <1>4 DEF Following, FilesDue, Due
<1>10. FilesSettle'
  BY <1>2, <1>3, <1>5, <1>6 DEF Following, Settling, FilesSettle
<1>11. AuthsSettle' /\ SessionsSettle' /\ KeysSettle'
  BY <1>2, <1>3, <1>6 DEF Following, Settling, AuthsSettle, SessionsSettle, KeysSettle, Booting, Midway
<1> QED
  BY <1>7, <1>8, <1>9, <1>10, <1>11 DEF Following, Settling

(* A file is edited: the notification is queued, and the file is not as    *)
(* the watcher knows it.                                                   *)
LEMMA FileChangeFollows ==
  ASSUME WatcherTypeOK, Following, FileChange, ~mixed'
  PROVE  Following'
<1>1. UNCHANGED <<configFile, timer, snapshotVars, configVars, handler, reload, session, login,
                  feedVars, stranded>>
  BY DEF FileChange
<1>2. UNCHANGED <<lastAuthHashes, fileAuthsByPath, currentAuths, runtimeAuths, config, lastConfigHash>>
  BY <1>1 DEF snapshotVars, configVars
<1>3. PICK f \in Files, c \in {None} \cup Contents :
        /\ c # disk[f]
        /\ disk' = [disk EXCEPT ![f] = c]
        /\ \/ c = None /\ Notified(f, <<"remove">>)
           \/ c # None /\ Notified(f, <<"write">>)
           \/ c # None /\ Notified(f, <<"remove", "write">>)
        /\ mixed' = (mixed \/ c = lastAuthHashes[f])
  BY DEF FileChange
<1>4. c # lastAuthHashes[f]
  BY <1>3
<1>5. disk \in [Files -> Hashes] /\ events \in Seq(Events)
  BY DEF WatcherTypeOK, DiskType
<1>6. disk'[f] = c /\ \A g \in Files : g # f => disk'[g] = disk[g]
  BY <1>3, <1>5
<1>7. /\ \A g, op : Noted(g, op) => Noted(g, op)'
      /\ c = None => Noted(f, "remove")'
      /\ c # None => Noted(f, "write")'
  <2>1. CASE c = None /\ Notified(f, <<"remove">>)
    <3>1. /\ \A g, op : Noted(g, op) => Noted(g, op)'
          /\ \A k \in DOMAIN <<"remove">> : Noted(f, <<"remove">>[k])'
      BY <1>5, <2>1, NotifiedNotes
    <3>2. 1 \in DOMAIN <<"remove">> /\ <<"remove">>[1] = "remove"
      OBVIOUS
    <3> QED
      BY <2>1, <3>1, <3>2
  <2>2. CASE c # None /\ Notified(f, <<"write">>)
    <3>1. /\ \A g, op : Noted(g, op) => Noted(g, op)'
          /\ \A k \in DOMAIN <<"write">> : Noted(f, <<"write">>[k])'
      BY <1>5, <2>2, NotifiedNotes
    <3>2. 1 \in DOMAIN <<"write">> /\ <<"write">>[1] = "write"
      OBVIOUS
    <3> QED
      BY <2>2, <3>1, <3>2
  <2>3. CASE c # None /\ Notified(f, <<"remove", "write">>)
    <3>1. /\ \A g, op : Noted(g, op) => Noted(g, op)'
          /\ \A k \in DOMAIN <<"remove", "write">> : Noted(f, <<"remove", "write">>[k])'
      BY <1>5, <2>3, NotifiedNotes
    <3>2. 2 \in DOMAIN <<"remove", "write">> /\ <<"remove", "write">>[2] = "write"
      OBVIOUS
    <3> QED
      BY <2>3, <3>1, <3>2
  <2> QED
    BY <1>3, <2>1, <2>2, <2>3
<1>8. Handed' = Handed
  BY <1>1 DEF Handed
<1>9. \A i : Owed(i)' = Owed(i)
  BY <1>1, <1>8, SameOwed, SameTold
<1>10. Alone'
  BY <1>1 DEF Following, Alone, ReloadsIdle, SessionsIdle
<1>11. /\ handler.pc \in {"stat", "read", "add", "remove"} => handler.file \in Files
       /\ login.pc = "hook" => login.file \in Files
  BY DEF WatcherTypeOK, WorkType
<1>12. Booked'
  BY <1>1, <1>2, <1>4, <1>6, <1>11 DEF Following, Booked
<1>13. Versions'
  BY <1>1, <1>2, <1>7 DEF Following, Versions
<1>14. Snapped'
  BY <1>1, <1>2, <1>4, <1>6 DEF Following, Snapped
<1>15. FilesDue'
  <2> SUFFICES ASSUME \A r \in Reloaders : reload[r].pc # "rescan", NEW g \in Files,
                      disk'[g] # lastAuthHashes[g]
               PROVE  Due(g)'
    BY <1>1, <1>2 DEF FilesDue
  <2>1. CASE g = f
    BY <1>6, <1>7, <2>1 DEF Due
  <2>2. CASE g # f
    <3>1. Due(g) /\ disk'[g] = disk[g]
      BY <1>6, <2>2 DEF Following, FilesDue
    <3> QED
      BY <1>1, <1>7, <3>1 DEF Due
  <2> QED
    BY <2>1, <2>2
<1>16. FilesSettle'
  BY <1>1, <1>2, <1>4, <1>6, <1>9 DEF Following, Settling, FilesSettle, Starting
<1>17. AuthsSettle' /\ SessionsSettle' /\ KeysSettle'
  BY <1>1, <1>2, <1>9 DEF Following, Settling, AuthsSettle, SessionsSettle, KeysSettle, Booting, Midway
<1> QED
  BY <1>10, <1>12, <1>13, <1>14, <1>15, <1>16, <1>17 DEF Following, Settling

(* The configuration file is edited, and no reload has read it by then.    *)
LEMMA ConfigChangeFollows ==
  ASSUME WatcherTypeOK, Following, ConfigChange, ~mixed'
  PROVE  Following'
<1>1. UNCHANGED <<disk, timer, snapshotVars, configVars, handler, reload, session, login, feedVars,
                  stranded>>
  BY DEF ConfigChange
<1>2. UNCHANGED <<lastAuthHashes, fileAuthsByPath, currentAuths, runtimeAuths, config, lastConfigHash>>
  BY <1>1 DEF snapshotVars, configVars
<1>3. /\ \E K \in SUBSET Keys : configFile' = [version |-> configFile.version + 1, keys |-> K]
      /\ Notified(None, <<"write">>)
      /\ mixed' = (mixed \/ \E r \in Reloaders : /\ reload[r].pc \notin {"idle", "load"}
                                                 /\ ~reload[r].boot)
  BY DEF ConfigChange
<1>4. \A r \in Reloaders : reload[r].pc \in {"idle", "load"} \/ reload[r].boot
  BY <1>3
<1>5. /\ events \in Seq(Events) /\ configFile.version \in Nat
      /\ configFile'.version = configFile.version + 1 /\ configFile' \in Configs
  BY <1>3 DEF WatcherTypeOK, DiskType, ReloadType, Configs
<1>6. (\A g, op : Noted(g, op) => Noted(g, op)') /\ Noted(None, "write")'
  <2>1. /\ \A g, op : Noted(g, op) => Noted(g, op)'
        /\ \A k \in DOMAIN <<"write">> : Noted(None, <<"write">>[k])'
    BY <1>3, <1>5, NotifiedNotes
  <2>2. 1 \in DOMAIN <<"write">> /\ <<"write">>[1] = "write"
    OBVIOUS
  <2> QED
    BY <2>1, <2>2
<1>7. Handed' = Handed
  BY <1>1 DEF Handed
<1>8. \A i : Owed(i)' = Owed(i)
  BY <1>1, <1>7, SameOwed, SameTold
<1>9. Alone' /\ Booked' /\ Snapped'
  BY <1>1, <1>2 DEF Following, Alone, Booked, Snapped, ReloadsIdle, SessionsIdle
<1>10. Versions'
  <2>1. lastConfigHash # None => lastConfigHash \in Configs /\ lastConfigHash.version <= configFile.version
    BY DEF Following, Versions
  <2>2. lastConfigHash' # configFile'
    BY <1>2, <1>5, <2>1, WatcherAssumption DEF Configs
  <2>3. lastConfigHash' # None => /\ lastConfigHash' \in Configs
                                  /\ lastConfigHash'.version <= configFile'.version
    BY <1>2, <1>5, <2>1 DEF Configs
  <2>4. ASSUME NEW r \in Reloaders
        PROVE  /\ reload[r].pc \in {"idle", "load", "set", "clients", "rehash"} => ~reload[r].boot
               /\ reload[r].pc = "rescan" => reload[r].boot
               /\ reload[r].pc # "set"
               /\ ~(reload[r].pc \in {"clients", "commit", "apply", "snapshot", "refresh",
                                      "dispatch", "rehash"} /\ ~reload[r].boot)
    BY <1>4 DEF Following, Versions
  <2> QED
    BY <1>1, <1>6, <2>2, <2>3, <2>4 DEF Versions
<1>11. FilesDue'
  BY <1>1, <1>2, <1>6 DEF Following, FilesDue, Due
<1>12. Settling'
  BY <1>1, <1>2, <1>8 DEF Following, Settling, FilesSettle, Starting, AuthsSettle, SessionsSettle,
                          KeysSettle, Booting, Midway
<1> QED
  BY <1>9, <1>10, <1>11, <1>12 DEF Following

-----------------------------------------------------------------------------
(* Nobody but the handler is at work. *)
HandlerOnly == ReloadsIdle /\ SessionsIdle /\ login.pc = "idle"

(* The handler takes a notification and starts nothing: one of the         *)
(* configuration, or of a removal that is noise.                           *)
LEMMA EventDropped ==
  ASSUME WatcherTypeOK, Following, ~mixed', HandleConfigEvent \/ HandleRemoveEvent,
         handler' = handler
  PROVE  Following'
<1>1. /\ events \in Seq(Events) /\ events # <<>> /\ events' = Tail(events)
      /\ UNCHANGED <<disk, configFile, snapshotVars, configVars, reload, session, login, feedVars,
                     stranded>>
  BY DEF WatcherTypeOK, DiskType, HandleConfigEvent, HandleRemoveEvent
<1>2. UNCHANGED <<lastAuthHashes, fileAuthsByPath, currentAuths, runtimeAuths, config, lastConfigHash>>
  BY <1>1 DEF snapshotVars, configVars
<1>3. \A g \in Files : /\ Noted(g, "write") => Noted(g, "write")'
                       /\ disk[g] = None /\ Noted(g, "remove") => Noted(g, "remove")'
  <2>1. CASE HandleConfigEvent
    <3>1. Head(events).file = None /\ \A g \in Files : g # None
      BY <2>1, WatcherAssumption DEF HandleConfigEvent
    <3> QED
      BY <1>1, <3>1, TakenNotes
  <2>2. CASE HandleRemoveEvent
    <3>1. Head(events).op = "remove"
      BY <2>2 DEF HandleRemoveEvent
    <3>2. \/ mixed' = (mixed \/ disk[Head(events).file] = None)
          \/ handler' = [Resting EXCEPT !.pc = "stat", !.file = Head(events).file]
      BY <2>2 DEF HandleRemoveEvent
    <3>3. handler'.pc # "stat"
      BY <2>2 DEF HandleRemoveEvent
    <3>4. disk[Head(events).file] # None
      BY <3>2, <3>3 DEF Resting
    <3> QED
      BY <1>1, <3>1, <3>4, TakenNotes
  <2> QED
    BY <2>1, <2>2
<1>4. timer' \/ (timer' = timer /\ (Noted(None, "write") => Noted(None, "write")'))
  <2>1. CASE HandleConfigEvent
    BY <2>1 DEF HandleConfigEvent
  <2>2. CASE HandleRemoveEvent
    <3>1. Head(events).op = "remove" /\ timer' = timer
      BY <2>2 DEF HandleRemoveEvent
    <3> QED
      BY <1>1, <3>1, TakenNotes
  <2> QED
    BY <2>1, <2>2
<1>5. Handed' = Handed
  BY <1>1 DEF Handed
<1>6. \A i : Owed(i)' = Owed(i)
  BY <1>1, <1>5, SameOwed, SameTold
<1>7. Alone' /\ Booked' /\ Snapped'
  BY <1>1, <1>2 DEF Following, Alone, Booked, Snapped, ReloadsIdle, SessionsIdle
<1>8. Versions'
  BY <1>1, <1>2, <1>4 DEF Following, Versions
<1>9. FilesDue'
  BY <1>1, <1>2, <1>3 DEF Following, FilesDue, Due
<1>10. Settling'
  BY <1>1, <1>2, <1>6 DEF Following, Settling, FilesSettle, Starting, AuthsSettle, SessionsSettle,
                          KeysSettle, Booting, Midway
<1> QED
  BY <1>7, <1>8, <1>9, <1>10 DEF Following

(* While the handler is at work, all the others are idle.                  *)
LEMMA HandlerWorks ==
  ASSUME Following, HandlerStep, ~mixed', ~UNCHANGED handler
  PROVE  HandlerOnly
<1>1. CASE handler.pc # "idle"
  BY <1>1 DEF Following, Alone, HandlerOnly
<1>2. CASE handler.pc = "idle"
  <2>1. HandleWriteEvent \/ HandleRemoveEvent
    BY <1>2 DEF HandlerStep, HandleConfigEvent, HandleStat, HandleRead, AddOrUpdateClient, RemoveClient,
                HandlerDispatch
  <2>2. mixed' = (mixed \/ Producing)
    BY <2>1 DEF HandleWriteEvent, HandleRemoveEvent
  <2>3. ~Producing
    BY <2>2
  <2> QED
    BY <2>3 DEF Producing, HandlerOnly, ReloadsIdle, SessionsIdle
<1> QED
  BY <1>1, <1>2

(* What the handler leaves alone by the variables it does not write.       *)
LEMMA HandlerFrame ==
  ASSUME Following, HandlerOnly, UNCHANGED <<reload, session, login>>,
         UNCHANGED <<config, lastConfigHash, configFile, timer>>,
         Noted(None, "write") => Noted(None, "write")',
         Booked', FilesDue', Settling'
  PROVE  Following'
<1>1. Alone' /\ Snapped'
  BY DEF HandlerOnly, Alone, Snapped, ReloadsIdle, SessionsIdle
<1>2. Versions'
  BY DEF Following, Versions
<1> QED
  BY <1>1, <1>2 DEF Following

(* The handler begins a hand-over, or has none.                            *)
LEMMA HandlerBegins ==
  ASSUME HandlerOnly, handler.pc # "dispatch", NEW u \in Updates, handler' = HandOver(u),
         UNCHANGED <<reload, session, login, feedVars>>, NEW i
  PROVE  Owed(i)' = IF i \in DOMAIN u THEN u[i] ELSE Owed(i)
<1>1. Handed = {} /\ Handed' = Handing(handler', reload, session, login)
  BY HandlerHands DEF Handed, HandlerOnly, ReloadsIdle, SessionsIdle
<1>2. Told(i)' = Told(i)
  BY SameTold
<1>3. CASE u = NoUpdates
  <2>1. handler'.pc # "dispatch" /\ DOMAIN u = {}
    BY <1>3 DEF HandOver, Resting, NoUpdates
  <2>2. Handed' = {}
    BY <1>1, <2>1, HandlerHands DEF HandlerOnly, ReloadsIdle, SessionsIdle
  <2> QED
    BY <1>1, <1>2, <2>1, <2>2, SameOwed
<1>4. CASE u # NoUpdates
  <2>1. handler'.pc = "dispatch" /\ handler'.updates = u
    BY <1>4 DEF HandOver, Resting
  <2>2. Handed' = {u}
    BY <1>1, <2>1, HandlerHands DEF HandlerOnly, ReloadsIdle, SessionsIdle
  <2> QED
    BY <1>1, <1>2, <2>2, BeginOwed
<1> QED
  BY <1>3, <1>4

(* The handler takes up a notification, looks whether the file is there,   *)
(* and reads it.                                                           *)
LEMMA HandlerReads ==
  ASSUME WatcherTypeOK, Following, HandlerOnly, ~UNCHANGED handler,
         HandleWriteEvent \/ HandleRemoveEvent \/ HandleStat \/ HandleRead
  PROVE  Following'
<1>1. /\ UNCHANGED <<disk, configFile, timer, fileAuthsByPath, currentAuths, runtimeAuths, configVars,
                     reload, session, login, stranded, feedVars>>
      /\ handler.pc \in {"idle", "stat", "read"} /\ handler'.pc # "dispatch"
  <2>1. UNCHANGED <<disk, configFile, timer, fileAuthsByPath, currentAuths, runtimeAuths, configVars,
                    reload, session, login, stranded, feedVars>>
    BY DEF HandleWriteEvent, HandleRemoveEvent, HandleStat, HandleRead, diskVars, snapshotVars
  <2>2. handler \in Work
    BY DEF WatcherTypeOK, WorkType
  <2>3. handler.pc \in {"idle", "stat", "read"}
    BY DEF HandleWriteEvent, HandleRemoveEvent, HandleStat, HandleRead
  <2>4. CASE HandleWriteEvent \/ HandleRemoveEvent
    BY <2>1, <2>3, <2>4 DEF HandleWriteEvent, HandleRemoveEvent, Resting
  <2>5. CASE HandleStat
    BY <2>1, <2>2, <2>3, <2>5 DEF HandleStat, Resting, Work
  <2>6. CASE HandleRead
    <3>1. PICK c : c = disk[handler.file]
      OBVIOUS
    <3>2. handler' = Resting \/ handler' = [handler EXCEPT !.pc = "add", !.data = c]
      BY <2>6, <3>1 DEF HandleRead
    <3>3. Resting.pc = "idle" /\ [handler EXCEPT !.pc = "add", !.data = c].pc = "add"
      BY <2>2 DEF Resting, Work
    <3> QED
      BY <2>1, <2>3, <3>2, <3>3
  <2> QED
    BY <2>1, <2>3, <2>4, <2>5, <2>6
<1>2. UNCHANGED <<config, lastConfigHash>>
  BY <1>1 DEF configVars
<1>3. disk \in [Files -> Hashes] /\ lastAuthHashes \in [Files -> Hashes] /\ events \in Seq(Events)
  BY DEF WatcherTypeOK, DiskType, SnapshotType
<1>4. Handed = {} /\ Handed' = {}
  BY <1>1, HandlerHands DEF Handed, HandlerOnly, ReloadsIdle, SessionsIdle
<1>5. \A i : Owed(i)' = Owed(i)
  BY <1>1, <1>4, SameOwed, SameTold
<1>6. \A r \in Reloaders : reload[r].pc = "idle"
  BY DEF HandlerOnly, ReloadsIdle
<1>7. login.pc = "idle"
  BY DEF HandlerOnly
<1>8. AuthsSettle' /\ SessionsSettle' /\ KeysSettle'
  BY <1>1, <1>2, <1>5 DEF Following, Settling, AuthsSettle, SessionsSettle, KeysSettle, Booting, Midway
<1>9. /\ \A f \in Files : lastAuthHashes[f] # None => f \in fileAuthsByPath
      /\ \A f \in Files : disk[f] # lastAuthHashes[f] => Due(f)
      /\ \A f \in Files : lastAuthHashes[f] = disk[f] => Owed(f) = disk[f]
  BY <1>1, <1>6 DEF Following, Booked, FilesDue, Settling, FilesSettle, Starting
<1>10. CASE HandleWriteEvent \/ HandleRemoveEvent
  <2>1. PICK e : e = Head(events)
    OBVIOUS
  <2>2. e \in Events /\ e.file \in Files /\ events # <<>> /\ events' = Tail(events)
    BY <1>3, <1>10, <2>1, NextEvent DEF HandleWriteEvent, HandleRemoveEvent, Events
  <2>3. /\ handler.pc = "idle" /\ UNCHANGED lastAuthHashes
        /\ handler'.file = e.file
        /\ \/ e.op = "write" /\ handler'.pc = "read"
           \/ e.op = "remove" /\ handler'.pc = "stat"
    BY <1>10, <2>1 DEF HandleWriteEvent, HandleRemoveEvent, snapshotVars, Resting
  <2>4. \A g, op : Noted(g, op) /\ ~(g = e.file /\ op = e.op) => Noted(g, op)'
    BY <1>3, <2>1, <2>2, TakenNotes
  <2>5. Booked'
    BY <1>1, <1>6, <1>7, <1>9, <2>3 DEF Booked
  <2>6. FilesDue'
    BY <1>1, <1>9, <2>3, <2>4 DEF FilesDue, Due
  <2>7. FilesSettle'
    BY <1>1, <1>5, <1>9, <2>3 DEF FilesSettle
  <2>8. Noted(None, "write") => Noted(None, "write")'
    BY <2>2, <2>4, WatcherAssumption
  <2> QED
    BY <1>1, <1>2, <1>8, <2>5, <2>6, <2>7, <2>8, HandlerFrame DEF Settling
<1>11. CASE HandleStat
  <2>1. /\ handler.pc = "stat" /\ handler.file \in Files
        /\ UNCHANGED <<events, lastAuthHashes>>
        /\ \/ disk[handler.file] # None /\ handler'.pc = "read" /\ handler'.file = handler.file
           \/ disk[handler.file] = None /\ lastAuthHashes[handler.file] = None /\ handler'.pc = "idle"
           \/ /\ disk[handler.file] = None /\ lastAuthHashes[handler.file] # None
              /\ handler'.pc = "remove" /\ handler'.file = handler.file
    BY <1>11 DEF HandleStat, diskVars, snapshotVars, Resting, WatcherTypeOK, WorkType, Work
  <2>2. \A g, op : Noted(g, op)' <=> Noted(g, op)
    BY <2>1 DEF Noted
  <2>3. Booked'
    BY <1>1, <1>6, <1>7, <1>9, <2>1 DEF Booked
  <2>4. FilesDue'
    BY <1>1, <1>9, <2>1, <2>2 DEF FilesDue, Due
  <2>5. FilesSettle'
    BY <1>1, <1>5, <1>9, <2>1 DEF FilesSettle
  <2> QED
    BY <1>1, <1>2, <1>8, <2>2, <2>3, <2>4, <2>5, HandlerFrame DEF Settling
<1>12. CASE HandleRead
  <2>1. /\ handler.pc = "read" /\ handler.file \in Files /\ UNCHANGED events
        /\ \/ /\ disk[handler.file] \in {None, lastAuthHashes[handler.file]}
              /\ handler'.pc = "idle" /\ UNCHANGED lastAuthHashes
           \/ /\ disk[handler.file] \notin {None, lastAuthHashes[handler.file]}
              /\ lastAuthHashes' = [lastAuthHashes EXCEPT ![handler.file] = disk[handler.file]]
              /\ handler'.pc = "add" /\ handler'.data = disk[handler.file]
              /\ handler'.file = handler.file
    <3>1. handler \in Work /\ handler.pc = "read" /\ handler.file \in Files
      BY <1>12 DEF HandleRead, WatcherTypeOK, WorkType
    <3>2. UNCHANGED events
      BY <1>12 DEF HandleRead, diskVars
    <3>3. PICK c : c = disk[handler.file]
      OBVIOUS
    <3>4. \/ c \in {None, lastAuthHashes[handler.file]} /\ handler' = Resting /\ UNCHANGED lastAuthHashes
          \/ /\ c \notin {None, lastAuthHashes[handler.file]}
             /\ lastAuthHashes' = [lastAuthHashes EXCEPT ![handler.file] = c]
             /\ handler' = [handler EXCEPT !.pc = "add", !.data = c]
      BY <1>12, <3>3 DEF HandleRead
    <3>5. /\ Resting.pc = "idle"
          /\ handler' = [handler EXCEPT !.pc = "add", !.data = c] =>
               handler'.pc = "add" /\ handler'.data = c /\ handler'.file = handler.file
      BY <3>1 DEF Resting, Work
    <3> QED
      BY <3>1, <3>2, <3>3, <3>4, <3>5
  <2>2. \A g, op : Noted(g, op)' <=> Noted(g, op)
    BY <2>1 DEF Noted
  <2>3. Booked'
    <3>1. ASSUME NEW f \in Files, lastAuthHashes'[f] # None
          PROVE  f \in fileAuthsByPath \/ (handler'.pc = "add" /\ handler'.file = f)
      BY <1>3, <1>9, <2>1, <3>1
    <3>2. handler'.pc = "add" => /\ handler'.data = lastAuthHashes'[handler'.file]
                                 /\ handler'.data # None
      BY <1>3, <2>1
    <3>3. handler'.pc # "remove"
      BY <2>1
    <3> QED
      BY <1>1, <1>6, <1>7, <3>1, <3>2, <3>3 DEF Booked
  <2>4. FilesDue'
    <3> SUFFICES ASSUME NEW f \in Files, disk[f] # lastAuthHashes'[f] PROVE Due(f)'
      BY <1>1 DEF FilesDue
    <3>1. disk[f] # lastAuthHashes[f]
      BY <1>3, <2>1
    <3>2. Due(f)
      BY <1>9, <3>1
    <3> QED
      BY <1>1, <1>3, <2>1, <2>2, <3>1, <3>2 DEF Due
  <2>5. FilesSettle'
    BY <1>1, <1>3, <1>5, <1>9, <2>1 DEF FilesSettle
  <2> QED
    BY <1>1, <1>2, <1>8, <2>2, <2>3, <2>4, <2>5, HandlerFrame DEF Settling
<1> QED
  BY <1>10, <1>11, <1>12

(* The credential of a file enters the snapshot and is handed over.        *)
LEMMA HandlerAdds ==
  ASSUME WatcherTypeOK, Following, HandlerOnly, AddOrUpdateClient
  PROVE  Following'
<1>1. PICK f \in Files, c \in Hashes : f = handler.file /\ c = handler.data
  BY DEF AddOrUpdateClient, WatcherTypeOK, WorkType, Work
<1>2. PICK u : u = PerPathUpdates(f, TRUE, c)
  OBVIOUS
<1>3. /\ handler.pc = "add" /\ handler' = HandOver(u)
      /\ fileAuthsByPath' = fileAuthsByPath \cup {f}
      /\ currentAuths' = With(currentAuths, f, c)
      /\ UNCHANGED <<diskVars, timer, lastAuthHashes, runtimeAuths, configVars, reload, session, login,
                     feedVars, stranded>>
  BY <1>1, <1>2 DEF AddOrUpdateClient
<1>4. /\ c = lastAuthHashes[f] /\ c # None
      /\ \A g \in Files : g # f /\ lastAuthHashes[g] # None => g \in fileAuthsByPath
  BY <1>1, <1>3 DEF Following, Booked
<1>5. UNCHANGED <<disk, configFile, events, config, lastConfigHash>>
  BY <1>3 DEF diskVars, configVars
<1>6. u \in Updates
  BY <1>2, PerPathType
<1>7. \A i : Owed(i)' = IF i \in DOMAIN u THEN u[i] ELSE Owed(i)
  BY <1>3, <1>6, HandlerBegins
<1>8. Owed(f)' = c /\ \A i : i # f => Owed(i)' = Owed(i)
  <2>1. CASE f \in DOMAIN currentAuths /\ currentAuths[f] = c
    <3>1. DOMAIN u = {}
      BY <1>2, <1>4, <2>1 DEF PerPathUpdates, NoUpdates
    <3>2. Owed(f) = c
      BY <2>1 DEF Following, Settling, AuthsSettle
    <3> QED
      BY <1>7, <3>1, <3>2
  <2>2. CASE ~(f \in DOMAIN currentAuths /\ currentAuths[f] = c)
    <3>1. u = [i \in {f} |-> c]
      BY <1>2, <1>4, <2>2 DEF PerPathUpdates
    <3>2. DOMAIN u = {f} /\ u[f] = c
      BY <3>1
    <3> QED
      BY <1>7, <3>2
  <2> QED
    BY <2>1, <2>2
<1>9. handler'.pc \in {"idle", "dispatch"}
  BY <1>3 DEF HandOver, Resting
<1>10. \A r \in Reloaders : reload[r].pc = "idle"
  BY DEF HandlerOnly, ReloadsIdle
<1>11. \A g, op : Noted(g, op)' <=> Noted(g, op)
  BY <1>5 DEF Noted
<1>12. Booked'
  BY <1>3, <1>4, <1>9, <1>10 DEF Booked, HandlerOnly
<1>13. FilesDue'
  BY <1>3, <1>5, <1>9, <1>10, <1>11 DEF Following, FilesDue, Due
<1>14. FilesSettle'
  BY <1>1, <1>3, <1>4, <1>5, <1>8, <1>10 DEF Following, Settling, FilesSettle, Starting
<1>15. AuthsSettle'
  BY <1>3, <1>8 DEF Following, Settling, AuthsSettle, With
<1>16. SessionsSettle'
  BY <1>3, <1>5, <1>8, WatcherAssumption DEF Following, Settling, SessionsSettle
<1>17. KeysSettle'
  <2>1. \A k \in Keys : Owed(k)' = Owed(k) /\ (k \in DOMAIN currentAuths => k \in DOMAIN currentAuths')
    BY <1>3, <1>8, WatcherAssumption DEF With
  <2> QED
    BY <1>3, <1>5, <2>1 DEF Following, Settling, KeysSettle, Booting, Midway
<1> QED
  BY <1>3, <1>5, <1>11, <1>12, <1>13, <1>14, <1>15, <1>16, <1>17, HandlerFrame DEF Settling

(* ... or leaves it, and its removal is handed over.                       *)
LEMMA HandlerRemoves ==
  ASSUME WatcherTypeOK, Following, HandlerOnly, RemoveClient
  PROVE  Following'
<1> DEFINE f == handler.file
           u == [i \in {f} |-> None]
<1>1. handler.pc = "remove" /\ f \in Files /\ lastAuthHashes \in [Files -> Hashes]
  BY DEF RemoveClient, WatcherTypeOK, WorkType, SnapshotType
<1>2. /\ lastAuthHashes[f] # None /\ lastAuthHashes[f] # disk[f]
      /\ \A g \in Files : lastAuthHashes[g] # None => g \in fileAuthsByPath
  BY <1>1 DEF Following, Booked
<1>3. f \in fileAuthsByPath
  BY <1>1, <1>2
<1>4. /\ handler' = HandOver(u)
      /\ lastAuthHashes' = [lastAuthHashes EXCEPT ![f] = None]
      /\ fileAuthsByPath' = fileAuthsByPath \ {f}
      /\ currentAuths' = Without(currentAuths, {f})
      /\ UNCHANGED <<diskVars, timer, runtimeAuths, configVars, reload, session, login, feedVars,
                     stranded>>
  BY <1>3 DEF RemoveClient, PerPathUpdates
<1>5. UNCHANGED <<disk, configFile, events, config, lastConfigHash>>
  BY <1>4 DEF diskVars, configVars
<1>6. u \in Updates
  <2>1. f \in Ids /\ None \in Values
    BY <1>1 DEF Ids, Values
  <2> QED
    BY <2>1, OneUpdate
<1>7. \A i : Owed(i)' = IF i = f THEN None ELSE Owed(i)
  <2>1. DOMAIN u = {f} /\ u[f] = None
    OBVIOUS
  <2> HIDE DEF u
  <2> QED
    BY <1>1, <1>4, <1>6, <2>1, HandlerBegins
<1>8. handler'.pc \in {"idle", "dispatch"}
  BY <1>4 DEF HandOver, Resting
<1> HIDE DEF u
<1>9. \A r \in Reloaders : reload[r].pc = "idle"
  BY DEF HandlerOnly, ReloadsIdle
<1>10. \A g, op : Noted(g, op)' <=> Noted(g, op)
  BY <1>5 DEF Noted
<1>11. lastAuthHashes'[f] = None /\ \A g \in Files : g # f => lastAuthHashes'[g] = lastAuthHashes[g]
  BY <1>1, <1>4
<1>12. Booked'
  BY <1>2, <1>4, <1>8, <1>9, <1>11 DEF Booked, HandlerOnly
<1>13. FilesDue'
  <2> SUFFICES ASSUME NEW g \in Files, disk[g] # lastAuthHashes'[g] PROVE Due(g)'
    BY <1>5 DEF FilesDue
  <2>1. Due(g)
    BY <1>2, <1>9, <1>11 DEF Following, FilesDue
  <2> QED
    BY <1>1, <1>5, <1>10, <1>11, <2>1 DEF Due
<1>14. FilesSettle'
  BY <1>1, <1>4, <1>5, <1>7, <1>9, <1>11 DEF Following, Settling, FilesSettle, Starting
<1>15. AuthsSettle'
  BY <1>4, <1>7 DEF Following, Settling, AuthsSettle, Without
<1>16. SessionsSettle'
  BY <1>1, <1>4, <1>5, <1>7, WatcherAssumption DEF Following, Settling, SessionsSettle
<1>17. KeysSettle'
  <2>1. \A k \in Keys : Owed(k)' = Owed(k) /\ (k \in DOMAIN currentAuths => k \in DOMAIN currentAuths')
    BY <1>1, <1>4, <1>7, WatcherAssumption DEF Without
  <2> QED
    BY <1>4, <1>5, <2>1 DEF Following, Settling, KeysSettle, Booting, Midway
<1> QED
  BY <1>4, <1>5, <1>10, <1>12, <1>13, <1>14, <1>15, <1>16, <1>17, HandlerFrame DEF Settling

(* The handler hands over.                                                 *)
LEMMA HandlerDispatches ==
  ASSUME WatcherTypeOK, Following, HandlerOnly, HandlerDispatch
  PROVE  Following'
<1>1. /\ handler.pc = "dispatch" /\ handler'.pc = "idle" /\ DispatchAuthUpdates(handler.updates)
      /\ UNCHANGED <<diskVars, timer, snapshotVars, configVars, reload, session, login, stranded>>
  BY DEF HandlerDispatch, Resting
<1>2. UNCHANGED <<disk, configFile, events, config, lastConfigHash, lastAuthHashes, fileAuthsByPath,
                  currentAuths, runtimeAuths>>
  BY <1>1 DEF diskVars, configVars, snapshotVars
<1>3. handler.updates \in Updates /\ FeedType /\ DOMAIN currentAuths \subseteq Ids
  BY UpdatesElim DEF WatcherTypeOK, WorkType, Work, SnapshotType
<1>4. Handed = {handler.updates} /\ Handed' = {}
  BY <1>1, <1>3, HandlerHands DEF Handed, HandlerOnly, ReloadsIdle, SessionsIdle
<1>5. \A i \in Ids : Owed(i)' = Owed(i)
  BY <1>1, <1>3, <1>4, EndOwed
<1>6. Files \subseteq Ids /\ Sessions \subseteq Ids /\ Keys \subseteq Ids
  BY DEF Ids
<1>7. \A r \in Reloaders : reload[r].pc = "idle"
  BY DEF HandlerOnly, ReloadsIdle
<1>8. \A g, op : Noted(g, op)' <=> Noted(g, op)
  BY <1>2 DEF Noted
<1>9. Booked'
  BY <1>1, <1>2, <1>7 DEF Following, Booked
<1>10. FilesDue'
  BY <1>1, <1>2, <1>7, <1>8 DEF Following, FilesDue, Due
<1>11. FilesSettle'
  BY <1>1, <1>2, <1>5, <1>6, <1>7 DEF Following, Settling, FilesSettle, Starting
<1>12. AuthsSettle' /\ SessionsSettle' /\ KeysSettle'
  BY <1>1, <1>2, <1>3, <1>5, <1>6
     DEF Following, Settling, AuthsSettle, SessionsSettle, KeysSettle, Booting, Midway
<1> QED
  BY <1>1, <1>2, <1>8, <1>9, <1>10, <1>11, <1>12, HandlerFrame DEF Settling

(* The goroutine of processEvents.                                         *)
LEMMA HandlerFollows ==
  ASSUME WatcherTypeOK, Following, HandlerStep, ~mixed'
  PROVE  Following'
<1>1. CASE HandleConfigEvent
  <2>1. handler' = handler
    BY <1>1 DEF HandleConfigEvent
  <2> QED
    BY <1>1, <2>1, EventDropped
<1>2. CASE HandleRemoveEvent /\ handler' = handler
  BY <1>2, EventDropped
<1>3. CASE ~HandleConfigEvent /\ ~(HandleRemoveEvent /\ handler' = handler)
  <2>1. ~UNCHANGED handler
    <3>1. handler \in Work
      BY DEF WatcherTypeOK, WorkType
    <3>2. CASE HandleWriteEvent \/ HandleRemoveEvent
      BY <1>3, <3>2 DEF HandleWriteEvent, HandleRemoveEvent, Resting
    <3>3. CASE HandleStat
      <4>1. \/ handler' = Resting
            \/ handler' = [handler EXCEPT !.pc = "read"]
            \/ handler' = [handler EXCEPT !.pc = "remove"]
        BY <3>3 DEF HandleStat
      <4>2. /\ Resting.pc = "idle" /\ [handler EXCEPT !.pc = "read"].pc = "read"
            /\ [handler EXCEPT !.pc = "remove"].pc = "remove"
        BY <3>1 DEF Resting, Work
      <4> QED
        BY <3>3, <4>1, <4>2 DEF HandleStat
    <3>4. CASE HandleRead
      <4>1. PICK c : c = disk[handler.file]
        OBVIOUS
      <4>2. handler' = Resting \/ handler' = [handler EXCEPT !.pc = "add", !.data = c]
        BY <3>4, <4>1 DEF HandleRead
      <4>3. Resting.pc = "idle" /\ [handler EXCEPT !.pc = "add", !.data = c].pc = "add"
        BY <3>1 DEF Resting, Work
      <4> QED
        BY <3>4, <4>2, <4>3 DEF HandleRead
    <3>5. CASE AddOrUpdateClient \/ RemoveClient
      <4>1. PICK u : handler' = HandOver(u)
        BY <3>5 DEF AddOrUpdateClient, RemoveClient
      <4>2. handler'.pc \in {"idle", "dispatch"}
        BY <4>1 DEF HandOver, Resting
      <4> QED
        BY <3>5, <4>2 DEF AddOrUpdateClient, RemoveClient
    <3>6. CASE HandlerDispatch
      BY <3>6 DEF HandlerDispatch, Resting
    <3> QED
      BY <1>3, <3>2, <3>3, <3>4, <3>5, <3>6 DEF HandlerStep
  <2>2. HandlerOnly
    BY <2>1, HandlerWorks
  <2> QED
    BY <1>3, <2>1, <2>2, HandlerReads, HandlerAdds, HandlerRemoves, HandlerDispatches DEF HandlerStep
<1> QED
  BY <1>1, <1>2, <1>3

-----------------------------------------------------------------------------
(* Nobody but one reload is at work. *)
ReloadOnly(r) ==
  /\ handler.pc = "idle" /\ login.pc = "idle" /\ SessionsIdle
  /\ \A q \in Reloaders : q # r => reload[q].pc = "idle"

(* A reload that is at work is the only producer.                          *)
LEMMA ReloadWorks ==
  ASSUME Following, NEW r \in Reloaders, reload[r].pc # "idle"
  PROVE  ReloadOnly(r)
  BY DEF Following, Alone, ReloadOnly, ReloadsIdle

(* A reload moves on without a hand-over; it may forget credentials.       *)
LEMMA ReloadMoves ==
  ASSUME WatcherTypeOK, Following, NEW r \in Reloaders, ReloadOnly(r),
         UNCHANGED <<handler, session, login, disk, events, timer, configFile, lastAuthHashes,
                     fileAuthsByPath, runtimeAuths, feedVars>>,
         \A i \in DOMAIN currentAuths' : i \in DOMAIN currentAuths /\ currentAuths'[i] = currentAuths[i],
         \A q \in Reloaders : q # r => reload'[q] = reload[q],
         reload[r].pc \notin {"rescan", "dispatch"}, reload'[r].pc \notin {"rescan", "dispatch"},
         reload'[r].boot = reload[r].boot,
         reload[r].boot => reload'[r].pc \in {"commit", "apply", "snapshot", "refresh"},
         Versions', Snapped', KeysSettle'
  PROVE  Following'
<1>1. Handed = {} /\ Handed' = {}
  BY ReloadHands DEF Handed, ReloadOnly, SessionsIdle
<1>2. \A i : Owed(i)' = Owed(i)
  BY <1>1, SameOwed, SameTold
<1>3. Alone'
  BY DEF ReloadOnly, Alone, SessionsIdle, ReloadsIdle
<1>4. Booked'
  BY DEF Following, Booked, ReloadOnly
<1>5. \A g, op : Noted(g, op)' <=> Noted(g, op)
  BY DEF Noted
<1>6. FilesDue'
  BY <1>5 DEF Following, FilesDue, Due, ReloadOnly
<1>7. Starting => Starting'
  BY DEF Starting, ReloadOnly
<1>8. FilesSettle'
  BY <1>2, <1>7 DEF Following, Settling, FilesSettle
<1>9. AuthsSettle' /\ SessionsSettle'
  BY <1>2 DEF Following, Settling, AuthsSettle, SessionsSettle
<1> QED
  BY <1>3, <1>4, <1>6, <1>8, <1>9 DEF Following, Settling

(* A reload is started, or there is nothing to reload.                     *)
LEMMA ReloadStarts ==
  ASSUME WatcherTypeOK, Following, NEW r \in Reloaders, TimerFires(r) \/ ReloadHook(r), ~mixed'
  PROVE  Following'
<1>1. /\ UNCHANGED <<disk, configFile, events, snapshotVars, configVars, handler, session, login,
                     feedVars, stranded>>
      /\ reload[r].pc = "idle"
      /\ ReloadConfigIfChanged(r)
      /\ timer' = timer \/ ~timer'
  BY DEF TimerFires, ReloadHook, NewGoroutine, diskVars
<1>2. UNCHANGED <<lastAuthHashes, fileAuthsByPath, currentAuths, runtimeAuths, config, lastConfigHash>>
  BY <1>1 DEF snapshotVars, configVars
<1>3. reload \in [Reloaders -> Reloads]
  BY DEF WatcherTypeOK, ReloadType
<1>4. CASE configFile = lastConfigHash /\ UNCHANGED <<reload, mixed>>
  <2>1. Handed' = Handed
    BY <1>1, <1>4 DEF Handed
  <2>2. \A i : Owed(i)' = Owed(i)
    BY <1>1, <2>1, SameOwed, SameTold
  <2>3. \A g, op : Noted(g, op)' <=> Noted(g, op)
    BY <1>1 DEF Noted
  <2>4. Alone' /\ Booked' /\ Snapped'
    BY <1>1, <1>2, <1>4 DEF Following, Alone, Booked, Snapped, ReloadsIdle, SessionsIdle
  <2>5. Versions'
    BY <1>1, <1>2, <1>4 DEF Following, Versions
  <2>6. FilesDue'
    BY <1>1, <1>2, <1>4, <2>3 DEF Following, FilesDue, Due
  <2>7. Settling'
    BY <1>1, <1>2, <1>4, <2>2 DEF Following, Settling, FilesSettle, Starting, AuthsSettle,
                                  SessionsSettle, KeysSettle, Booting, Midway
  <2> QED
    BY <2>4, <2>5, <2>6, <2>7 DEF Following
<1>5. CASE reload' = Move(r, "load") /\ mixed' = (mixed \/ Producing)
  <2>1. ~Producing
    BY <1>5
  <2>2. handler.pc = "idle" /\ login.pc = "idle" /\ SessionsIdle /\ ReloadsIdle
    BY <2>1 DEF Producing, SessionsIdle, ReloadsIdle
  <2>3. reload[r] \in Reloads /\ reload' = [reload EXCEPT ![r] = [reload[r] EXCEPT !.pc = "load"]]
    BY <1>3, <1>5 DEF Move
  <2>4. reload'[r].pc = "load" /\ reload'[r].boot = reload[r].boot
    BY <1>3, <2>3 DEF Reloads
  <2>5. \A q \in Reloaders : q # r => reload'[q] = reload[q]
    BY <1>3, <2>3
  <2>6. \A q \in Reloaders : reload'[q].pc \in {"idle", "load"}
    BY <2>2, <2>4, <2>5 DEF ReloadsIdle
  <2>7. Handed = {} /\ Handed' = {}
    BY <1>1, <2>2, <2>4, <2>5, ReloadHands DEF Handed, SessionsIdle, ReloadsIdle
  <2>8. \A i : Owed(i)' = Owed(i)
    BY <1>1, <2>7, SameOwed, SameTold
  <2>9. \A g, op : Noted(g, op)' <=> Noted(g, op)
    BY <1>1 DEF Noted
  <2>10. Alone'
    BY <1>1, <2>2, <2>4, <2>5 DEF Alone, ReloadsIdle, SessionsIdle
  <2>11. Booked' /\ Snapped'
    BY <1>1, <1>2, <2>6 DEF Following, Booked, Snapped
  <2>12. \A q \in Reloaders : ~reload'[q].boot
    BY <2>2, <2>4, <2>5 DEF Following, Versions, ReloadsIdle
  <2>13. Versions'
    <3>1. \A q \in Reloaders : reload'[q].pc \notin {"rescan", "set", "clients", "commit", "apply",
                                                     "snapshot", "refresh", "dispatch", "rehash"}
      BY <2>6
    <3>2. /\ lastConfigHash # None => /\ lastConfigHash \in Configs
                                      /\ lastConfigHash.version <= configFile.version
          /\ lastConfigHash = configFile => config = configFile
      BY DEF Following, Versions
    <3>3. \E q \in Reloaders : reload'[q].pc \in {"load", "set"}
      BY <2>4
    <3> QED
      BY <1>1, <1>2, <2>12, <3>1, <3>2, <3>3 DEF Versions
  <2>14. FilesDue'
    BY <1>1, <1>2, <2>2, <2>9 DEF Following, FilesDue, Due, ReloadsIdle
  <2>15. Settling'
    BY <1>1, <1>2, <2>2, <2>8, <2>12 DEF Following, Settling, FilesSettle, Starting, AuthsSettle,
                                         SessionsSettle, KeysSettle, Booting, Midway, ReloadsIdle
  <2> QED
    BY <2>10, <2>11, <2>13, <2>14, <2>15 DEF Following
<1> QED
  BY <1>1, <1>4, <1>5 DEF ReloadConfigIfChanged

(* It reads the file and sets the configuration.                           *)
LEMMA ReloadLoads ==
  ASSUME WatcherTypeOK, Following, NEW r \in Reloaders, LoadConfig(r) \/ SetConfig(r)
  PROVE  Following'
<1>1. /\ UNCHANGED <<diskVars, timer, snapshotVars, handler, session, login, feedVars, lastConfigHash,
                     stranded>>
      /\ reload[r].pc \in {"load", "set"}
  BY DEF LoadConfig, SetConfig, configVars
<1>2. UNCHANGED <<disk, configFile, events, lastAuthHashes, fileAuthsByPath, currentAuths, runtimeAuths>>
  BY <1>1 DEF snapshotVars, diskVars
<1>3. reload \in [Reloaders -> Reloads] /\ reload[r] \in Reloads
  BY DEF WatcherTypeOK, ReloadType
<1>4. ReloadOnly(r)
  BY <1>1, ReloadWorks
<1>5. ~reload[r].boot
  BY <1>1 DEF Following, Versions
<1>6. \A g, op : Noted(g, op)' <=> Noted(g, op)
  BY <1>2 DEF Noted
<1>7. CASE LoadConfig(r)
  <2>1. reload' = [reload EXCEPT ![r] = [reload[r] EXCEPT !.pc = "set", !.cfg = configFile]]
    BY <1>3, <1>7 DEF LoadConfig
  <2>2. PICK d : d = [reload[r] EXCEPT !.pc = "set", !.cfg = configFile]
    OBVIOUS
  <2>3. d.pc = "set" /\ d.cfg = configFile /\ d.boot = reload[r].boot
    BY <1>3, <2>2 DEF Reloads
  <2>4. reload'[r] = d /\ \A q \in Reloaders : q # r => reload'[q] = reload[q]
    BY <1>3, <2>1, <2>2
  <2>5. config' = config
    BY <1>7 DEF LoadConfig, configVars
  <2>6. Versions'
    <3>1. \A q \in Reloaders : q # r => reload'[q].pc = "idle" /\ ~reload'[q].boot
      BY <1>4, <2>4 DEF Following, Versions, ReloadOnly
    <3>2. /\ lastConfigHash # None => /\ lastConfigHash \in Configs
                                      /\ lastConfigHash.version <= configFile.version
          /\ lastConfigHash = configFile => config = configFile
      BY DEF Following, Versions
    <3> QED
      BY <1>1, <1>2, <1>5, <2>3, <2>4, <2>5, <3>1, <3>2 DEF Versions
  <2>7. Snapped'
    BY <1>2, <1>4, <2>3, <2>4 DEF Snapped, ReloadOnly
  <2>8. Handed = {} /\ Handed' = {}
    BY <1>1, <1>4, <2>3, <2>4, ReloadHands DEF Handed, ReloadOnly, SessionsIdle
  <2>9. \A i : Owed(i)' = Owed(i)
    BY <1>1, <2>8, SameOwed, SameTold
  <2>10. KeysSettle'
    BY <1>1, <1>2, <1>4, <1>5, <2>5, <2>9 DEF Following, Settling, KeysSettle, Booting, Midway, ReloadOnly
  <2> QED
    BY <1>1, <1>2, <1>4, <1>5, <2>3, <2>4, <2>6, <2>7, <2>10, ReloadMoves
<1>8. CASE SetConfig(r)
  <2>1. PICK ch :
          reload' = [reload EXCEPT ![r].pc = "clients", ![r].cfg = None, ![r].changed = ch]
    BY <1>8 DEF SetConfig
  <2>2. PICK d : d = [reload[r] EXCEPT !.pc = "clients", !.cfg = None, !.changed = ch]
    OBVIOUS
  <2>3. d.pc = "clients" /\ d.boot = reload[r].boot
    BY <1>3, <2>2 DEF Reloads
  <2>4. reload'[r] = d /\ \A q \in Reloaders : q # r => reload'[q] = reload[q]
    BY <1>3, <2>1, <2>2
  <2>5. config' = configFile
    BY <1>8 DEF SetConfig, Following, Versions
  <2>6. Versions'
    <3>1. \A q \in Reloaders : q # r => reload'[q].pc = "idle" /\ ~reload'[q].boot
      BY <1>4, <2>4 DEF Following, Versions, ReloadOnly
    <3>2. lastConfigHash # None => lastConfigHash \in Configs /\ lastConfigHash.version <= configFile.version
      BY DEF Following, Versions
    <3> QED
      BY <1>1, <1>2, <1>5, <2>3, <2>4, <2>5, <3>1, <3>2 DEF Versions
  <2>7. Snapped'
    BY <1>2, <1>4, <2>3, <2>4 DEF Snapped, ReloadOnly
  <2>8. KeysSettle'
    <3>1. Handed = {} /\ Handed' = {}
      BY <1>1, <1>4, <2>3, <2>4, ReloadHands DEF Handed, ReloadOnly, SessionsIdle
    <3>2. \A i : Owed(i)' = Owed(i)
      BY <1>1, <3>1, SameOwed, SameTold
    <3>3. ~Booting
      BY <1>4, <1>5 DEF Booting, ReloadOnly
    <3>4. Midway'
      BY <2>3, <2>4 DEF Midway
    <3> QED
      BY <1>1, <1>2, <3>2, <3>3, <3>4 DEF Following, Settling, KeysSettle
  <2> QED
    BY <1>1, <1>2, <1>4, <1>5, <2>3, <2>4, <2>6, <2>7, <2>8, ReloadMoves
<1> QED
  BY <1>7, <1>8

(* It takes credentials out of the snapshot, commits and applies the       *)
(* configuration, and reads the directory.                                 *)
LEMMA ReloadCommits ==
  ASSUME WatcherTypeOK, Following, NEW r \in Reloaders,
         ReloadClients(r) \/ CommitConfigUpdate(r) \/ ApplyConfigRuntime(r) \/ SnapshotCoreAuths(r)
  PROVE  Following'
<1>1. UNCHANGED <<diskVars, timer, lastAuthHashes, fileAuthsByPath, runtimeAuths, config, lastConfigHash,
                  handler, session, login, feedVars>>
  BY DEF ReloadClients, CommitConfigUpdate, ApplyConfigRuntime, SnapshotCoreAuths, configVars,
         snapshotVars
<1>2. reload[r].pc \in {"clients", "commit", "apply", "snapshot"}
  BY DEF ReloadClients, CommitConfigUpdate, ApplyConfigRuntime, SnapshotCoreAuths
<1>3. UNCHANGED <<disk, configFile, events>>
  BY <1>1 DEF diskVars
<1>4. reload \in [Reloaders -> Reloads] /\ reload[r] \in Reloads /\ disk \in [Files -> Hashes]
  BY DEF WatcherTypeOK, ReloadType, DiskType
<1>5. ReloadOnly(r)
  BY <1>2, ReloadWorks
<1>6. \A i \in DOMAIN currentAuths' : i \in DOMAIN currentAuths /\ currentAuths'[i] = currentAuths[i]
  <2>1. currentAuths' = currentAuths \/ \E S : currentAuths' = Without(currentAuths, S)
    BY DEF ReloadClients, CommitConfigUpdate, ApplyConfigRuntime, SnapshotCoreAuths, snapshotVars
  <2> QED
    BY <2>1 DEF Without
<1>7. PICK d :
        /\ reload' = [reload EXCEPT ![r] = d] /\ d.boot = reload[r].boot
        /\ d.pc \in {"commit", "apply", "snapshot", "refresh"}
        /\ d.pc = "refresh" => d.snap = Snapshot(disk, config)
  <2>1. CASE ReloadClients(r)
    <3>1. PICK d : d = [reload[r] EXCEPT !.pc = "commit", !.cfg = config]
      OBVIOUS
    <3>2. d.pc = "commit" /\ d.boot = reload[r].boot
      BY <1>4, <3>1 DEF Reloads
    <3>3. reload' = [reload EXCEPT ![r] = d]
      BY <2>1, <3>1 DEF ReloadClients
    <3> QED
      BY <3>2, <3>3
  <2>2. CASE CommitConfigUpdate(r)
    <3>1. PICK n : n = served.sequence + 1
      OBVIOUS
    <3>2. PICK d : d = [reload[r] EXCEPT !.pc = "apply", !.sequence = n]
      OBVIOUS
    <3>3. d.pc = "apply" /\ d.boot = reload[r].boot
      BY <1>4, <3>2 DEF Reloads
    <3>4. reload' = [reload EXCEPT ![r] = d]
      BY <2>2, <3>1, <3>2 DEF CommitConfigUpdate
    <3> QED
      BY <3>3, <3>4
  <2>3. CASE ApplyConfigRuntime(r)
    <3>1. PICK d : d = [reload[r] EXCEPT !.pc = "snapshot", !.cfg = None, !.sequence = 0]
      OBVIOUS
    <3>2. d.pc = "snapshot" /\ d.boot = reload[r].boot
      BY <1>4, <3>1 DEF Reloads
    <3>3. reload' = [reload EXCEPT ![r] = d]
      BY <2>3, <3>1 DEF ApplyConfigRuntime
    <3> QED
      BY <3>2, <3>3
  <2>4. CASE SnapshotCoreAuths(r)
    <3>1. PICK snap : snap = Snapshot(disk, config)
      OBVIOUS
    <3>2. PICK d : d = [reload[r] EXCEPT !.pc = "refresh", !.snap = snap]
      OBVIOUS
    <3>3. d.pc = "refresh" /\ d.boot = reload[r].boot /\ d.snap = snap
      BY <1>4, <3>2 DEF Reloads
    <3>4. reload' = [reload EXCEPT ![r] = d]
      BY <2>4, <3>1, <3>2 DEF SnapshotCoreAuths
    <3> QED
      BY <3>1, <3>3, <3>4
  <2> QED
    BY <2>1, <2>2, <2>3, <2>4
<1>8. reload'[r] = d /\ \A q \in Reloaders : q # r => reload'[q] = reload[q] /\ reload[q].pc = "idle"
  BY <1>4, <1>5, <1>7 DEF ReloadOnly
<1>9. \A g, op : Noted(g, op)' <=> Noted(g, op)
  BY <1>3 DEF Noted
<1>10. Versions'
  <2>1. /\ lastConfigHash # None => lastConfigHash \in Configs /\ lastConfigHash.version <= configFile.version
        /\ lastConfigHash = configFile => config = configFile
    BY DEF Following, Versions
  <2>2. config # configFile => Noted(None, "write") \/ timer
    BY <1>2, <1>8 DEF Following, Versions
  <2>3. ~reload[r].boot => config = configFile
    BY <1>2 DEF Following, Versions
  <2>4. \A q \in Reloaders : q # r => reload'[q].pc = "idle" /\ ~reload'[q].boot
    BY <1>8 DEF Following, Versions
  <2> QED
    BY <1>1, <1>3, <1>7, <1>8, <1>9, <2>1, <2>2, <2>3, <2>4 DEF Versions
<1>11. Snapped'
  <2> SUFFICES ASSUME d.pc = "refresh"
               PROVE  /\ DOMAIN d.snap \subseteq Files \cup config.keys
                      /\ \A k \in config.keys : k \in DOMAIN d.snap /\ d.snap[k] = config.version
                      /\ \A f \in Files : lastAuthHashes[f] = disk[f] =>
                           IF disk[f] = None THEN f \notin DOMAIN d.snap
                                             ELSE f \in DOMAIN d.snap /\ d.snap[f] = disk[f]
    BY <1>1, <1>3, <1>8 DEF Snapped
  <2>1. config.keys \subseteq Keys /\ \A f \in Files : f \notin Keys
    BY WatcherAssumption DEF WatcherTypeOK, ReloadType, Configs
  <2> QED
    BY <1>7, <2>1 DEF Snapshot
<1>12. KeysSettle'
  <2>1. Handed = {} /\ Handed' = {}
    BY <1>1, <1>2, <1>5, <1>7, <1>8, ReloadHands DEF Handed, ReloadOnly, SessionsIdle
  <2>2. \A i : Owed(i)' = Owed(i)
    BY <1>1, <2>1, SameOwed, SameTold
  <2>3. Midway' /\ (Booting => Booting')
    BY <1>2, <1>7, <1>8 DEF Midway, Booting
  <2>4. \A k \in Keys : k \in DOMAIN currentAuths \cup stranded =>
                        k \in DOMAIN currentAuths' \cup stranded'
    <3>1. CASE ReloadClients(r)
      <4>1. PICK S : currentAuths' = Without(currentAuths, S) /\ stranded' = stranded \cup (S \cap Keys)
        BY <3>1 DEF ReloadClients
      <4>2. DOMAIN currentAuths' = DOMAIN currentAuths \ S
        BY <4>1 DEF Without
      <4> QED
        BY <4>1, <4>2
    <3>2. CASE ~ReloadClients(r)
      BY <3>2 DEF CommitConfigUpdate, ApplyConfigRuntime, SnapshotCoreAuths, snapshotVars
    <3> QED
      BY <3>1, <3>2
  <2> QED
    BY <1>1, <2>2, <2>3, <2>4 DEF Following, Settling, KeysSettle
<1> QED
  BY <1>1, <1>2, <1>3, <1>5, <1>6, <1>7, <1>8, <1>10, <1>11, <1>12, ReloadMoves

(* The hash of the configuration is recorded.                              *)
LEMMA ReloadRecords ==
  ASSUME WatcherTypeOK, Following, NEW r \in Reloaders, RecordConfigHash(r)
  PROVE  Following'
<1>1. /\ UNCHANGED <<diskVars, timer, snapshotVars, config, handler, session, login, feedVars, stranded>>
      /\ reload[r].pc = "rehash" /\ reload' = [reload EXCEPT ![r] = NoReload]
      /\ lastConfigHash' = configFile
  BY DEF RecordConfigHash
<1>2. UNCHANGED <<disk, configFile, events, lastAuthHashes, fileAuthsByPath, currentAuths, runtimeAuths>>
  BY <1>1 DEF diskVars, snapshotVars
<1>3. reload \in [Reloaders -> Reloads] /\ configFile \in Configs
  BY DEF WatcherTypeOK, ReloadType, DiskType
<1>4. ReloadOnly(r)
  BY <1>1, ReloadWorks
<1>5. /\ reload'[r].pc = "idle" /\ ~reload'[r].boot
      /\ \A q \in Reloaders : q # r => reload'[q] = reload[q] /\ reload[q].pc = "idle"
  BY <1>1, <1>3, <1>4 DEF NoReload, ReloadOnly
<1>6. config = configFile /\ ~reload[r].boot
  BY <1>1 DEF Following, Versions
<1>7. reload'[r].boot = reload[r].boot
  <2>1. reload'[r].boot = FALSE
    BY <1>1, <1>3 DEF NoReload
  <2>2. reload[r] \in Reloads
    BY <1>3
  <2>3. reload[r].boot \in BOOLEAN
    BY <2>2 DEF Reloads
  <2> QED
    BY <1>6, <2>1, <2>3
<1>8. Versions'
  <2>1. \A q \in Reloaders : reload'[q].pc = "idle" /\ ~reload'[q].boot
    BY <1>5 DEF Following, Versions
  <2>2. configFile.version <= configFile.version
    BY <1>3 DEF Configs
  <2> QED
    BY <1>1, <1>2, <1>3, <1>6, <2>1, <2>2 DEF Versions
<1>9. Snapped'
  BY <1>5 DEF Snapped
<1>10. Handed = {} /\ Handed' = {}
  BY <1>1, <1>4, <1>5, ReloadHands DEF Handed, ReloadOnly, SessionsIdle
<1>11. \A i : Owed(i)' = Owed(i)
  BY <1>1, <1>10, SameOwed, SameTold
<1>12. KeysSettle'
  BY <1>1, <1>2, <1>5, <1>6, <1>11 DEF Following, Settling, KeysSettle, Booting, Midway
<1> QED
  BY <1>1, <1>2, <1>4, <1>5, <1>6, <1>7, <1>8, <1>9, <1>12, ReloadMoves

(* The rescan at the start: the watcher knows the directory as it is.      *)
LEMMA ReloadRescans ==
  ASSUME WatcherTypeOK, Following, NEW r \in Reloaders, RescanAuthDir(r)
  PROVE  Following'
<1>1. /\ UNCHANGED <<diskVars, timer, currentAuths, runtimeAuths, configVars, handler, session, login,
                     feedVars, stranded>>
      /\ reload[r].pc = "rescan" /\ reload' = Move(r, "commit") /\ lastAuthHashes' = disk
      /\ fileAuthsByPath' = {f \in Files : disk[f] # None}
  BY DEF RescanAuthDir
<1>2. UNCHANGED <<disk, configFile, events, config, lastConfigHash>>
  BY <1>1 DEF diskVars, configVars
<1>3. reload \in [Reloaders -> Reloads] /\ reload[r] \in Reloads
  BY DEF WatcherTypeOK, ReloadType
<1>4. ReloadOnly(r)
  BY <1>1, ReloadWorks
<1>5. PICK d : d = [reload[r] EXCEPT !.pc = "commit"]
  OBVIOUS
<1>6. d.pc = "commit" /\ d.boot = reload[r].boot
  BY <1>3, <1>5 DEF Reloads
<1>7. reload'[r] = d /\ \A q \in Reloaders : q # r => reload'[q] = reload[q] /\ reload[q].pc = "idle"
  BY <1>1, <1>3, <1>4, <1>5 DEF Move, ReloadOnly
<1>8. Handed = {} /\ Handed' = {}
  BY <1>1, <1>4, <1>6, <1>7, ReloadHands DEF Handed, ReloadOnly, SessionsIdle
<1>9. \A i : Owed(i)' = Owed(i)
  BY <1>1, <1>8, SameOwed, SameTold
<1>10. \A g, op : Noted(g, op)' <=> Noted(g, op)
  BY <1>2 DEF Noted
<1>11. Alone'
  BY <1>1, <1>4, <1>6, <1>7 DEF ReloadOnly, Alone, SessionsIdle, ReloadsIdle
<1>12. Booked'
  BY <1>1, <1>2, <1>4, <1>6, <1>7 DEF Booked, ReloadOnly
<1>13. reload[r].boot
  BY <1>1 DEF Following, Versions
<1>14. Versions'
  <2>1. /\ lastConfigHash # None => lastConfigHash \in Configs /\ lastConfigHash.version <= configFile.version
        /\ lastConfigHash = configFile => config = configFile
    BY DEF Following, Versions
  <2>2. config # configFile => Noted(None, "write") \/ timer
    BY <1>1, <1>7 DEF Following, Versions
  <2>3. \A q \in Reloaders : q # r => reload'[q].pc = "idle" /\ ~reload'[q].boot
    BY <1>7 DEF Following, Versions
  <2> QED
    BY <1>1, <1>2, <1>6, <1>7, <1>10, <1>13, <2>1, <2>2, <2>3 DEF Versions
<1>15. Snapped' /\ FilesDue'
  BY <1>1, <1>2, <1>6, <1>7 DEF Snapped, FilesDue
<1>18. KeysSettle'
  <2>1. Midway' /\ Booting'
    BY <1>6, <1>7, <1>13 DEF Midway, Booting
  <2> QED
    BY <1>1, <1>2, <1>9, <2>1 DEF Following, Settling, KeysSettle
<1>16. FilesSettle'
  <2>1. Starting'
    BY <1>6, <1>7, <1>13 DEF Starting
  <2>2. \A f \in Files : lastAuthHashes[f] = None
    BY <1>1 DEF Following, Booked
  <2> QED
    BY <1>2, <1>4, <1>9, <2>1, <2>2 DEF Following, Settling, FilesSettle, ReloadOnly
<1>17. AuthsSettle' /\ SessionsSettle'
  BY <1>1, <1>9 DEF Following, Settling, AuthsSettle, SessionsSettle
<1> QED
  BY <1>11, <1>12, <1>14, <1>15, <1>16, <1>17, <1>18 DEF Following, Settling

(* What Difference holds: with it, what is owed of the new snapshot is     *)
(* what the new snapshot says, and what left it is gone.                   *)
LEMMA DifferenceOwes ==
  ASSUME NEW old, NEW new, NEW force, NEW i
  PROVE  LET u == Difference(old, new, force)
         IN /\ i \in DOMAIN new /\ i \in DOMAIN u => u[i] = new[i]
            /\ i \in DOMAIN new /\ i \notin DOMAIN u => i \in DOMAIN old /\ old[i] = new[i]
            /\ i \notin DOMAIN new /\ i \in DOMAIN old => i \in DOMAIN u /\ u[i] = None
            /\ i \notin DOMAIN new /\ i \notin DOMAIN old => i \notin DOMAIN u
<1> DEFINE changed == {j \in DOMAIN new : j \in DOMAIN old /\ ~force => old[j] # new[j]}
           gone == DOMAIN old \ DOMAIN new
           S == (changed \cap DOMAIN new) \cup gone
<1>1. PICK u : u = [j \in S |-> IF j \in gone THEN None ELSE new[j]]
  OBVIOUS
<1>2. Difference(old, new, force) = u
  BY <1>1 DEF Difference
<1>3. DOMAIN u = S /\ \A j \in S : u[j] = IF j \in gone THEN None ELSE new[j]
  BY <1>1
<1> QED
  BY <1>2, <1>3

(* refreshAuthState: the difference to the new snapshot is to be handed    *)
(* over.                                                                   *)
LEMMA ReloadRefreshes ==
  ASSUME WatcherTypeOK, SessionsType, Following, NEW r \in Reloaders, RefreshAuthState(r)
  PROVE  Following'
<1>1. PICK snap : snap = reload[r].snap
  OBVIOUS
<1>2. PICK new : new = [i \in DOMAIN snap \cup runtimeAuths |->
                          IF i \in runtimeAuths THEN 1 ELSE snap[i]]
  OBVIOUS
<1>26. PICK force \in BOOLEAN :
         reload' = [reload EXCEPT ![r].pc = "dispatch", ![r].changed = FALSE, ![r].snap = NoUpdates,
                                  ![r].updates = Difference(currentAuths, new, force)]
  BY <1>1, <1>2 DEF RefreshAuthState
<1>3. PICK u : u = Difference(currentAuths, new, force)
  OBVIOUS
<1>4. PICK d : d = [reload[r] EXCEPT !.pc = "dispatch", !.changed = FALSE, !.snap = NoUpdates,
                                     !.updates = u]
  OBVIOUS
<1>5. /\ reload[r].pc = "refresh" /\ currentAuths' = new
      /\ reload' = [reload EXCEPT ![r] = d]
      /\ UNCHANGED <<diskVars, timer, lastAuthHashes, fileAuthsByPath, runtimeAuths, configVars, handler,
                     session, login, feedVars>>
      /\ stranded' = stranded \ DOMAIN new
  BY <1>1, <1>2, <1>3, <1>4, <1>26 DEF RefreshAuthState
<1>6. UNCHANGED <<disk, configFile, events, config, lastConfigHash>>
  BY <1>5 DEF diskVars, configVars
<1>7. reload \in [Reloaders -> Reloads] /\ reload[r] \in Reloads /\ runtimeAuths \subseteq Sessions
  BY DEF WatcherTypeOK, ReloadType, SnapshotType
<1>8. d.pc = "dispatch" /\ d.boot = reload[r].boot /\ d.updates = u
  BY <1>4, <1>7 DEF Reloads
<1>9. ReloadOnly(r)
  BY <1>5, ReloadWorks
<1>10. reload'[r] = d /\ \A q \in Reloaders : q # r => reload'[q] = reload[q] /\ reload[q].pc = "idle"
  BY <1>5, <1>7, <1>9 DEF ReloadOnly
<1>11. u \in Updates
  <2>1. snap \in Updates /\ currentAuths \in Updates
    BY <1>1, <1>7 DEF Reloads, WatcherTypeOK, SnapshotType
  <2>2. PICK S : S = DOMAIN snap \cup runtimeAuths
    OBVIOUS
  <2>3. S \in SUBSET Ids
    BY <1>7, <2>1, <2>2, UpdatesElim DEF Ids
  <2>4. \A i \in S : (IF i \in runtimeAuths THEN 1 ELSE snap[i]) \in Values
    BY <2>1, <2>2, UpdatesElim DEF Values
  <2>5. new \in [S -> Values]
    BY <1>2, <2>2, <2>4
  <2>6. new \in Updates
    BY <2>3, <2>5, UpdatesIntro
  <2> QED
    BY <1>3, <2>1, <2>6, DifferenceType
<1>12. Handed = {} /\ Handed' = {u}
  <2>1. /\ handler.pc # "dispatch" /\ login.pc # "dispatch"
        /\ \A s \in Sessions : session[s] \notin {"adding", "removing"}
        /\ \A q \in Reloaders : q # r => reload[q].pc # "dispatch" /\ reload'[q].pc # "dispatch"
    BY <1>9, <1>10 DEF ReloadOnly, SessionsIdle
  <2>2. Handed = {}
    BY <1>5, <2>1, ReloadHands DEF Handed
  <2>3. Handing(handler, reload', session, login) = {u}
    BY <1>8, <1>10, <1>11, <2>1, ReloadHands
  <2> QED
    BY <1>5, <2>2, <2>3 DEF Handed
<1>13. \A i : Owed(i)' = IF i \in DOMAIN u THEN u[i] ELSE Owed(i)
  BY <1>5, <1>12, BeginOwed, SameTold
<1>14. /\ \A i \in DOMAIN new : Owed(i)' = new[i]
       /\ \A i : i \notin DOMAIN new =>
            Owed(i)' = None \/ (i \notin DOMAIN currentAuths /\ Owed(i)' = Owed(i))
  <2>1. ASSUME NEW i \in DOMAIN new PROVE Owed(i)' = new[i]
    <3>1. CASE i \in DOMAIN u
      BY <1>3, <1>13, <3>1, DifferenceOwes
    <3>2. CASE i \notin DOMAIN u
      <4>1. i \in DOMAIN currentAuths /\ currentAuths[i] = new[i]
        BY <1>3, <3>2, DifferenceOwes
      <4>2. Owed(i) = currentAuths[i]
        BY <4>1 DEF Following, Settling, AuthsSettle
      <4> QED
        BY <1>13, <3>2, <4>1, <4>2
    <3> QED
      BY <3>1, <3>2
  <2>2. ASSUME NEW i, i \notin DOMAIN new
        PROVE  Owed(i)' = None \/ (i \notin DOMAIN currentAuths /\ Owed(i)' = Owed(i))
    <3>1. CASE i \in DOMAIN currentAuths
      BY <1>3, <1>13, <2>2, <3>1, DifferenceOwes
    <3>2. CASE i \notin DOMAIN currentAuths
      BY <1>3, <1>13, <2>2, <3>2, DifferenceOwes
    <3> QED
      BY <3>1, <3>2
  <2> QED
    BY <2>1, <2>2
<1>27. config.keys \subseteq Keys
  BY DEF WatcherTypeOK, ReloadType, Configs
<1>15. /\ DOMAIN snap \subseteq Files \cup config.keys
       /\ \A k \in config.keys : k \in DOMAIN snap /\ snap[k] = config.version
       /\ \A f \in Files : lastAuthHashes[f] = disk[f] =>
            IF disk[f] = None THEN f \notin DOMAIN snap
                              ELSE f \in DOMAIN snap /\ snap[f] = disk[f]
  BY <1>1, <1>5 DEF Following, Snapped
<1>16. /\ DOMAIN new = DOMAIN snap \cup runtimeAuths
       /\ \A i \in DOMAIN new : new[i] = IF i \in runtimeAuths THEN 1 ELSE snap[i]
  BY <1>2
<1>17. FilesSettle'
  <2> SUFFICES ASSUME NEW f \in Files, lastAuthHashes[f] = disk[f] PROVE Owed(f)' = disk[f]
    BY <1>5, <1>6 DEF FilesSettle
  <2>1. f \notin runtimeAuths
    BY <1>7, WatcherAssumption
  <2>2. CASE disk[f] = None
    <3>1. f \notin DOMAIN new
      BY <1>15, <1>16, <2>1, <2>2
    <3>2. Owed(f) = None
      BY <1>9, <2>2 DEF Following, Settling, FilesSettle, ReloadOnly
    <3> QED
      BY <1>14, <2>2, <3>1, <3>2
  <2>3. CASE disk[f] # None
    <3>1. f \in DOMAIN new /\ new[f] = disk[f]
      BY <1>15, <1>16, <2>1, <2>3
    <3> QED
      BY <1>14, <3>1
  <2> QED
    BY <2>2, <2>3
<1>18. AuthsSettle'
  BY <1>5, <1>14 DEF AuthsSettle
<1>19. SessionsSettle'
  <2> SUFFICES ASSUME NEW s \in Sessions PROVE Owed(s)' = IF s \in runtimeAuths THEN 1 ELSE None
    BY <1>5 DEF SessionsSettle
  <2>1. s \notin DOMAIN snap
    BY <1>15, <1>27, WatcherAssumption
  <2>2. CASE s \in runtimeAuths
    BY <1>14, <1>16, <2>2
  <2>3. CASE s \notin runtimeAuths
    <3>1. Owed(s) = None
      BY <2>3 DEF Following, Settling, SessionsSettle
    <3> QED
      BY <1>14, <1>16, <2>1, <2>3, <3>1
  <2> QED
    BY <2>2, <2>3
<1>20. KeysSettle'
  <2>1. \A k \in Keys : /\ k \in DOMAIN new <=> k \in config.keys
                        /\ k \in config.keys => new[k] = config.version
    BY <1>7, <1>15, <1>16, <1>27, WatcherAssumption
  <2>2. \A k \in Keys : k \notin DOMAIN new /\ Owed(k)' # None => k \in stranded'
    BY <1>5, <1>14, <2>1 DEF Following, Settling, KeysSettle
  <2> QED
    BY <1>5, <1>6, <1>14, <2>1, <2>2 DEF KeysSettle
<1>21. \A g, op : Noted(g, op)' <=> Noted(g, op)
  BY <1>6 DEF Noted
<1>22. Alone'
  BY <1>5, <1>8, <1>9, <1>10 DEF ReloadOnly, Alone, SessionsIdle, ReloadsIdle
<1>23. Booked' /\ Snapped'
  BY <1>5, <1>6, <1>8, <1>9, <1>10 DEF Following, Booked, Snapped, ReloadOnly
<1>24. Versions'
  <2>1. /\ lastConfigHash # None => lastConfigHash \in Configs /\ lastConfigHash.version <= configFile.version
        /\ lastConfigHash = configFile => config = configFile
    BY DEF Following, Versions
  <2>2. config # configFile => Noted(None, "write") \/ timer
    BY <1>5, <1>10 DEF Following, Versions
  <2>3. \A q \in Reloaders : q # r => reload'[q].pc = "idle" /\ ~reload'[q].boot
    BY <1>10 DEF Following, Versions
  <2>4. ~reload[r].boot => config = configFile
    BY <1>5 DEF Following, Versions
  <2> QED
    BY <1>5, <1>6, <1>8, <1>10, <1>21, <2>1, <2>2, <2>3, <2>4 DEF Versions
<1>25. FilesDue'
  BY <1>5, <1>6, <1>10, <1>21 DEF Following, FilesDue, Due
<1> QED
  BY <1>17, <1>18, <1>19, <1>20, <1>22, <1>23, <1>24, <1>25 DEF Following, Settling

(* The reload hands over.                                                  *)
LEMMA ReloadDispatches ==
  ASSUME WatcherTypeOK, Following, NEW r \in Reloaders, ReloadDispatch(r)
  PROVE  Following'
<1>1. /\ reload[r].pc = "dispatch" /\ DispatchAuthUpdates(reload[r].updates)
      /\ reload' = [reload EXCEPT ![r] = IF @.boot THEN NoReload ELSE [NoReload EXCEPT !.pc = "rehash"]]
      /\ UNCHANGED <<diskVars, timer, snapshotVars, configVars, handler, session, login, stranded>>
  BY DEF ReloadDispatch
<1>2. UNCHANGED <<disk, configFile, events, config, lastConfigHash, lastAuthHashes, fileAuthsByPath,
                  currentAuths, runtimeAuths>>
  BY <1>1 DEF diskVars, configVars, snapshotVars
<1>3. reload \in [Reloaders -> Reloads] /\ reload[r] \in Reloads /\ FeedType
  BY DEF WatcherTypeOK, ReloadType
<1>4. reload[r].updates \in Updates /\ DOMAIN currentAuths \subseteq Ids
  BY <1>3, UpdatesElim DEF Reloads, WatcherTypeOK, SnapshotType
<1>5. ReloadOnly(r)
  BY <1>1, ReloadWorks
<1>6. \A q \in Reloaders : q # r => reload'[q] = reload[q] /\ reload[q].pc = "idle"
  BY <1>1, <1>3, <1>5 DEF ReloadOnly
<1>7. /\ reload'[r].pc = IF reload[r].boot THEN "idle" ELSE "rehash"
      /\ ~reload'[r].boot
  <2>1. reload'[r] = IF reload[r].boot THEN NoReload ELSE [NoReload EXCEPT !.pc = "rehash"]
    BY <1>1, <1>3
  <2>2. /\ NoReload.pc = "idle" /\ ~NoReload.boot
        /\ [NoReload EXCEPT !.pc = "rehash"].pc = "rehash" /\ ~[NoReload EXCEPT !.pc = "rehash"].boot
    BY DEF NoReload
  <2> QED
    BY <2>1, <2>2
<1>8. Handed = {reload[r].updates} /\ Handed' = {}
  <2>1. /\ handler.pc # "dispatch" /\ login.pc # "dispatch"
        /\ \A s \in Sessions : session[s] \notin {"adding", "removing"}
        /\ \A q \in Reloaders : q # r => reload[q].pc # "dispatch" /\ reload'[q].pc # "dispatch"
    BY <1>5, <1>6 DEF ReloadOnly, SessionsIdle
  <2>2. Handed = {reload[r].updates}
    BY <1>1, <1>4, <2>1, ReloadHands DEF Handed
  <2>3. Handing(handler, reload', session, login) = {}
    BY <1>7, <2>1, ReloadHands
  <2> QED
    BY <1>1, <2>2, <2>3 DEF Handed
<1>9. \A i \in Ids : Owed(i)' = Owed(i)
  BY <1>1, <1>3, <1>4, <1>8, EndOwed
<1>10. Files \subseteq Ids /\ Sessions \subseteq Ids /\ Keys \subseteq Ids
  BY DEF Ids
<1>11. \A g, op : Noted(g, op)' <=> Noted(g, op)
  BY <1>2 DEF Noted
<1>12. Alone'
  BY <1>1, <1>5, <1>6, <1>7 DEF ReloadOnly, Alone, SessionsIdle, ReloadsIdle
<1>13. Booked' /\ Snapped'
  BY <1>1, <1>2, <1>5, <1>6, <1>7 DEF Following, Booked, Snapped, ReloadOnly
<1>14. Versions'
  <2>1. /\ lastConfigHash # None => lastConfigHash \in Configs /\ lastConfigHash.version <= configFile.version
        /\ lastConfigHash = configFile => config = configFile
    BY DEF Following, Versions
  <2>2. config # configFile => Noted(None, "write") \/ timer
    BY <1>1, <1>6 DEF Following, Versions
  <2>3. \A q \in Reloaders : q # r => reload'[q].pc = "idle" /\ ~reload'[q].boot
    BY <1>6 DEF Following, Versions
  <2>4. ~reload[r].boot => config = configFile
    BY <1>1 DEF Following, Versions
  <2> QED
    BY <1>1, <1>2, <1>7, <1>11, <2>1, <2>2, <2>3, <2>4 DEF Versions
<1>15. FilesDue'
  BY <1>1, <1>2, <1>6, <1>11 DEF Following, FilesDue, Due
<1>16. FilesSettle'
  <2>1. ~Starting
    BY <1>1, <1>6 DEF Starting
  <2> QED
    BY <1>1, <1>2, <1>9, <1>10, <2>1 DEF Following, Settling, FilesSettle
<1>17. AuthsSettle' /\ SessionsSettle'
  BY <1>2, <1>4, <1>9, <1>10 DEF Following, Settling, AuthsSettle, SessionsSettle
<1>18. KeysSettle'
  BY <1>1, <1>2, <1>6, <1>7, <1>9, <1>10 DEF Following, Settling, KeysSettle, Booting, Midway
<1> QED
  BY <1>12, <1>13, <1>14, <1>15, <1>16, <1>17, <1>18 DEF Following, Settling

-----------------------------------------------------------------------------
(* A session connects or disconnects while no producer is at work.         *)
LEMMA SessionFollows ==
  ASSUME WatcherTypeOK, SessionsType, Following, NEW s \in Sessions, Connected(s) \/ Disconnected(s),
         ~mixed'
  PROVE  Following'
<1>1. /\ UNCHANGED <<disk, configFile, events, timer, lastAuthHashes, fileAuthsByPath, configVars,
                     handler, reload, login, feedVars, stranded>>
      /\ mixed' = (mixed \/ Producing)
  BY DEF Connected, Disconnected
<1>2. UNCHANGED <<config, lastConfigHash>>
  BY <1>1 DEF configVars
<1>3. ~Producing
  BY <1>1
<1>4. /\ handler.pc = "idle" /\ login.pc = "idle"
      /\ \A r \in Reloaders : reload[r].pc = "idle"
      /\ \A t \in Sessions : session[t] \notin {"adding", "removing"}
  BY <1>3 DEF Producing
<1>5. PICK v \in {1, None}, pc \in {"adding", "removing"} :
        /\ session' = [session EXCEPT ![s] = pc]
        /\ (pc = "adding" /\ v = 1) \/ (pc = "removing" /\ v = None)
        /\ runtimeAuths' = IF pc = "adding" THEN runtimeAuths \cup {s} ELSE runtimeAuths \ {s}
        /\ currentAuths' = IF pc = "adding" THEN With(currentAuths, s, 1)
                                            ELSE Without(currentAuths, {s})
  BY DEF Connected, Disconnected
<1>6. session'[s] = pc /\ \A t \in Sessions : t # s => session'[t] = session[t]
  BY <1>5 DEF SessionsType
<1>7. PICK u : u = [i \in {s} |-> v]
  OBVIOUS
<1>8. Handed = {}
  BY <1>4, HandlerHands DEF Handed
<1>9. Handed' = {u}
  <2>1. Handing(handler, reload, session', login) = {u}
    <3>1. /\ \A t \in Sessions : t # s => session'[t] \notin {"adding", "removing"}
          /\ \A r \in Reloaders : reload[r].pc # "dispatch"
          /\ handler.pc # "dispatch" /\ login.pc # "dispatch"
      BY <1>4, <1>6
    <3>2. (session'[s] = "adding" /\ v = 1) \/ (session'[s] = "removing" /\ v = None)
      BY <1>5, <1>6
    <3>3. PICK ss : ss = session'
      OBVIOUS
    <3>4. Handing(handler, reload, ss, login) = {u}
      BY <1>7, <3>1, <3>2, <3>3, SessionHands
    <3> QED
      BY <3>3, <3>4
  <2> QED
    BY <1>1, <2>1 DEF Handed
<1>10. \A i : Owed(i)' = IF i = s THEN v ELSE Owed(i)
  <2>1. DOMAIN u = {s} /\ u[s] = v
    BY <1>7
  <2> QED
    BY <1>1, <1>8, <1>9, <2>1, BeginOwed, SameTold
<1>11. s \notin Files /\ s \notin Keys
  BY WatcherAssumption
<1>12. \A g, op : Noted(g, op)' <=> Noted(g, op)
  BY <1>1 DEF Noted
<1>13. Alone'
  BY <1>1, <1>4, <1>6 DEF Alone, SessionsIdle, ReloadsIdle
<1>14. Booked' /\ Snapped'
  BY <1>1, <1>4 DEF Following, Booked, Snapped
<1>15. Versions'
  BY <1>1, <1>2, <1>12 DEF Following, Versions
<1>16. FilesDue'
  BY <1>1, <1>12 DEF Following, FilesDue, Due
<1>17. FilesSettle'
  BY <1>1, <1>10, <1>11 DEF Following, Settling, FilesSettle, Starting
<1>18. AuthsSettle'
  BY <1>5, <1>10 DEF Following, Settling, AuthsSettle, With, Without
<1>19. SessionsSettle'
  BY <1>5, <1>10 DEF Following, Settling, SessionsSettle
<1>20. KeysSettle'
  <2>1. \A k \in Keys : Owed(k)' = Owed(k) /\ (k \in DOMAIN currentAuths => k \in DOMAIN currentAuths')
    BY <1>5, <1>10, <1>11 DEF With, Without
  <2> QED
    BY <1>1, <1>2, <2>1 DEF Following, Settling, KeysSettle, Booting, Midway
<1> QED
  BY <1>13, <1>14, <1>15, <1>16, <1>17, <1>18, <1>19, <1>20 DEF Following, Settling

(* The session hands over.                                                 *)
LEMMA SessionDispatches ==
  ASSUME WatcherTypeOK, SessionsType, Following, NEW s \in Sessions, SessionDispatch(s)
  PROVE  Following'
<1>1. UNCHANGED <<diskVars, timer, snapshotVars, configVars, handler, reload, login, stranded>>
  BY DEF SessionDispatch
<1>2. UNCHANGED <<disk, configFile, events, config, lastConfigHash, lastAuthHashes, fileAuthsByPath,
                  currentAuths, runtimeAuths>>
  BY <1>1 DEF diskVars, configVars, snapshotVars
<1>3. PICK v \in {1, None}, pc \in {"on", "gone"} :
        /\ DispatchAuthUpdates([i \in {s} |-> v])
        /\ (session[s] = "adding" /\ v = 1) \/ (session[s] = "removing" /\ v = None)
        /\ session' = [session EXCEPT ![s] = pc]
  BY DEF SessionDispatch
<1>4. session'[s] = pc /\ \A t \in Sessions : t # s => session'[t] = session[t]
  BY <1>3 DEF SessionsType
<1>5. /\ handler.pc = "idle" /\ login.pc = "idle"
      /\ \A r \in Reloaders : reload[r].pc = "idle"
      /\ \A t \in Sessions : t # s => session[t] \notin {"adding", "removing"}
  BY <1>3 DEF Following, Alone, SessionsIdle, ReloadsIdle
<1>6. PICK u \in Updates : u = [i \in {s} |-> v]
  <2>1. s \in Ids /\ v \in Values
    BY DEF Ids, Values
  <2> QED
    BY <2>1, OneUpdate
<1>7. Handed = {u}
  <2>1. CASE session[s] = "adding"
    BY <1>3, <1>5, <1>6, <2>1, SessionHands DEF Handed
  <2>2. CASE session[s] = "removing"
    BY <1>3, <1>5, <1>6, <2>2, SessionHands DEF Handed
  <2> QED
    BY <1>3, <2>1, <2>2
<1>8. Handed' = {}
  <2>1. Handing(handler, reload, session', login) = {}
    BY <1>4, <1>5, SessionHands
  <2> QED
    BY <1>1, <2>1 DEF Handed
<1>9. FeedType /\ DOMAIN currentAuths \subseteq Ids
  BY UpdatesElim DEF WatcherTypeOK, SnapshotType
<1>10. \A i \in Ids : Owed(i)' = Owed(i)
  BY <1>3, <1>6, <1>7, <1>8, <1>9, EndOwed
<1>11. Files \subseteq Ids /\ Sessions \subseteq Ids /\ Keys \subseteq Ids
  BY DEF Ids
<1>12. \A g, op : Noted(g, op)' <=> Noted(g, op)
  BY <1>2 DEF Noted
<1>13. Alone'
  BY <1>1, <1>4, <1>5 DEF Alone, SessionsIdle, ReloadsIdle
<1>14. Booked' /\ Snapped'
  BY <1>1, <1>2, <1>5 DEF Following, Booked, Snapped
<1>15. Versions'
  BY <1>1, <1>2, <1>12 DEF Following, Versions
<1>16. FilesDue'
  BY <1>1, <1>2, <1>12 DEF Following, FilesDue, Due
<1>17. FilesSettle'
  BY <1>1, <1>2, <1>10, <1>11 DEF Following, Settling, FilesSettle, Starting
<1>18. AuthsSettle' /\ SessionsSettle' /\ KeysSettle'
  BY <1>1, <1>2, <1>9, <1>10, <1>11
     DEF Following, Settling, AuthsSettle, SessionsSettle, KeysSettle, Booting, Midway
<1> QED
  BY <1>13, <1>14, <1>15, <1>16, <1>17, <1>18 DEF Following, Settling

-----------------------------------------------------------------------------
(* A login saves the file while no producer is at work ...                 *)
LEMMA LoginSaves ==
  ASSUME WatcherTypeOK, Following, LoginSave, ~mixed'
  PROVE  Following'
<1>1. UNCHANGED <<configFile, timer, snapshotVars, configVars, handler, reload, session, stranded, feedVars>>
  BY DEF LoginSave
<1>2. UNCHANGED <<lastAuthHashes, fileAuthsByPath, currentAuths, runtimeAuths, config, lastConfigHash>>
  BY <1>1 DEF snapshotVars, configVars
<1>3. PICK f \in Files, c \in Contents :
        /\ disk' = [disk EXCEPT ![f] = c]
        /\ Notified(f, <<"write">>)
        /\ login' = [Resting EXCEPT !.pc = "hook", !.file = f, !.data = c]
        /\ mixed' = (mixed \/ Producing \/ c = lastAuthHashes[f])
  BY DEF LoginSave
<1>4. ~Producing /\ c # lastAuthHashes[f] /\ c # None
  BY <1>3, WatcherAssumption
<1>5. /\ handler.pc = "idle" /\ login.pc = "idle"
      /\ \A r \in Reloaders : reload[r].pc = "idle"
      /\ \A s \in Sessions : session[s] \notin {"adding", "removing"}
  BY <1>4 DEF Producing
<1>6. login'.pc = "hook" /\ login'.file = f
  BY <1>3 DEF Resting
<1>7. disk \in [Files -> Hashes] /\ events \in Seq(Events)
  BY DEF WatcherTypeOK, DiskType
<1>8. disk'[f] = c /\ \A g \in Files : g # f => disk'[g] = disk[g]
  BY <1>3, <1>7
<1>9. (\A g, op : Noted(g, op) => Noted(g, op)') /\ Noted(f, "write")'
  <2>1. /\ \A g, op : Noted(g, op) => Noted(g, op)'
        /\ \A k \in DOMAIN <<"write">> : Noted(f, <<"write">>[k])'
    BY <1>3, <1>7, NotifiedNotes
  <2>2. 1 \in DOMAIN <<"write">> /\ <<"write">>[1] = "write"
    OBVIOUS
  <2> QED
    BY <2>1, <2>2
<1>10. Handed = {} /\ Handed' = {}
  <2>1. Handed = {}
    BY <1>5, HandlerHands DEF Handed
  <2>2. Handing(handler, reload, session, login') = {}
    BY <1>5, <1>6, HandlerHands
  <2> QED
    BY <1>1, <2>1, <2>2 DEF Handed
<1>11. \A i : Owed(i)' = Owed(i)
  BY <1>1, <1>10, SameOwed, SameTold
<1>12. Alone'
  BY <1>1, <1>5 DEF Alone, SessionsIdle, ReloadsIdle
<1>13. Booked'
  BY <1>1, <1>2, <1>4, <1>5, <1>6, <1>8 DEF Following, Booked
<1>14. Versions'
  BY <1>1, <1>2, <1>9 DEF Following, Versions
<1>15. Snapped'
  BY <1>1, <1>5 DEF Snapped
<1>16. FilesDue'
  <2> SUFFICES ASSUME NEW g \in Files, disk'[g] # lastAuthHashes[g] PROVE Due(g)'
    BY <1>1, <1>2 DEF FilesDue
  <2>1. CASE g = f
    BY <1>4, <1>8, <1>9, <2>1 DEF Due
  <2>2. CASE g # f
    <3>1. Due(g) /\ disk'[g] = disk[g]
      BY <1>5, <1>8, <2>2 DEF Following, FilesDue
    <3> QED
      BY <1>1, <1>9, <3>1 DEF Due
  <2> QED
    BY <2>1, <2>2
<1>17. FilesSettle'
  BY <1>1, <1>2, <1>4, <1>8, <1>11 DEF Following, Settling, FilesSettle, Starting
<1>18. AuthsSettle' /\ SessionsSettle' /\ KeysSettle'
  BY <1>1, <1>2, <1>11 DEF Following, Settling, AuthsSettle, SessionsSettle, KeysSettle, Booting, Midway
<1> QED
  BY <1>12, <1>13, <1>14, <1>15, <1>16, <1>17, <1>18 DEF Following, Settling

(* ... enters the credential in the snapshot ...                           *)
LEMMA LoginPersists ==
  ASSUME WatcherTypeOK, Following, DispatchPersisted
  PROVE  Following'
<1>1. PICK f \in Files, c \in Hashes : f = login.file /\ c = login.data
  BY DEF DispatchPersisted, WatcherTypeOK, WorkType, Work
<1>2. PICK u : u = [i \in {f} |-> c]
  OBVIOUS
<1>3. /\ login.pc = "hook" /\ login' = [Resting EXCEPT !.pc = "dispatch", !.updates = u]
      /\ fileAuthsByPath' = fileAuthsByPath \cup {f}
      /\ currentAuths' = With(currentAuths, f, c)
      /\ UNCHANGED <<diskVars, timer, lastAuthHashes, runtimeAuths, configVars, handler, reload, session,
                     feedVars, stranded>>
  BY <1>1, <1>2 DEF DispatchPersisted
<1>4. UNCHANGED <<disk, configFile, events, config, lastConfigHash>>
  BY <1>3 DEF diskVars, configVars
<1>5. lastAuthHashes[f] # disk[f]
  BY <1>1, <1>3 DEF Following, Booked
<1>6. /\ handler.pc = "idle" /\ \A r \in Reloaders : reload[r].pc = "idle"
      /\ \A s \in Sessions : session[s] \notin {"adding", "removing"}
  BY <1>3 DEF Following, Alone, SessionsIdle, ReloadsIdle
<1>7. u \in Updates
  <2>1. f \in Ids /\ c \in Values
    BY DEF Ids, Values, Hashes
  <2> QED
    BY <1>2, <2>1, OneUpdate
<1>8. login'.pc = "dispatch" /\ login'.updates = u
  BY <1>3 DEF Resting
<1>9. Handed = {} /\ Handed' = {u}
  <2>1. Handed = {}
    BY <1>3, <1>6, LoginHands DEF Handed
  <2>2. Handing(handler, reload, session, login') = {u}
    BY <1>6, <1>7, <1>8, LoginHands
  <2> QED
    BY <1>3, <2>1, <2>2 DEF Handed
<1>10. \A i : Owed(i)' = IF i = f THEN c ELSE Owed(i)
  <2>1. DOMAIN u = {f} /\ u[f] = c
    BY <1>2
  <2> QED
    BY <1>3, <1>9, <2>1, BeginOwed, SameTold
<1>11. f \notin Sessions /\ f \notin Keys
  BY WatcherAssumption
<1>12. \A g, op : Noted(g, op)' <=> Noted(g, op)
  BY <1>4 DEF Noted
<1>13. Alone'
  BY <1>3, <1>6 DEF Alone, SessionsIdle, ReloadsIdle
<1>14. Booked' /\ Snapped'
  BY <1>3, <1>4, <1>6, <1>8 DEF Following, Booked, Snapped
<1>15. Versions'
  BY <1>3, <1>4, <1>12 DEF Following, Versions
<1>16. FilesDue'
  BY <1>3, <1>4, <1>12 DEF Following, FilesDue, Due
<1>17. FilesSettle'
  BY <1>3, <1>4, <1>5, <1>10 DEF Following, Settling, FilesSettle, Starting
<1>18. AuthsSettle'
  BY <1>3, <1>10 DEF Following, Settling, AuthsSettle, With
<1>19. SessionsSettle'
  BY <1>3, <1>10, <1>11 DEF Following, Settling, SessionsSettle
<1>20. KeysSettle'
  <2>1. \A k \in Keys : Owed(k)' = Owed(k) /\ (k \in DOMAIN currentAuths => k \in DOMAIN currentAuths')
    BY <1>3, <1>10, <1>11 DEF With
  <2> QED
    BY <1>3, <1>4, <2>1 DEF Following, Settling, KeysSettle, Booting, Midway
<1> QED
  BY <1>13, <1>14, <1>15, <1>16, <1>17, <1>18, <1>19, <1>20 DEF Following, Settling

(* ... and hands it over.                                                  *)
LEMMA LoginDispatches ==
  ASSUME WatcherTypeOK, Following, LoginDispatch
  PROVE  Following'
<1>1. /\ login.pc = "dispatch" /\ login'.pc = "idle" /\ DispatchAuthUpdates(login.updates)
      /\ UNCHANGED <<diskVars, timer, snapshotVars, configVars, handler, reload, session, stranded>>
  BY DEF LoginDispatch, Resting
<1>2. UNCHANGED <<disk, configFile, events, config, lastConfigHash, lastAuthHashes, fileAuthsByPath,
                  currentAuths, runtimeAuths>>
  BY <1>1 DEF diskVars, configVars, snapshotVars
<1>3. login.updates \in Updates /\ FeedType /\ DOMAIN currentAuths \subseteq Ids
  BY UpdatesElim DEF WatcherTypeOK, WorkType, Work, SnapshotType
<1>4. /\ handler.pc = "idle" /\ \A r \in Reloaders : reload[r].pc = "idle"
      /\ \A s \in Sessions : session[s] \notin {"adding", "removing"}
  BY <1>1 DEF Following, Alone, SessionsIdle, ReloadsIdle
<1>5. Handed = {login.updates} /\ Handed' = {}
  <2>1. Handed = {login.updates}
    BY <1>1, <1>3, <1>4, LoginHands DEF Handed
  <2>2. Handing(handler, reload, session, login') = {}
    BY <1>1, <1>4, LoginHands
  <2> QED
    BY <1>1, <2>1, <2>2 DEF Handed
<1>6. \A i \in Ids : Owed(i)' = Owed(i)
  BY <1>1, <1>3, <1>5, EndOwed
<1>7. Files \subseteq Ids /\ Sessions \subseteq Ids /\ Keys \subseteq Ids
  BY DEF Ids
<1>8. \A g, op : Noted(g, op)' <=> Noted(g, op)
  BY <1>2 DEF Noted
<1>9. Alone'
  BY <1>1, <1>4 DEF Alone, SessionsIdle, ReloadsIdle
<1>10. Booked' /\ Snapped'
  BY <1>1, <1>2, <1>4 DEF Following, Booked, Snapped
<1>11. Versions'
  BY <1>1, <1>2, <1>8 DEF Following, Versions
<1>12. FilesDue'
  BY <1>1, <1>2, <1>8 DEF Following, FilesDue, Due
<1>13. FilesSettle'
  BY <1>1, <1>2, <1>6, <1>7 DEF Following, Settling, FilesSettle, Starting
<1>14. AuthsSettle' /\ SessionsSettle' /\ KeysSettle'
  BY <1>1, <1>2, <1>3, <1>6, <1>7
     DEF Following, Settling, AuthsSettle, SessionsSettle, KeysSettle, Booting, Midway
<1> QED
  BY <1>9, <1>10, <1>11, <1>12, <1>13, <1>14 DEF Following, Settling

-----------------------------------------------------------------------------
(* The sessions' states, and the runtime credentials with them.            *)
LEMMA SessionsStep ==
  ASSUME SessionsType, [WatcherNext]_vars
  PROVE  SessionsType'
<1>1. ASSUME NEW s \in Sessions, Connected(s) PROVE SessionsType'
  <2>1. session' = [session EXCEPT ![s] = "adding"] /\ runtimeAuths' = runtimeAuths \cup {s}
    BY <1>1 DEF Connected
  <2> QED
    BY <2>1 DEF SessionsType
<1>2. ASSUME NEW s \in Sessions, Disconnected(s) PROVE SessionsType'
  <2>1. session' = [session EXCEPT ![s] = "removing"] /\ runtimeAuths' = runtimeAuths \ {s}
    BY <1>2 DEF Disconnected
  <2> QED
    BY <2>1 DEF SessionsType
<1>3. ASSUME NEW s \in Sessions, SessionDispatch(s) PROVE SessionsType'
  <2>1. /\ runtimeAuths' = runtimeAuths
        /\ \/ session[s] = "adding" /\ session' = [session EXCEPT ![s] = "on"]
           \/ session[s] = "removing" /\ session' = [session EXCEPT ![s] = "gone"]
    BY <1>3 DEF SessionDispatch, snapshotVars
  <2> QED
    BY <2>1 DEF SessionsType
<1>4. CASE UNCHANGED <<session, runtimeAuths>>
  BY <1>4 DEF SessionsType
<1>5. CASE \/ FileChange \/ ConfigChange \/ WindowPasses \/ HandlerStep
           \/ \E r \in Reloaders : ReloadStep(r) \/ ReloadHook(r)
           \/ LoginSave \/ DispatchPersisted \/ LoginDispatch \/ FeedStep \/ UNCHANGED vars
  <2>1. CASE FileChange \/ ConfigChange \/ WindowPasses
    BY <1>4, <2>1 DEF FileChange, ConfigChange, WindowPasses, snapshotVars
  <2>2. CASE HandlerStep
    BY <1>4, <2>2 DEF HandlerStep, HandleConfigEvent, HandleWriteEvent, HandleRemoveEvent, HandleStat,
         HandleRead, AddOrUpdateClient, RemoveClient, HandlerDispatch, snapshotVars
  <2>3. ASSUME NEW r \in Reloaders, ReloadStep(r) \/ ReloadHook(r) PROVE SessionsType'
    BY <1>4, <2>3 DEF ReloadStep, ReloadHook, TimerFires, LoadConfig, SetConfig, ReloadClients,
         RescanAuthDir, CommitConfigUpdate, ApplyConfigRuntime, SnapshotCoreAuths, RefreshAuthState,
         ReloadDispatch, RecordConfigHash, snapshotVars
  <2>4. CASE LoginSave \/ DispatchPersisted \/ LoginDispatch \/ FeedStep
    BY <1>4, <2>4 DEF LoginSave, DispatchPersisted, LoginDispatch, FeedStep, snapshotVars
  <2>5. CASE UNCHANGED vars
    BY <1>4, <2>5 DEF vars, snapshotVars
  <2> QED
    BY <1>5, <2>1, <2>2, <2>3, <2>4, <2>5
<1> QED
  BY <1>1, <1>2, <1>3, <1>5 DEF WatcherNext

(* Producers that overlapped once stay so.                                 *)
LEMMA MixedStays ==
  ASSUME [WatcherNext]_vars, ~mixed'
  PROVE  ~mixed
<1>1. CASE FileChange \/ ConfigChange \/ WindowPasses
  BY <1>1 DEF FileChange, ConfigChange, WindowPasses
<1>2. CASE HandlerStep
  BY <1>2 DEF HandlerStep, HandleConfigEvent, HandleWriteEvent, HandleRemoveEvent, HandleStat,
         HandleRead, AddOrUpdateClient, RemoveClient, HandlerDispatch
<1>3. ASSUME NEW r \in Reloaders, ReloadStep(r) \/ ReloadHook(r) PROVE ~mixed
  BY <1>3 DEF ReloadStep, ReloadHook, TimerFires, ReloadConfigIfChanged, LoadConfig, SetConfig,
         ReloadClients, RescanAuthDir, CommitConfigUpdate, ApplyConfigRuntime, SnapshotCoreAuths,
         RefreshAuthState, ReloadDispatch, RecordConfigHash
<1>4. ASSUME NEW s \in Sessions, Connected(s) \/ Disconnected(s) \/ SessionDispatch(s) PROVE ~mixed
  BY <1>4 DEF Connected, Disconnected, SessionDispatch
<1>5. CASE LoginSave \/ DispatchPersisted \/ LoginDispatch \/ FeedStep
  BY <1>5 DEF LoginSave, DispatchPersisted, LoginDispatch, FeedStep
<1>6. CASE UNCHANGED vars
  BY <1>6 DEF vars
<1> QED
  BY <1>1, <1>2, <1>3, <1>4, <1>5, <1>6 DEF WatcherNext

(* Every step keeps the invariant.                                         *)
LEMMA SettleStep ==
  ASSUME SettleInv, [WatcherNext]_vars
  PROVE  SettleInv'
<1>1. WatcherTypeOK /\ SessionsType /\ WatcherTypeOK' /\ SessionsType'
  BY StepTypes, SessionsStep DEF SettleInv
<1> SUFFICES ASSUME ~mixed' PROVE Following'
  BY <1>1 DEF SettleInv
<1>2. Following
  BY MixedStays DEF SettleInv
<1>3. CASE FileChange
  BY <1>1, <1>2, <1>3, FileChangeFollows
<1>4. CASE ConfigChange
  BY <1>1, <1>2, <1>4, ConfigChangeFollows
<1>5. CASE WindowPasses
  <2>1. /\ UNCHANGED <<handler, reload, session, login, snapshotVars, config, lastConfigHash, timer,
                       disk, configFile, events, stranded>>
        /\ UNCHANGED feedVars
    BY <1>5 DEF WindowPasses, diskVars, configVars
  <2> QED
    BY <1>1, <1>2, <2>1, SameTold, FeedFollows
<1>6. CASE HandlerStep
  BY <1>1, <1>2, <1>6, HandlerFollows
<1>7. ASSUME NEW r \in Reloaders, ReloadStep(r) \/ ReloadHook(r) PROVE Following'
  BY <1>1, <1>2, <1>7, ReloadStarts, ReloadLoads, ReloadCommits, ReloadRecords, ReloadRescans,
     ReloadRefreshes, ReloadDispatches DEF ReloadStep
<1>8. ASSUME NEW s \in Sessions, Connected(s) \/ Disconnected(s) \/ SessionDispatch(s) PROVE Following'
  BY <1>1, <1>2, <1>8, SessionFollows, SessionDispatches
<1>9. CASE LoginSave \/ DispatchPersisted \/ LoginDispatch
  BY <1>1, <1>2, <1>9, LoginSaves, LoginPersists, LoginDispatches
<1>10. CASE FeedStep
  <2>1. UNCHANGED <<handler, reload, session, login, snapshotVars, config, lastConfigHash, timer,
                    disk, configFile, events, stranded>>
    BY <1>10 DEF FeedStep, diskVars, configVars
  <2>2. \A i \in Ids : Told(i)' = Told(i)
    BY <1>1, <1>10, FeedKeepsTold DEF WatcherTypeOK
  <2> QED
    BY <1>1, <1>2, <2>1, <2>2, FeedFollows
<1>11. CASE UNCHANGED vars
  <2>1. /\ UNCHANGED <<handler, reload, session, login, snapshotVars, config, lastConfigHash, timer,
                       disk, configFile, events, stranded>>
        /\ UNCHANGED feedVars
    BY <1>11 DEF vars, diskVars, configVars
  <2> QED
    BY <1>1, <1>2, <2>1, SameTold, FeedFollows
<1> QED
  BY <1>3, <1>4, <1>5, <1>6, <1>7, <1>8, <1>9, <1>10, <1>11 DEF WatcherNext

(* When nothing waits, the manager has what it was told, and nothing else  *)
(* is owed to it if nobody is at work.                                     *)
LEMMA AllTold ==
  ASSUME pendingUpdates = NoUpdates, batch = NoUpdates, authUpdates = <<>>, Handed = {}, NEW i
  PROVE  Owed(i) = manager[i]
<1>1. Held(NoUpdates, i) = <<>>
  BY DEF Held, NoUpdates
<1>2. Queued(<<>>, i) = <<>>
  BY NothingQueued
<1>3. Waiting(i) = <<>>
  BY <1>1, <1>2 DEF Waiting
<1>4. {u \in Handed : i \in DOMAIN u} = {}
  OBVIOUS
<1> QED
  BY <1>3, <1>4 DEF Told, Owed

(* Load and registerConfigAPIKeyAuths have brought everything to the       *)
(* manager before the watcher starts.                                      *)
LEMMA SettleStart ==
  ASSUME WatcherInit
  PROVE  SettleInv
<1>1. WatcherTypeOK
  BY StartTypes
<1>2. SessionsType
  BY DEF WatcherInit, SessionsType
<1>3. PICK first : first = First(Reloaders)
  OBVIOUS
<1>4. /\ handler.pc = "idle" /\ login.pc = "idle"
      /\ \A s \in Sessions : session[s] = "off"
      /\ \A f \in Files : lastAuthHashes[f] = None
      /\ DOMAIN currentAuths = {} /\ runtimeAuths = {}
      /\ config = configFile /\ configFile \in Configs /\ lastConfigHash = None
      /\ configFile.keys = FirstKeys /\ stranded = {}
  BY <1>1 DEF WatcherInit, Resting, NoUpdates, WatcherTypeOK, DiskType
<1>5. \A r \in Reloaders : /\ r = first => reload[r].pc = "rescan" /\ reload[r].boot
                           /\ r # first => reload[r].pc = "idle" /\ ~reload[r].boot
  BY <1>3 DEF WatcherInit, NoReload
<1>6. first \in Reloaders
  BY <1>3, WatcherAssumption DEF First
<1>7. Handed = {}
  BY <1>4, <1>5, HandlerHands DEF Handed
<1>8. \A i : Owed(i) = manager[i]
  BY <1>7, AllTold DEF WatcherInit
<1>9. /\ \A f \in Files : disk[f] = None => manager[f] = None
      /\ \A s \in Sessions : manager[s] = None
      /\ \A k \in Keys : manager[k] = IF k \in config.keys THEN config.version ELSE None
  BY <1>4, WatcherAssumption DEF WatcherInit, Snapshot, Ids
<1>10. Alone
  BY <1>4, <1>5 DEF Alone, SessionsIdle, ReloadsIdle
<1>11. Booked /\ Snapped
  BY <1>4, <1>5 DEF Booked, Snapped
<1>12. Versions
  <2>1. None # configFile
    BY <1>4, WatcherAssumption
  <2> QED
    BY <1>4, <1>5, <2>1 DEF Versions
<1>13. FilesDue
  BY <1>5, <1>6 DEF FilesDue
<1>14. Settling
  BY <1>4, <1>5, <1>6, <1>8, <1>9 DEF Settling, FilesSettle, AuthsSettle, SessionsSettle, KeysSettle,
                                      Booting
<1> QED
  BY <1>1, <1>2, <1>10, <1>11, <1>12, <1>13, <1>14 DEF SettleInv, Following

(* Once everything has settled, the watcher has the configuration of its   *)
(* file, and the manager has every credential of the auth directory, of    *)
(* the configuration file and of the connected sessions in its last form,  *)
(* and no other, except for the keys that left the configuration in an     *)
(* edit that affected their provider.  It holds for as long as no two      *)
(* producers overlapped and none missed a change: whatever was edited      *)
(* meanwhile, and however the handler of the file events, the reloads, the *)
(* sessions, the logins and the feed took their turns.                     *)
THEOREM HotReloadSettles == WatcherSpec => []HotReloadConverges
<1>1. WatcherInit => SettleInv
  BY SettleStart
<1>2. SettleInv /\ [WatcherNext]_vars => SettleInv'
  BY SettleStep
<1>3. SettleInv => HotReloadConverges
  <2> SUFFICES ASSUME SettleInv, Quiet, ~mixed
               PROVE  /\ config = configFile
                      /\ \A i \in DOMAIN OnDisk : manager[i] = OnDisk[i]
                      /\ Managed \subseteq DOMAIN OnDisk \cup stranded
    BY DEF HotReloadConverges
  <2>1. WatcherTypeOK /\ SessionsType /\ Following
    BY DEF SettleInv
  <2>2. /\ handler.pc = "idle" /\ login.pc = "idle" /\ events = <<>> /\ ~timer
        /\ \A r \in Reloaders : reload[r].pc = "idle"
        /\ \A s \in Sessions : session[s] \notin {"adding", "removing"}
        /\ pendingUpdates = NoUpdates /\ batch = NoUpdates /\ authUpdates = <<>>
    BY DEF Quiet, Producing
  <2>3. \A g, op : ~Noted(g, op)
    BY <2>2 DEF Noted
  <2>4. config = configFile
    BY <2>1, <2>2, <2>3 DEF Following, Versions
  <2>5. \A f \in Files : lastAuthHashes[f] = disk[f]
    BY <2>1, <2>2, <2>3 DEF Following, FilesDue, Due
  <2>6. Handed = {}
    BY <2>2, HandlerHands DEF Handed
  <2>7. \A i : Owed(i) = manager[i]
    BY <2>2, <2>6, AllTold
  <2>8. \A f \in Files : manager[f] = disk[f]
    BY <2>1, <2>2, <2>5, <2>7 DEF Following, Settling, FilesSettle, Starting
  <2>9. \A s \in Sessions : manager[s] = IF session[s] = "on" THEN 1 ELSE None
    BY <2>1, <2>2, <2>7 DEF Following, Settling, SessionsSettle, SessionsType
  <2>10. \A k \in Keys : /\ k \in configFile.keys => manager[k] = configFile.version
                         /\ manager[k] # None => k \in configFile.keys \cup stranded
    BY <2>1, <2>2, <2>4, <2>7 DEF Following, Settling, KeysSettle, Midway
  <2>11. configFile.keys \subseteq Keys
    BY <2>1 DEF WatcherTypeOK, DiskType, Configs
  <2> DEFINE known == {f \in Files : disk[f] # None} \cup configFile.keys
             on == {s \in Sessions : session[s] = "on"}
  <2>12. Managed \subseteq known \cup on \cup stranded
    BY <2>8, <2>9, <2>10 DEF Managed, Ids
  <2>13. DOMAIN Snapshot(disk, configFile) = known
    BY DEF Snapshot
  <2>14. ASSUME NEW i \in known \cup on
         PROVE  manager[i] = IF i \in Sessions THEN 1 ELSE Snapshot(disk, configFile)[i]
    <3>1. CASE i \in on
      BY <2>9, <3>1
    <3>2. CASE i \in known
      <4>1. i \notin Sessions /\ (i \notin Keys => i \in Files) /\ (i \in Keys => i \in configFile.keys)
        BY <2>11, <3>2, WatcherAssumption
      <4>2. Snapshot(disk, configFile)[i] = IF i \in Keys THEN configFile.version ELSE disk[i]
        BY <3>2 DEF Snapshot
      <4> QED
        BY <2>8, <2>10, <4>1, <4>2
    <3> QED
      BY <3>1, <3>2
  <2>15. OnDisk = [i \in known \cup on |-> IF i \in Sessions THEN 1 ELSE Snapshot(disk, configFile)[i]]
    BY <2>13 DEF OnDisk
  <2> HIDE DEF known, on
  <2> QED
    BY <2>4, <2>12, <2>14, <2>15
<1> QED
  BY <1>1, <1>2, <1>3, PTL DEF WatcherSpec

=============================================================================
