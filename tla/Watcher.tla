------------------------------ MODULE Watcher ------------------------------
(***************************************************************************)
(* Hot reload: the watcher of the configuration file and the auth          *)
(* directory, the runtime credentials that are pushed through it, the      *)
(* coalescing dispatcher, and the service's consumer that brings the       *)
(* updates to the auth manager.                                            *)
(*                                                                         *)
(* The code is internal/watcher, consumeAuthUpdates and handleAuthUpdates  *)
(* in sdk/cliproxy/service_auth.go, and the two phases of a configuration  *)
(* update in sdk/cliproxy/service_config.go.                               *)
(*                                                                         *)
(* Several goroutines look at the disk, change the watcher's snapshot      *)
(* under clientsMutex and hand the difference to the dispatcher under      *)
(* dispatchMu: one for the file system events, one per configuration       *)
(* reload, the websocket sessions and the logins.  Only the event handler  *)
(* and the rescan at the start exclude each other (authRescanMu).          *)
(*                                                                         *)
(* A file holds one credential.  A content stands for its hash and for the *)
(* credential synthesized from it.  Updates of different credentials are   *)
(* independent, so the order between them (pendingOrder) is left out.      *)
(***************************************************************************)
EXTENDS Naturals, Sequences, FiniteSets

CONSTANTS
  Files,         \* files of the auth directory
  Contents,      \* what such a file can hold
  Sessions,      \* websocket sessions, each with a credential of its own
  Keys,          \* the API keys a configuration can list, each a credential
  FirstKeys,     \* the keys of the configuration at the start
  None,          \* no file, no credential, no hash
  Reloaders,     \* goroutines that reload the configuration
  QueueCap,      \* capacity of Service.authUpdates
  MaxChanges,    \* bound on the edits, connections, logins and calls
  MaxLogins      \* bound: logins are among this many first changes

(* A configuration: every edit gives it a new version, and it lists API    *)
(* keys.  The id of a key's credential is made from the key, so that an    *)
(* edited key is another one.                                              *)
Configs == [version : Nat, keys : SUBSET Keys]

(* A credential has one source, and a missing one is no content, no        *)
(* version, no configuration and no file.                                  *)
ASSUME WatcherAssumption ==
  /\ Contents # {} /\ Reloaders # {}
  /\ None \notin Files \cup Contents /\ None \notin Nat /\ None \notin Configs
  /\ FirstKeys \subseteq Keys
  /\ Files \cap Sessions = {} /\ Keys \cap (Files \cup Sessions) = {}

VARIABLES
  disk,          \* the auth directory
  configFile,    \* the configuration its file holds
  changes,       \* edits, connections, logins and calls so far
  events,        \* the file system's notifications, oldest first
  timer,         \* configReloadTimer is set
  lastAuthHashes, fileAuthsByPath, currentAuths, runtimeAuths,
  lastRemoveTimes,  \* the files whose last removal is less than a window ago
  config,        \* Watcher.config
  lastConfigHash,
  handler,       \* the goroutine of processEvents
  reload,        \* the goroutines of reloadConfigIfChanged
  session,       \* the goroutines of the websocket sessions
  login,         \* the goroutine of a login
  pendingUpdates, batch, authUpdates,   \* the dispatcher and the queue to the service
  manager,       \* the auth manager's credentials
  served,        \* Service.cfg and configSequence
  applied,       \* the configuration the runtime has
  mixed,         \* history: two producers overlapped, or a change was ignored
  stranded       \* history: the keys a reload took out of currentAuths as affected
                 \* and no snapshot has put back

diskVars == <<disk, configFile, changes, events>>
snapshotVars == <<lastAuthHashes, fileAuthsByPath, currentAuths, runtimeAuths>>
feedVars == <<pendingUpdates, batch, authUpdates, manager>>
configVars == <<config, lastConfigHash, served, applied>>
vars == <<diskVars, timer, snapshotVars, lastRemoveTimes, configVars, handler, reload,
          session, login, feedVars, mixed, stranded>>

Ids == Files \cup Sessions \cup Keys

NoUpdates == [i \in {} |-> None]

Resting == [pc |-> "idle", file |-> None, data |-> None, updates |-> NoUpdates]
NoReload == [pc |-> "idle", boot |-> FALSE, cfg |-> None, changed |-> FALSE, sequence |-> 0,
             snap |-> NoUpdates, updates |-> NoUpdates]

(* What an auth directory and a configuration amount to.  A key takes its  *)
(* form from the settings of its version.                                  *)
Snapshot(d, c) ==
  [i \in {f \in Files : d[f] # None} \cup c.keys |-> IF i \in Keys THEN c.version ELSE d[i]]

(* Reloaders and contents are interchangeable: the start needs only one of *)
(* them.                                                                   *)
First(S) == CHOOSE x \in S : TRUE

(* Load and registerConfigAPIKeyAuths have filled the manager before the   *)
(* watcher starts.                                                         *)
WatcherInit ==
  /\ disk \in [Files -> {None, First(Contents)}]
  /\ configFile = [version |-> 1, keys |-> FirstKeys]
  /\ changes = 0
  /\ events = <<>>
  /\ timer = FALSE
  /\ lastAuthHashes = [f \in Files |-> None]
  /\ fileAuthsByPath = {}
  /\ currentAuths = NoUpdates
  /\ runtimeAuths = {}
  /\ lastRemoveTimes = {}
  /\ config = configFile
  /\ lastConfigHash = None
  /\ handler = Resting
  /\ reload = [r \in Reloaders |->
                 IF r = First(Reloaders)
                 THEN [NoReload EXCEPT !.pc = "rescan", !.boot = TRUE, !.cfg = configFile]
                 ELSE NoReload]
  /\ session = [s \in Sessions |-> "off"]
  /\ login = Resting
  /\ pendingUpdates = NoUpdates
  /\ batch = NoUpdates
  /\ authUpdates = <<>>
  /\ LET start == Snapshot(disk, configFile) IN
     manager = [i \in Ids |-> IF i \in DOMAIN start THEN start[i] ELSE None]
  /\ served = [cfg |-> configFile, sequence |-> 0]
  /\ applied = configFile
  /\ mixed = FALSE
  /\ stranded = {}

(* A producer is at work: it has looked at the disk or at the snapshot and *)
(* has not handed over its updates, or not recorded what it read.          *)
Producing ==
  \/ handler.pc # "idle"
  \/ \E r \in Reloaders : reload[r].pc # "idle"
  \/ \E s \in Sessions : session[s] \in {"adding", "removing"}
  \/ login.pc # "idle"

-----------------------------------------------------------------------------
Change == changes < MaxChanges /\ changes' = changes + 1

(* The file system: somebody edits the auth directory or the configuration *)
(* file, and the notification is queued.                                   *)

Notified(f, ops) == events' = events \o [k \in DOMAIN ops |-> [file |-> f, op |-> ops[k]]]

(* A file that is replaced may be reported as removed first. *)
FileChange ==
  /\ Change
  /\ \E f \in Files, c \in {None} \cup Contents :
       /\ c # disk[f]
       /\ disk' = [disk EXCEPT ![f] = c]
       /\ \/ c = None /\ Notified(f, <<"remove">>)
          \/ c # None /\ Notified(f, <<"write">>)
          \/ c # None /\ disk[f] # None /\ Notified(f, <<"remove", "write">>)
       /\ mixed' = (mixed \/ c = lastAuthHashes[f])
  /\ UNCHANGED <<configFile, timer, snapshotVars, lastRemoveTimes, configVars, handler, reload,
                 session, login, feedVars, stranded>>

ConfigChange ==
  /\ Change
  /\ \E K \in SUBSET Keys : configFile' = [version |-> configFile.version + 1, keys |-> K]
  /\ Notified(None, <<"write">>)
  /\ mixed' = (mixed \/ \E r \in Reloaders : /\ reload[r].pc \notin {"idle", "load"}
                                             /\ ~reload[r].boot)
  /\ UNCHANGED <<disk, timer, snapshotVars, lastRemoveTimes, configVars, handler, reload,
                 session, login, feedVars, stranded>>

(* authRemoveDebounceWindow passes. *)
WindowPasses ==
  /\ lastRemoveTimes # {}
  /\ lastRemoveTimes' = {}
  /\ UNCHANGED <<diskVars, timer, snapshotVars, configVars, handler, reload, session, login,
                 feedVars, mixed, stranded>>

-----------------------------------------------------------------------------
(* Mutant of DispatchAuthUpdates: an update that waits is kept. *)
DispatchAuthUpdatesOldest(updates) ==
  /\ pendingUpdates' = [i \in DOMAIN pendingUpdates \cup DOMAIN updates |->
                          IF i \in DOMAIN pendingUpdates THEN pendingUpdates[i] ELSE updates[i]]
  /\ UNCHANGED <<batch, authUpdates, manager>>

(* dispatchAuthUpdates: a later update of a credential takes the place of  *)
(* one that waits.                                                         *)

DispatchAuthUpdates(updates) ==
  /\ pendingUpdates' = [i \in DOMAIN pendingUpdates \cup DOMAIN updates |->
                          IF i \in DOMAIN updates THEN updates[i] ELSE pendingUpdates[i]]
  /\ UNCHANGED <<batch, authUpdates, manager>>

(* computePerPathUpdatesLocked for a file that held a credential (known)   *)
(* and now holds the content c, None for no credential.                    *)
PerPathUpdates(f, known, c) ==
  IF c # None
  THEN IF f \in DOMAIN currentAuths /\ currentAuths[f] = c THEN NoUpdates
       ELSE [i \in {f} |-> c]
  ELSE IF known THEN [i \in {f} |-> None] ELSE NoUpdates

With(auths, f, c) == [i \in DOMAIN auths \cup {f} |-> IF i = f THEN c ELSE auths[i]]
Without(auths, S) == [i \in DOMAIN auths \ S |-> auths[i]]

-----------------------------------------------------------------------------
(* processEvents and handleEvent.  The handler holds authRescanMu while it *)
(* is not idle.                                                            *)

HandleConfigEvent ==
  /\ handler.pc = "idle"
  /\ events # <<>> /\ Head(events).file = None
  /\ events' = Tail(events)
  /\ timer' = TRUE                    \* scheduleConfigReload
  /\ UNCHANGED <<disk, configFile, changes, snapshotVars, lastRemoveTimes, configVars, handler,
                 reload, session, login, feedVars, mixed, stranded>>

HandleWriteEvent ==
  /\ handler.pc = "idle"
  /\ events # <<>> /\ Head(events).file # None /\ Head(events).op = "write"
  /\ events' = Tail(events)
  /\ handler' = [Resting EXCEPT !.pc = "read", !.file = Head(events).file]
  /\ mixed' = (mixed \/ Producing)
  /\ UNCHANGED <<disk, configFile, changes, timer, snapshotVars, lastRemoveTimes, configVars,
                 reload, session, login, feedVars, stranded>>

(* A second removal within the window is taken for noise. *)
HandleRemoveEvent ==
  /\ handler.pc = "idle"
  /\ events # <<>> /\ Head(events).file # None /\ Head(events).op = "remove"
  /\ events' = Tail(events)
  /\ LET f == Head(events).file IN
     \/ /\ f \in lastRemoveTimes
        /\ mixed' = (mixed \/ disk[f] = None)
        /\ UNCHANGED <<handler, lastRemoveTimes>>
     \/ /\ f \notin lastRemoveTimes
        /\ lastRemoveTimes' = lastRemoveTimes \cup {f}
        /\ handler' = [Resting EXCEPT !.pc = "stat", !.file = f]
        /\ mixed' = (mixed \/ Producing)
  /\ UNCHANGED <<disk, configFile, changes, timer, snapshotVars, configVars, reload, session,
                 login, feedVars, stranded>>

(* After replaceCheckDelay the file may be back; the removal of a file     *)
(* that was never read is ignored.                                         *)
HandleStat ==
  /\ handler.pc = "stat"
  /\ LET f == handler.file IN
     \/ /\ disk[f] # None
        /\ handler' = [handler EXCEPT !.pc = "read"]
     \/ /\ disk[f] = None
        /\ handler' = IF lastAuthHashes[f] = None THEN Resting
                                                  ELSE [handler EXCEPT !.pc = "remove"]
  /\ UNCHANGED <<diskVars, timer, snapshotVars, lastRemoveTimes, configVars, reload, session,
                 login, feedVars, mixed, stranded>>

(* authFileUnchanged and the first half of addOrUpdateClientLocked. *)
HandleRead ==
  /\ handler.pc = "read"
  /\ LET f == handler.file IN
     \/ /\ disk[f] \in {None, lastAuthHashes[f]}
        /\ handler' = Resting
        /\ UNCHANGED lastAuthHashes
     \/ /\ disk[f] \notin {None, lastAuthHashes[f]}
        /\ lastAuthHashes' = [lastAuthHashes EXCEPT ![f] = disk[f]]
        /\ handler' = [handler EXCEPT !.pc = "add", !.data = disk[f]]
  /\ UNCHANGED <<diskVars, timer, fileAuthsByPath, currentAuths, runtimeAuths, lastRemoveTimes,
                 configVars, reload, session, login, feedVars, mixed, stranded>>

(* Without updates there is nothing to hand over. *)
HandOver(updates) ==
  IF updates = NoUpdates THEN Resting ELSE [Resting EXCEPT !.pc = "dispatch", !.updates = updates]

(* The second half: the synthesized credential enters the snapshot. *)
AddOrUpdateClient ==
  /\ handler.pc = "add"
  /\ fileAuthsByPath' = fileAuthsByPath \cup {handler.file}
  /\ currentAuths' = With(currentAuths, handler.file, handler.data)
  /\ handler' = HandOver(PerPathUpdates(handler.file, TRUE, handler.data))
  /\ UNCHANGED <<diskVars, timer, lastAuthHashes, runtimeAuths, lastRemoveTimes, configVars,
                 reload, session, login, feedVars, mixed, stranded>>

RemoveClient ==
  /\ handler.pc = "remove"
  /\ LET f == handler.file
         known == f \in fileAuthsByPath IN
     /\ lastAuthHashes' = [lastAuthHashes EXCEPT ![f] = None]
     /\ fileAuthsByPath' = fileAuthsByPath \ {f}
     /\ currentAuths' = IF known THEN Without(currentAuths, {f}) ELSE currentAuths
     /\ handler' = HandOver(PerPathUpdates(f, known, None))
  /\ UNCHANGED <<diskVars, timer, runtimeAuths, lastRemoveTimes, configVars, reload, session,
                 login, feedVars, mixed, stranded>>

HandlerDispatch ==
  /\ handler.pc = "dispatch"
  /\ DispatchAuthUpdates(handler.updates)
  /\ handler' = Resting
  /\ UNCHANGED <<diskVars, timer, snapshotVars, lastRemoveTimes, configVars, reload, session,
                 login, mixed, stranded>>

-----------------------------------------------------------------------------
(* reloadConfigIfChanged, started by the timer or by the management API,   *)
(* and the reload at the start of the watcher, which begins at the rescan. *)

Move(r, pc) == [reload EXCEPT ![r].pc = pc]

(* The first read of the file: a content that was seen is skipped. *)
ReloadConfigIfChanged(r) ==
  \/ /\ configFile = lastConfigHash
     /\ UNCHANGED <<reload, mixed>>
  \/ /\ configFile # lastConfigHash
     /\ reload' = Move(r, "load")
     /\ mixed' = (mixed \/ Producing)

(* A new goroutine: any of those that are not at work stands for it. *)
NewGoroutine(r) ==
  /\ reload[r].pc = "idle"
  /\ r = CHOOSE x \in Reloaders : reload[x].pc = "idle"

TimerFires(r) ==
  /\ timer
  /\ timer' = FALSE
  /\ NewGoroutine(r)
  /\ ReloadConfigIfChanged(r)
  /\ UNCHANGED <<diskVars, snapshotVars, lastRemoveTimes, configVars, handler, session, login,
                 feedVars, stranded>>

ReloadHook(r) ==
  /\ NewGoroutine(r)
  /\ Change
  /\ ReloadConfigIfChanged(r)
  /\ UNCHANGED <<disk, configFile, events, timer, snapshotVars, lastRemoveTimes, configVars,
                 handler, session, login, feedVars, stranded>>

(* reloadConfig reads the file again. *)
LoadConfig(r) ==
  /\ reload[r].pc = "load"
  /\ reload' = [reload EXCEPT ![r].pc = "set", ![r].cfg = configFile]
  /\ UNCHANGED <<diskVars, timer, snapshotVars, lastRemoveTimes, configVars, handler, session,
                 login, feedVars, mixed, stranded>>

(* Which settings differ decides whether all credentials are sent again    *)
(* (force) and which OAuth providers are affected: both are left open      *)
(* until they are used, and neither can be if nothing differs.             *)
SetConfig(r) ==
  /\ reload[r].pc = "set"
  /\ config' = reload[r].cfg
  /\ reload' = [reload EXCEPT ![r].pc = "clients", ![r].cfg = None,
                              ![r].changed = (config # reload[r].cfg)]
  /\ UNCHANGED <<diskVars, timer, snapshotVars, lastRemoveTimes, lastConfigHash, served, applied,
                 handler, session, login, feedVars, mixed, stranded>>

(* reloadClients takes the configuration that is set by now, and takes the *)
(* credentials of the affected providers out of the snapshot: any of them, *)
(* whatever their source.                                                  *)
ReloadClients(r) ==
  /\ reload[r].pc = "clients"
  /\ \E S \in SUBSET DOMAIN currentAuths :
       /\ ~reload[r].changed => S = {}
       /\ currentAuths' = Without(currentAuths, S)
       /\ stranded' = stranded \cup (S \cap Keys)
  /\ reload' = [reload EXCEPT ![r].pc = "commit", ![r].cfg = config]
  /\ UNCHANGED <<diskVars, timer, lastAuthHashes, fileAuthsByPath, runtimeAuths, lastRemoveTimes,
                 configVars, handler, session, login, feedVars, mixed>>

(* Only at the start: the auth directory's files are not rescanned while   *)
(* its path stays the same.                                                *)
RescanAuthDir(r) ==
  /\ reload[r].pc = "rescan"
  /\ handler.pc = "idle"
  /\ lastAuthHashes' = disk
  /\ fileAuthsByPath' = {f \in Files : disk[f] # None}
  /\ reload' = Move(r, "commit")
  /\ UNCHANGED <<diskVars, timer, currentAuths, runtimeAuths, lastRemoveTimes, configVars,
                 handler, session, login, feedVars, mixed, stranded>>

(* The reload callback.  commitConfigUpdate numbers the configuration ... *)
CommitConfigUpdate(r) ==
  /\ reload[r].pc = "commit"
  /\ served' = [cfg |-> reload[r].cfg, sequence |-> served.sequence + 1]
  /\ reload' = [reload EXCEPT ![r].pc = "apply", ![r].sequence = served.sequence + 1]
  /\ UNCHANGED <<diskVars, timer, snapshotVars, lastRemoveTimes, config, lastConfigHash, applied,
                 handler, session, login, feedVars, mixed, stranded>>

(* Mutant of ApplyConfigRuntime: whoever gets the lock applies its own. *)
ApplyConfigRuntimeUnchecked(r) ==
  /\ reload[r].pc = "apply"
  /\ applied' = reload[r].cfg
  /\ reload' = [reload EXCEPT ![r].pc = "snapshot", ![r].cfg = None, ![r].sequence = 0]
  /\ UNCHANGED <<diskVars, timer, snapshotVars, lastRemoveTimes, config, lastConfigHash, served,
                 handler, session, login, feedVars, mixed, stranded>>

(* ... and applyConfigRuntime, under configRuntimeMu, leaves a commit that *)
(* is no longer the last one to its successor.                             *)
ApplyConfigRuntime(r) ==
  /\ reload[r].pc = "apply"
  /\ applied' = IF reload[r].sequence = served.sequence THEN reload[r].cfg ELSE applied
  /\ reload' = [reload EXCEPT ![r].pc = "snapshot", ![r].cfg = None, ![r].sequence = 0]
  /\ UNCHANGED <<diskVars, timer, snapshotVars, lastRemoveTimes, config, lastConfigHash, served,
                 handler, session, login, feedVars, mixed, stranded>>

(* refreshAuthState reads the directory without any lock ... *)
SnapshotCoreAuths(r) ==
  /\ reload[r].pc = "snapshot"
  /\ reload' = [reload EXCEPT ![r].pc = "refresh", ![r].snap = Snapshot(disk, config)]
  /\ UNCHANGED <<diskVars, timer, snapshotVars, lastRemoveTimes, configVars, handler, session,
                 login, feedVars, mixed, stranded>>

(* prepareAuthUpdatesLocked: the credentials that are new, changed or, by  *)
(* force, all of them; and the deletion of those that are gone.            *)
Difference(old, new, force) ==
  LET changed == {i \in DOMAIN new : i \in DOMAIN old /\ ~force => old[i] # new[i]}
      gone == DOMAIN old \ DOMAIN new
  IN [i \in (changed \cap DOMAIN new) \cup gone |-> IF i \in gone THEN None ELSE new[i]]

(* ... and the runtime credentials join the snapshot. *)
RefreshAuthState(r) ==
  LET new == [i \in DOMAIN reload[r].snap \cup runtimeAuths |->
                IF i \in runtimeAuths THEN 1 ELSE reload[r].snap[i]]
  IN
  /\ reload[r].pc = "refresh"
  /\ currentAuths' = new
  /\ stranded' = stranded \ DOMAIN new
  /\ \E force \in BOOLEAN :
       /\ ~reload[r].changed => ~force
       /\ reload' = [reload EXCEPT ![r].pc = "dispatch", ![r].changed = FALSE,
                                   ![r].snap = NoUpdates,
                                   ![r].updates = Difference(currentAuths, new, force)]
  /\ UNCHANGED <<diskVars, timer, lastAuthHashes, fileAuthsByPath, runtimeAuths, lastRemoveTimes,
                 configVars, handler, session, login, feedVars, mixed>>

ReloadDispatch(r) ==
  /\ reload[r].pc = "dispatch"
  /\ DispatchAuthUpdates(reload[r].updates)
  /\ reload' = [reload EXCEPT ![r] = IF @.boot THEN NoReload ELSE [NoReload EXCEPT !.pc = "rehash"]]
  /\ UNCHANGED <<diskVars, timer, snapshotVars, lastRemoveTimes, configVars, handler, session,
                 login, mixed, stranded>>

(* The hash that is kept is that of what the file holds after the reload. *)
RecordConfigHash(r) ==
  /\ reload[r].pc = "rehash"
  /\ lastConfigHash' = configFile
  /\ reload' = [reload EXCEPT ![r] = NoReload]
  /\ UNCHANGED <<diskVars, timer, snapshotVars, lastRemoveTimes, config, served, applied, handler,
                 session, login, feedVars, mixed, stranded>>

-----------------------------------------------------------------------------
(* The websocket sessions: wsOnConnected and wsOnDisconnected through      *)
(* emitAuthUpdate and dispatchRuntimeAuthUpdate.                           *)

Connected(s) ==
  /\ session[s] = "off"
  /\ Change
  /\ runtimeAuths' = runtimeAuths \cup {s}
  /\ currentAuths' = With(currentAuths, s, 1)
  /\ session' = [session EXCEPT ![s] = "adding"]
  /\ mixed' = (mixed \/ Producing)
  /\ UNCHANGED <<disk, configFile, events, timer, lastAuthHashes, fileAuthsByPath,
                 lastRemoveTimes, configVars, handler, reload, login, feedVars, stranded>>

Disconnected(s) ==
  /\ session[s] = "on"
  /\ Change
  /\ runtimeAuths' = runtimeAuths \ {s}
  /\ currentAuths' = Without(currentAuths, {s})
  /\ session' = [session EXCEPT ![s] = "removing"]
  /\ mixed' = (mixed \/ Producing)
  /\ UNCHANGED <<disk, configFile, events, timer, lastAuthHashes, fileAuthsByPath,
                 lastRemoveTimes, configVars, handler, reload, login, feedVars, stranded>>

SessionDispatch(s) ==
  /\ \/ /\ session[s] = "adding"
        /\ DispatchAuthUpdates([i \in {s} |-> 1])
        /\ session' = [session EXCEPT ![s] = "on"]
     \/ /\ session[s] = "removing"
        /\ DispatchAuthUpdates([i \in {s} |-> None])
        /\ session' = [session EXCEPT ![s] = "gone"]
  /\ UNCHANGED <<diskVars, timer, snapshotVars, lastRemoveTimes, configVars, handler, reload,
                 login, mixed, stranded>>

-----------------------------------------------------------------------------
(* A login saves the file and pushes the credential itself                 *)
(* (runtimeAuthSyncHook, dispatchPersistedAuthUpdate).                     *)

LoginSave ==
  /\ login.pc = "idle"
  /\ Change /\ changes < MaxLogins
  /\ \E f \in Files, c \in Contents :
       /\ disk' = [disk EXCEPT ![f] = c]
       /\ Notified(f, <<"write">>)
       /\ login' = [Resting EXCEPT !.pc = "hook", !.file = f, !.data = c]
       /\ mixed' = (mixed \/ Producing \/ c = lastAuthHashes[f])
  /\ UNCHANGED <<configFile, timer, snapshotVars, lastRemoveTimes, configVars, handler, reload,
                 session, feedVars, stranded>>

DispatchPersisted ==
  /\ login.pc = "hook"
  /\ fileAuthsByPath' = fileAuthsByPath \cup {login.file}
  /\ currentAuths' = With(currentAuths, login.file, login.data)
  /\ login' = [Resting EXCEPT !.pc = "dispatch", !.updates = [i \in {login.file} |-> login.data]]
  /\ UNCHANGED <<diskVars, timer, lastAuthHashes, runtimeAuths, lastRemoveTimes, configVars,
                 handler, reload, session, feedVars, mixed, stranded>>

LoginDispatch ==
  /\ login.pc = "dispatch"
  /\ DispatchAuthUpdates(login.updates)
  /\ login' = Resting
  /\ UNCHANGED <<diskVars, timer, snapshotVars, lastRemoveTimes, configVars, handler, reload,
                 session, mixed, stranded>>

-----------------------------------------------------------------------------
(* dispatchLoop and the service's consumer. *)

NextPendingBatch ==
  /\ batch = NoUpdates
  /\ pendingUpdates # NoUpdates
  /\ batch' = pendingUpdates
  /\ pendingUpdates' = NoUpdates
  /\ UNCHANGED <<authUpdates, manager>>

DeliverUpdate ==
  /\ batch # NoUpdates
  /\ Len(authUpdates) < QueueCap
  /\ LET i == CHOOSE x \in DOMAIN batch : TRUE IN
     /\ authUpdates' = Append(authUpdates, [id |-> i, val |-> batch[i]])
     /\ batch' = Without(batch, {i})
  /\ UNCHANGED <<pendingUpdates, manager>>

(* Mutant of Coalesce: the first update of each credential. *)
CoalesceFirst(queue) ==
  [i \in {queue[k].id : k \in DOMAIN queue} |->
     LET first == CHOOSE k \in DOMAIN queue :
                    /\ queue[k].id = i
                    /\ \A l \in DOMAIN queue : queue[l].id = i => l >= k
     IN queue[first].val]

(* coalesceAuthUpdates: the last update of each credential. *)
Coalesce(queue) ==
  [i \in {queue[k].id : k \in DOMAIN queue} |->
     LET last == CHOOSE k \in DOMAIN queue :
                   /\ queue[k].id = i
                   /\ \A l \in DOMAIN queue : queue[l].id = i => l <= k
     IN queue[last].val]

(* consumeAuthUpdates drains the queue and handleAuthUpdates applies it. *)
ConsumeAuthUpdates ==
  /\ authUpdates # <<>>
  /\ authUpdates' = <<>>
  /\ LET latest == Coalesce(authUpdates) IN
     manager' = [i \in Ids |-> IF i \in DOMAIN latest THEN latest[i] ELSE manager[i]]
  /\ UNCHANGED <<pendingUpdates, batch>>

FeedStep ==
  /\ NextPendingBatch \/ DeliverUpdate \/ ConsumeAuthUpdates
  /\ UNCHANGED <<diskVars, timer, snapshotVars, lastRemoveTimes, configVars, handler, reload,
                 session, login, mixed, stranded>>

-----------------------------------------------------------------------------
HandlerStep ==
  \/ HandleConfigEvent \/ HandleWriteEvent \/ HandleRemoveEvent
  \/ HandleStat \/ HandleRead \/ AddOrUpdateClient \/ RemoveClient \/ HandlerDispatch

ReloadStep(r) ==
  \/ TimerFires(r) \/ LoadConfig(r) \/ SetConfig(r) \/ ReloadClients(r) \/ RescanAuthDir(r)
  \/ CommitConfigUpdate(r) \/ ApplyConfigRuntime(r) \/ SnapshotCoreAuths(r)
  \/ RefreshAuthState(r) \/ ReloadDispatch(r) \/ RecordConfigHash(r)

WatcherNext ==
  \/ FileChange \/ ConfigChange \/ WindowPasses
  \/ HandlerStep
  \/ \E r \in Reloaders : ReloadStep(r) \/ ReloadHook(r)
  \/ \E s \in Sessions : Connected(s) \/ Disconnected(s) \/ SessionDispatch(s)
  \/ LoginSave \/ DispatchPersisted \/ LoginDispatch
  \/ FeedStep

WatcherSpec == WatcherInit /\ [][WatcherNext]_vars

(* The dispatcher and the consumer are goroutines that loop for as long as *)
(* the service runs.                                                       *)
WatcherFairSpec == WatcherSpec /\ WF_vars(FeedStep)

-----------------------------------------------------------------------------
(* Properties *)

(* Nothing is under way and nothing waits. *)
Quiet ==
  /\ events = <<>> /\ ~timer
  /\ ~Producing
  /\ pendingUpdates = NoUpdates /\ batch = NoUpdates /\ authUpdates = <<>>

Managed == {i \in Ids : manager[i] # None}

OnDisk == [i \in DOMAIN Snapshot(disk, configFile) \cup {s \in Sessions : session[s] = "on"} |->
             IF i \in Sessions THEN 1 ELSE Snapshot(disk, configFile)[i]]

(* Once everything has settled, the watcher has the configuration of its   *)
(* file, the manager has every credential of the auth directory, of the    *)
(* configuration file and of the connected sessions in its last form, and  *)
(* it has no other, with two exceptions that are the code's own.           *)
(*                                                                         *)
(* stranded: a key that leaves the configuration in the same edit that     *)
(* changes the excluded models of its provider stays in the manager.       *)
(* reloadClients has taken it out of currentAuths, so that                 *)
(* prepareAuthUpdatesLocked finds nothing to delete.  No other credential  *)
(* outlives its source, and none is missing.                               *)
(*                                                                         *)
(* mixed: nothing is said once two producers have overlapped, so that the  *)
(* older of two updates may be handed over last; once a configuration file *)
(* has changed during a reload, whose closing hash covers the change; once *)
(* a file has gone back to the content whose hash is kept, which a reload  *)
(* may have replaced in the manager; or once a removal has been swallowed  *)
(* by the debounce window.                                                 *)
HotReloadConverges ==
  Quiet /\ ~mixed =>
    /\ config = configFile
    /\ \A i \in DOMAIN OnDisk : manager[i] = OnDisk[i]
    /\ Managed \subseteq DOMAIN OnDisk \cup stranded

(* However reloads overlap, the runtime ends up with the configuration     *)
(* that was committed last: never with an older one that was slower.       *)
LastCommitIsApplied ==
  (\A r \in Reloaders : reload[r].pc # "apply") => applied = served.cfg

(* The updates of a credential in a queue, oldest first. *)
Queued(queue, i) ==
  LET mine == {k \in DOMAIN queue : queue[k].id = i}
      nth(n) == CHOOSE k \in mine : Cardinality({j \in mine : j <= k}) = n
  IN [n \in 1 .. Cardinality(mine) |-> queue[nth(n)].val]

Held(updates, i) == IF i \in DOMAIN updates THEN <<updates[i]>> ELSE <<>>

Waiting(i) == Queued(authUpdates, i) \o Held(batch, i) \o Held(pendingUpdates, i)

(* The coalescing map, the batch, the queue and the consumer together      *)
(* implement the feed LatestWins promises.                                 *)
Feed == INSTANCE LatestWins WITH shown <- manager, waiting <- [i \in Ids |-> Waiting(i)]
FeedIsLatestWins == Feed!FeedSpec
=============================================================================
