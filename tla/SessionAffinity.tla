-------------------------- MODULE SessionAffinity --------------------------
(***************************************************************************)
(* Session affinity: the cache that binds the identifiers of a session to  *)
(* a credential (sdk/cliproxy/auth/session_cache.go), the selector that    *)
(* uses it (SessionAffinitySelector.Pick in selector.go) and the removal   *)
(* of a credential.                                                        *)
(*                                                                         *)
(* The identifiers of one session are aliases: each has an entry of its    *)
(* own, a copy of the group's credential, expiry and list of aliases.  An  *)
(* operation of the cache is atomic (SessionCache.mu), a pick is several   *)
(* of them, made outside the manager's lock.                               *)
(*                                                                         *)
(* Provider and model are part of a key and are left out.  Invalidate, for *)
(* a single session, is not called by the program.                         *)
(***************************************************************************)
EXTENDS Naturals, Sequences, FiniteSets, SequencesExt

CONSTANTS
  Keys,          \* cache keys of sessions
  PromptKeys,    \* the ones made of a prompt cache key
  Bound,         \* the ones that are bound at the start
  Accounts,      \* credentials
  Pickers,
  MaxStable,     \* maxStableSessionAliases (64 in the code)
  Ttl,
  MaxClock, MaxPicks,
  NoKey

ASSUME AffinityAssumption ==
  /\ Accounts # {} /\ Bound \subseteq Keys /\ NoKey \notin Keys
  /\ {Ttl, MaxStable} \subseteq Nat \ {0} /\ {MaxClock, MaxPicks} \subseteq Nat

VARIABLES
  entries,       \* SessionCache.entries
  clock,
  accounts,      \* the credentials of the manager
  removing,      \* the credentials that Remove has deleted and not yet invalidated
  picker,        \* the goroutines inside Pick
  picks,
  overtaken      \* history: the credentials bound by a pick that began before
                 \* their removal and ended after it

affinityVars == <<entries, clock, accounts, removing, picker, picks, overtaken>>

Idle == [pc |-> "idle", primary |-> NoKey, fallback |-> NoKey, available |-> {}, auth |-> NoKey]

(* Some sessions were bound before, each by one of its identifiers, while  *)
(* a single credential was available.                                      *)
AffinityInit ==
  /\ entries = [k \in Bound |->
       [auth |-> CHOOSE a \in Accounts : TRUE, expires |-> Ttl, aliases |-> <<k>>]]
  /\ clock = 0
  /\ accounts = Accounts
  /\ removing = {}
  /\ picker = [p \in Pickers |-> Idle]
  /\ picks = 0
  /\ overtaken = {}

-----------------------------------------------------------------------------
(* The cache. *)

Live(k) == k \in DOMAIN entries /\ clock < entries[k].expires

(* The members of a sequence at some of its positions, in order. *)
Filtered(s, positions) ==
  [n \in 1 .. Cardinality(positions) |->
     s[CHOOSE i \in positions : Cardinality({j \in positions : j <= i}) = n]]

(* mergeSessionAliases: in order, without duplicates. *)
Merge(existing, candidates) ==
  LET all == existing \o candidates
  IN  Filtered(all, {i \in DOMAIN all : all[i] # NoKey /\ \A j \in 1 .. i - 1 : all[j] # all[i]})

(* compactSessionAliases: the first prompt key and the first MaxStable of  *)
(* the others.                                                             *)
Compact(aliases) ==
  LET Before(i) == {aliases[j] : j \in 1 .. i - 1}
  IN  Filtered(aliases, {i \in DOMAIN aliases :
                           IF aliases[i] \in PromptKeys
                           THEN Before(i) \cap PromptKeys = {}
                           ELSE Cardinality(Before(i) \ PromptKeys) < MaxStable})

(* removeAliasGroupLocked, for several groups: entries that are copies of  *)
(* the group go.                                                           *)
Without(groups) ==
  [k \in {l \in DOMAIN entries :
            \A group \in groups : l \notin Range(group.aliases) \/ entries[l] # group}
     |-> entries[k]]

ReplaceWithoutRemoving(auth, aliases, groups) ==
  LET group == [auth |-> auth, expires |-> clock + Ttl, aliases |-> aliases]
  IN  [k \in DOMAIN entries \cup Range(aliases) |->
         IF k \in Range(aliases) THEN group ELSE entries[k]]

ReplaceAliasGroups(auth, aliases, groups) ==
  LET group == [auth |-> auth, expires |-> clock + Ttl, aliases |-> aliases]
      kept == Without(groups)
  IN  [k \in DOMAIN kept \cup Range(aliases) |-> IF k \in Range(aliases) THEN group ELSE kept[k]]

(* SetAliases: the groups of the identifiers that are still live are       *)
(* joined, the expired ones are removed.                                   *)
SetAliases(auth, keys) ==
  LET found == {k \in Range(keys) : k \in DOMAIN entries}
      live == Filtered(keys, {i \in DOMAIN keys : Live(keys[i])})
      joined == IF Len(live) = 2
                THEN Merge(Merge(keys, entries[live[1]].aliases), entries[live[2]].aliases)
                ELSE IF Len(live) = 1 THEN Merge(keys, entries[live[1]].aliases) ELSE keys
  IN  ReplaceAliasGroups(auth, Compact(joined), {entries[k] : k \in found})

-----------------------------------------------------------------------------
(* A pick, with one identifier or two. *)

Keyed(p) == IF picker[p].fallback = NoKey THEN <<picker[p].primary>>
                                          ELSE <<picker[p].primary, picker[p].fallback>>

(* The caller collects the candidates under the manager's lock; which of   *)
(* them are available is nondeterministic.                                 *)
PickStart(p) ==
  /\ picker[p].pc = "idle"
  /\ picks < MaxPicks
  /\ picks' = picks + 1
  /\ \E primary \in Keys, fallback \in Keys \cup {NoKey}, available \in SUBSET accounts \ {{}} :
       /\ fallback # primary
       /\ picker' = [picker EXCEPT ![p] =
            [pc |-> "lookup", primary |-> primary, fallback |-> fallback,
             available |-> available, auth |-> NoKey]]
  /\ UNCHANGED <<entries, clock, accounts, removing, overtaken>>

(* A credential that was found is kept if it is available; otherwise the   *)
(* fallback selector chooses.                                              *)
Choose(p, cached) ==
  \E a \in picker[p].available :
    /\ cached \in picker[p].available => a = cached
    /\ picker' = [picker EXCEPT ![p].pc = "bind", ![p].auth = a]

(* GetAndRefresh of the primary key. *)
PickLookup(p) ==
  /\ picker[p].pc = "lookup"
  /\ LET k == picker[p].primary IN
       IF Live(k)
       THEN /\ entries' = ReplaceAliasGroups(entries[k].auth,
                            Compact(Merge(<<k>>, entries[k].aliases)), {entries[k]})
            /\ Choose(p, entries[k].auth)
       ELSE /\ entries' = IF k \in DOMAIN entries THEN Without({entries[k]}) ELSE entries
            /\ IF picker[p].fallback = NoKey
               THEN Choose(p, NoKey)
               ELSE picker' = [picker EXCEPT ![p].pc = "fallback"]
  /\ UNCHANGED <<clock, accounts, removing, picks, overtaken>>

(* Get of the fallback key. *)
PickFallback(p) ==
  /\ picker[p].pc = "fallback"
  /\ LET k == picker[p].fallback IN
       /\ Choose(p, IF Live(k) THEN entries[k].auth ELSE NoKey)
       /\ entries' = IF k \in DOMAIN entries /\ ~Live(k) THEN Without({entries[k]}) ELSE entries
  /\ UNCHANGED <<clock, accounts, removing, picks, overtaken>>

PickBind(p) ==
  /\ picker[p].pc = "bind"
  /\ entries' = SetAliases(picker[p].auth, Keyed(p))
  /\ overtaken' = IF picker[p].auth \in accounts THEN overtaken
                                                 ELSE overtaken \cup {picker[p].auth}
  /\ picker' = [picker EXCEPT ![p] = Idle]
  /\ UNCHANGED <<clock, accounts, removing, picks>>

-----------------------------------------------------------------------------
(* Manager.Remove: the credential goes first, its sessions after that. *)

RemoveAccount(a) ==
  /\ a \in accounts
  /\ accounts' = accounts \ {a}
  /\ removing' = removing \cup {a}
  /\ UNCHANGED <<entries, clock, picker, picks, overtaken>>

InvalidateAuthNothing(a) ==
  /\ a \in removing
  /\ removing' = removing \ {a}
  /\ UNCHANGED <<entries, clock, accounts, picker, picks, overtaken>>

InvalidateAuth(a) ==
  /\ a \in removing
  /\ removing' = removing \ {a}
  /\ entries' = [k \in {l \in DOMAIN entries : entries[l].auth # a} |-> entries[k]]
  /\ UNCHANGED <<clock, accounts, picker, picks, overtaken>>

CacheCleanup ==
  /\ \E k \in DOMAIN entries : ~Live(k)
  /\ entries' = [k \in {l \in DOMAIN entries : Live(l)} |-> entries[k]]
  /\ UNCHANGED <<clock, accounts, removing, picker, picks, overtaken>>

AffinityTick ==
  /\ clock < MaxClock
  /\ clock' = clock + 1
  /\ UNCHANGED <<entries, accounts, removing, picker, picks, overtaken>>

AffinityNext ==
  \/ \E p \in Pickers : PickStart(p) \/ PickLookup(p) \/ PickFallback(p) \/ PickBind(p)
  \/ \E a \in Accounts : RemoveAccount(a) \/ InvalidateAuth(a)
  \/ CacheCleanup
  \/ AffinityTick

AffinitySpec == AffinityInit /\ [][AffinityNext]_affinityVars

-----------------------------------------------------------------------------
(* Properties. *)

(* An alias group is whole: every identifier that a live entry lists has   *)
(* the same entry, so all identifiers of a session lead to one credential  *)
(* and expire together, whatever groups were joined, compacted, moved or   *)
(* half expired before.                                                    *)
GroupsAreWhole ==
  \A k \in Keys : Live(k) =>
    /\ k \in Range(entries[k].aliases)
    /\ \A l \in Range(entries[k].aliases) : l \in DOMAIN entries /\ entries[l] = entries[k]

(* A credential that was removed keeps no session, except the ones bound   *)
(* by a pick that had chosen it before it was removed: such a binding is   *)
(* not undone, only refused by the next pick.  What is left to go wrong is *)
(* an entry or alias that InvalidateAuth misses, and its running before    *)
(* the credential is deleted.                                              *)
RemovedHasNoSessions ==
  \A k \in DOMAIN entries :
    entries[k].auth \in accounts \cup removing \cup overtaken
=============================================================================
