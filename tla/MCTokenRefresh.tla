--------------------------- MODULE MCTokenRefresh ---------------------------
(***************************************************************************)
(* Bounds for TokenRefresh.  A tick is the shortest backoff.  One login    *)
(* gives tokens that expire and are refreshed one tick ahead, the other    *)
(* asks for a refresh every tick and has no executor.                      *)
(***************************************************************************)
EXTENDS TokenRefresh, TLC

Expiring == [pref |-> 0, lead |-> 1, life |-> 2, exec |-> TRUE]

Stranded == [pref |-> 1, lead |-> 1, life |-> 0, exec |-> FALSE]

MCLogins == {Expiring, Stranded}

Alike == Permutations(Workers) \cup Permutations(Callers)

(* The view: what is left of a stopped loop's queue, marks, timer and jobs *)
(* is never read again, by a step or by a property.                        *)
LoopState == IF phase = "stopped" THEN <<>> ELSE <<queue, dirty, wake, timer, jobs, orphaned>>

RefreshView ==
  <<now, auths, phase, LoopState, loop, proc, locks, server, calls, spoiled, replayed, marked, spun>>
=============================================================================
