----------------------------- MODULE LatestWins -----------------------------
(***************************************************************************)
(* What the feed of credential updates promises: the updates of a          *)
(* credential are applied in the order in which they were handed over, an  *)
(* update is left out only for a later one of the same credential, and the *)
(* last one is applied in the end.                                         *)
(***************************************************************************)
EXTENDS Naturals, Sequences

CONSTANT Ids       \* credentials

VARIABLES
  waiting,         \* the updates of each credential that were not applied yet
  shown            \* what the consumer has of each credential

feedVars == <<waiting, shown>>

FeedInit == waiting = [i \in Ids |-> <<>>]

(* A new update, which may make some of those that wait superfluous. *)
Send ==
  /\ \A i \in Ids :
       \/ waiting'[i] = waiting[i]
       \/ /\ waiting'[i] # <<>>
          /\ \E k \in 0..Len(waiting[i]) :
               SubSeq(waiting'[i], 1, Len(waiting'[i]) - 1) = SubSeq(waiting[i], 1, k)
  /\ UNCHANGED shown

(* The oldest updates of some credentials are applied, the last one of     *)
(* them stays.                                                             *)
Show ==
  \A i \in Ids :
    \/ waiting'[i] = waiting[i] /\ shown'[i] = shown[i]
    \/ \E k \in 1..Len(waiting[i]) :
         /\ shown'[i] = waiting[i][k]
         /\ waiting'[i] = SubSeq(waiting[i], k + 1, Len(waiting[i]))

(* What never happens: an update that is lost or applied out of order. *)
FeedSafety == FeedInit /\ [][Send \/ Show]_feedVars

Delivered == \A i \in Ids : []<>(waiting[i] = <<>>)

FeedSpec == FeedSafety /\ Delivered
=============================================================================
