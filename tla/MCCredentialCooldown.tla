------------------------ MODULE MCCredentialCooldown ------------------------
(* Small instances of CredentialCooldown for TLC.                          *)
EXTENDS CredentialCooldown, TLC

CallersAreAlike == Permutations(Callers)

(* The view of the runs about routing.  Without restarts and restores      *)
(* nothing reads the file again, and no property of these runs asks for it *)
(* or for what was forgiven.                                               *)
RoutingView == <<now, off, auth, stored, calls, mu, bound, sched, pick, schedBehind, exposed>>
=============================================================================
