----------------------------- MODULE MCServices -----------------------------
(* Four parts that share no state in one run: the websocket relay, the     *)
(* usage queue, the request path and session affinity.  The initial state  *)
(* says which of them moves; the others rest in one initial state.         *)
EXTENDS WsRelay, UsageQueue, RequestPath, SessionAffinity

VARIABLE part

ServicesInit ==
  /\ RelayInit /\ QueueInit /\ PathInit /\ AffinityInit
  /\ part \in {"relay", "queue", "path", "affinity"}
  /\ part # "path" => limitConfig = CHOOSE limit \in Limits : TRUE

ServicesNext ==
  /\ \/ part = "relay" /\ RelayNext /\ UNCHANGED <<queueVars, pathVars, affinityVars>>
     \/ part = "queue" /\ QueueNext /\ UNCHANGED <<relayVars, pathVars, affinityVars>>
     \/ part = "path" /\ PathNext /\ UNCHANGED <<relayVars, queueVars, affinityVars>>
     \/ part = "affinity" /\ AffinityNext /\ UNCHANGED <<relayVars, queueVars, pathVars>>
  /\ UNCHANGED part

ServicesSpec ==
  ServicesInit /\ [][ServicesNext]_<<relayVars, queueVars, pathVars, affinityVars, part>>

(* Records and calls are only ever compared.  (So are subscriptions and    *)
(* pickers, but a larger group costs more time than it saves.)             *)
Interchangeable == Permutations(Records) \cup Permutations(Calls)
=============================================================================
