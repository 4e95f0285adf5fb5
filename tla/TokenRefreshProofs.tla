------------------------- MODULE TokenRefreshProofs -------------------------
(***************************************************************************)
(* That refreshes present no superseded token and that the loop neither    *)
(* spins nor forgets a credential, proved for any number of credentials,   *)
(* workers and callers, any backoffs and any refresh times that logins ask *)
(* for.                                                                    *)
(***************************************************************************)
EXTENDS TokenRefresh, WellFoundedInduction, TLAPS

ProcPC == {"idle", "lock", "call", "answered", "reschedule", "after",
           "file", "copied", "update", "register", "stored", "removed"}
Answers == {"none", "granted", "failed", "unauthorized", "canceled"}
ProcState ==
  [pc : ProcPC, id : Auths \cup {"none"}, failed : Nat, auth : AuthType, answer : Answers]

LoopPC == {"idle", "drain", "due", "mark", "pending", "reread", "send", "apply", "put"}
LoopState ==
  [pc : LoopPC, at : Nat, todo : SUBSET Auths, id : Auths \cup {"none"}, next : Nat,
   back : {"none", "due", "apply"}]

(* The credentials and the clock *)
AuthsType ==
  /\ now \in 1 .. MaxTime
  /\ DOMAIN auths \subseteq Auths /\ \A id \in DOMAIN auths : auths[id] \in AuthType
  /\ server \in [Auths -> 1 .. MaxToken]
  /\ marked \in [Auths -> Nat]

(* The loop works on a credential at the places that name one. *)
LoopType ==
  /\ DOMAIN queue \subseteq Auths /\ \A id \in DOMAIN queue : queue[id] \in Nat \ {0}
  /\ dirty \subseteq Auths
  /\ jobs \in Seq(Auths)
  /\ loop \in LoopState
  /\ loop.pc \in {"mark", "pending", "reread", "send", "put"} => loop.id \in Auths
  /\ loop.pc = "put" => loop.back # "none"
  /\ loop.pc # "idle" => loop.at \in 1 .. now

(* So does a worker or a caller. *)
ProcType ==
  /\ proc \in [Procs -> ProcState]
  /\ \A p \in Procs : proc[p].pc # "idle" => proc[p].id \in Auths
  /\ locks \in [Auths -> Procs \cup {"none"}]

RefreshType == AuthsType /\ LoopType /\ ProcType

(* A credential's lock is held by whoever refreshes it. *)
Refreshing(p) == proc[p].pc \in {"call", "answered", "reschedule"}

Locking ==
  \A id \in Auths, p \in Procs : locks[id] = p <=> (Refreshing(p) /\ proc[p].id = id)

(* Unless an answer was lost or a login overtook a refresh, the copy that  *)
(* is being refreshed and the credential itself have the last token that   *)
(* was issued; while a grant waits to be stored, only the copy has it.     *)
Granted(p) == At(p, "answered") /\ proc[p].answer = "granted"

Tokens ==
  /\ \A p \in Procs :
       (At(p, "call") \/ Granted(p)) /\ proc[p].id \notin spoiled =>
          proc[p].auth.token = server[proc[p].id]
  /\ \A id \in DOMAIN auths \ spoiled :
       \/ auths[id].token = server[id]
       \/ \E p \in Procs : Granted(p) /\ proc[p].id = id
  /\ NoTokenReplayed

(* The loop is handling what popDue took off the queue. *)
DueRound ==
  loop.pc \in {"due", "mark", "pending", "reread", "send"} \/ (loop.pc = "put" /\ loop.back = "due")

(* A credential is not due at the time of its last mark any more, is filed *)
(* for a later time, and is taken up at a later time.                      *)
Marks ==
  /\ \A id \in Auths :
       /\ marked[id] <= now
       /\ loop.pc # "idle" => marked[id] <= loop.at
       /\ id \in DOMAIN queue => queue[id] > marked[id]
       /\ id \in DOMAIN auths /\ marked[id] # 0 =>
            NextRefreshCheckAt(auths[id], marked[id]) # marked[id]
       /\ phase \in {"off", "installed", "snapshot"} => marked[id] = 0
       /\ DueRound /\ id \in loop.todo => id \notin DOMAIN queue /\ marked[id] < loop.at
  /\ phase \in {"off", "installed", "snapshot"} => loop.pc = "idle"
  /\ DueRound /\ loop.pc # "due" => loop.id \notin loop.todo
  /\ loop.pc \in {"mark", "reread"} =>
       loop.id \notin DOMAIN queue /\ marked[loop.id] < loop.at
  /\ loop.pc = "put" /\ loop.next # 0 => loop.next > marked[loop.id]
  /\ NoSpin

RefreshInv == RefreshType /\ Locking /\ Tokens /\ Marks

-----------------------------------------------------------------------------
(* The operators *)

(* A queue with one more member. *)
LEMMA QueueOneMore ==
  ASSUME NEW S, NEW q \in Seq(S), NEW e \in S
  PROVE  Append(q, e) \in Seq(S)
  OBVIOUS

(* The later of two times.                                                 *)
LEMMA MaxOfTwo ==
  ASSUME NEW x \in Int, NEW y \in Int
  PROVE  Max({x, y}) \in Int /\ Max({x, y}) >= x /\ Max({x, y}) >= y
         /\ (Max({x, y}) = x \/ Max({x, y}) = y)
<1>1. \E m \in {x, y} : \A z \in {x, y} : m >= z
  <2>1. CASE x >= y
    BY <2>1
  <2>2. CASE y >= x
    BY <2>2
  <2> QED
    BY <2>1, <2>2
<1>2. Max({x, y}) \in {x, y} /\ \A z \in {x, y} : Max({x, y}) >= z
  BY <1>1 DEF Max
<1> QED
  BY <1>2

(* The earlier of two times.                                               *)
LEMMA MinOfTwo ==
  ASSUME NEW x \in Int, NEW y \in Int
  PROVE  Min({x, y}) \in Int /\ Min({x, y}) <= x /\ Min({x, y}) <= y
         /\ (Min({x, y}) = x \/ Min({x, y}) = y)
<1>1. \E m \in {x, y} : \A z \in {x, y} : m =< z
  <2>1. CASE x <= y
    BY <2>1
  <2>2. CASE y <= x
    BY <2>2
  <2> QED
    BY <2>1, <2>2
<1>2. Min({x, y}) \in {x, y} /\ \A z \in {x, y} : Min({x, y}) =< z
  BY <1>1 DEF Min
<1> QED
  BY <1>2

(* The refresh times of a credential, one by one.                          *)
LEMMA AuthFields ==
  ASSUME NEW a \in AuthType
  PROVE  /\ a.pref \in Nat /\ a.lead \in Nat /\ a.life \in Nat /\ a.expiry \in Nat
         /\ a.next \in Nat /\ a.last \in 0 .. MaxTime /\ a.last \in Nat /\ a.token \in 0 .. MaxToken
         /\ a.unauthorized \in BOOLEAN /\ a.exec \in BOOLEAN
<1>1. MaxTime \in Nat
  BY RefreshAssumption
<1> QED
  BY <1>1 DEF AuthType

(* The backoffs and the bounds.                                            *)
LEMMA Backoffs ==
  /\ PendingBackoff \in Nat \ {0} /\ FailureBackoff \in Nat \ {0}
  /\ IneffectiveBackoff \in Nat \ {0} /\ CheckInterval \in Nat \ {0}
  /\ MaxTime \in Nat \ {0} /\ MaxToken \in Nat \ {0}
  BY RefreshAssumption

(* A credential without a 401 and a backoff that asks for a period is due  *)
(* at the earlier of two times, and not before t.                          *)
LEMMA CheckAtPeriod ==
  ASSUME NEW a \in AuthType, NEW t \in Nat,
         ~a.unauthorized, a.next <= t, a.pref > 0,
         a.last # 0, a.expiry # 0 => a.expiry - t > a.pref
  PROVE  LET n == NextRefreshCheckAt(a, t)
         IN  n \in Nat /\ n >= t /\ (a.last + a.pref > t => n > t)
<1>1. a.pref \in Nat /\ a.last \in Nat /\ a.expiry \in Nat /\ a.next \in Nat
  BY AuthFields
<1> DEFINE x == a.last + a.pref
           y == IF a.expiry # 0 THEN a.expiry - a.pref ELSE x
           m == Min({x, y})
           n == Max({m, t})
<1>2. x \in Int /\ y \in Int /\ (y = x \/ y > t)
  BY <1>1
<1>3. {a.last + a.pref} \cup (IF a.expiry # 0 THEN {a.expiry - a.pref} ELSE {}) = {x, y}
  OBVIOUS
<1>4. NextRefreshCheckAt(a, t) =
        Max({Min({a.last + a.pref} \cup (IF a.expiry # 0 THEN {a.expiry - a.pref} ELSE {})), t})
  <2>1. ~(a.next > t) /\ ~(a.last = 0 \/ (a.expiry # 0 /\ a.expiry - t <= a.pref))
    BY <1>1
  <2> QED
    BY <2>1, Zenon DEF NextRefreshCheckAt
<1>5. NextRefreshCheckAt(a, t) = n
  BY <1>3, <1>4, Zenon
<1>6. x = a.last + a.pref
  OBVIOUS
<1> HIDE DEF x, y
<1>7. m \in Int /\ (m = x \/ m = y)
  BY <1>2, MinOfTwo
<1> HIDE DEF m
<1>8. n \in Int /\ n >= m /\ n >= t
  <2>1. t \in Int
    OBVIOUS
  <2> QED
    BY <1>7, <2>1, MaxOfTwo
<1> HIDE DEF n
<1> QED
  BY <1>1, <1>2, <1>5, <1>6, <1>7, <1>8

(* A credential with a lead only: its expiry or its last refresh counts.   *)
LEMMA CheckAtLead ==
  ASSUME NEW a \in AuthType, NEW t \in Nat, ~a.unauthorized, a.next <= t, a.pref = 0
  PROVE  LET n == NextRefreshCheckAt(a, t)
         IN  /\ a.lead = 0 => n = 0
             /\ a.lead # 0 => n \in Nat /\ n >= t
             /\ a.lead # 0 /\ a.expiry # 0 => n >= a.expiry - a.lead
             /\ a.lead # 0 /\ a.expiry = 0 /\ a.last # 0 => n >= a.last + a.lead
<1>1. a.pref \in Nat /\ a.lead \in Nat /\ a.last \in Nat /\ a.expiry \in Nat /\ a.next \in Nat
  BY AuthFields
<1>2. ~(a.next > t) /\ ~(a.pref > 0)
  BY <1>1
<1> DEFINE x == a.expiry - a.lead
           y == a.last + a.lead
<1>3. x \in Int /\ y \in Int /\ t \in Int
  BY <1>1
<1>4. NextRefreshCheckAt(a, t) =
        IF a.lead = 0 THEN 0
        ELSE IF a.expiry # 0 THEN Max({x, t}) ELSE IF a.last # 0 THEN Max({y, t}) ELSE t
  BY <1>2 DEF NextRefreshCheckAt
<1>5. Max({x, t}) \in Int /\ Max({x, t}) >= x /\ Max({x, t}) >= t
  <2> HIDE DEF x
  <2> QED
    BY <1>3, MaxOfTwo
<1>6. Max({y, t}) \in Int /\ Max({y, t}) >= y /\ Max({y, t}) >= t
  <2> HIDE DEF y
  <2> QED
    BY <1>3, MaxOfTwo
<1> DEFINE u == Max({x, t})
           v == Max({y, t})
<1>7. /\ u \in Int /\ u >= x /\ u >= t /\ v \in Int /\ v >= y /\ v >= t
      /\ NextRefreshCheckAt(a, t) =
           IF a.lead = 0 THEN 0 ELSE IF a.expiry # 0 THEN u ELSE IF a.last # 0 THEN v ELSE t
  BY <1>4, <1>5, <1>6
<1> HIDE DEF u, v
<1> QED
  BY <1>1, <1>7

(* nextRefreshCheckAt: not scheduled, or a time not before t.              *)
LEMMA CheckTime ==
  ASSUME NEW a \in AuthType, NEW t \in Nat
  PROVE  LET n == NextRefreshCheckAt(a, t) IN n \in Nat /\ (n = 0 \/ n >= t)
<1>1. /\ a.pref \in Nat /\ a.lead \in Nat /\ a.last \in Nat /\ a.expiry \in Nat /\ a.next \in Nat
      /\ a.unauthorized \in BOOLEAN
  BY AuthFields
<1>2. CASE a.unauthorized
  BY <1>2 DEF NextRefreshCheckAt
<1>3. CASE ~a.unauthorized /\ a.next > t
  BY <1>1, <1>3 DEF NextRefreshCheckAt
<1>4. CASE ~a.unauthorized /\ a.next <= t /\ a.pref > 0
  <2>1. CASE a.last = 0 \/ (a.expiry # 0 /\ a.expiry - t <= a.pref)
    BY <1>1, <1>4, <2>1 DEF NextRefreshCheckAt
  <2>2. CASE ~(a.last = 0 \/ (a.expiry # 0 /\ a.expiry - t <= a.pref))
    <3>1. a.last # 0 /\ (a.expiry # 0 => a.expiry - t > a.pref)
      BY <1>1, <2>2
    <3> QED
      BY <1>4, <3>1, CheckAtPeriod
  <2> QED
    BY <2>1, <2>2
<1>5. CASE ~a.unauthorized /\ a.next <= t /\ a.pref = 0
  BY <1>1, <1>5, CheckAtLead
<1> QED
  BY <1>1, <1>2, <1>3, <1>4, <1>5

(* A credential in its backoff, or with a 401, is not due.                 *)
LEMMA BackoffIsNotDue ==
  ASSUME NEW a \in AuthType, NEW t \in Nat \ {0}, a.unauthorized \/ a.next > t
  PROVE  NextRefreshCheckAt(a, t) # t
<1>1. a.next \in Nat /\ a.unauthorized \in BOOLEAN
  BY AuthFields
<1>2. CASE a.unauthorized
  BY <1>2 DEF NextRefreshCheckAt
<1>3. CASE ~a.unauthorized /\ a.next > t
  BY <1>1, <1>3 DEF NextRefreshCheckAt
<1> QED
  BY <1>1, <1>2, <1>3

(* refreshAuthForRequest leaves a credential that is not due at any time m *)
(* up to the present.                                                      *)
LEMMA RefreshedIsNotDue ==
  ASSUME AuthsType, NEW a \in AuthType
  PROVE  /\ Refreshed(a) \in AuthType /\ Refreshed(a).token = a.token
         /\ \A m \in 1 .. now : NextRefreshCheckAt(Refreshed(a), m) # m
<1> DEFINE fresh == [a EXCEPT !.last = now, !.next = 0, !.unauthorized = FALSE]
           r == Refreshed(a)
<1>0. now \in 1 .. MaxTime /\ now \in Nat /\ now >= 1
  BY Backoffs DEF AuthsType
<1>1. /\ fresh \in AuthType /\ fresh.last = now /\ fresh.next = 0 /\ fresh.unauthorized = FALSE
      /\ fresh.token = a.token
  <2>1. a \in AuthType
    OBVIOUS
  <2>2. [a EXCEPT !.last = now] \in AuthType
    BY <1>0, <2>1 DEF AuthType
  <2> QED
    BY <1>0, <2>1, <2>2 DEF AuthType
<1>2. r = [fresh EXCEPT !.next = IF ShouldRefresh(fresh, now) THEN now + IneffectiveBackoff ELSE 0]
  BY DEF Refreshed
<1> HIDE DEF fresh, r
<1> DEFINE n == IF ShouldRefresh(fresh, now) THEN now + IneffectiveBackoff ELSE 0
<1>3. n \in Nat
  BY <1>0, Backoffs
<1>4. r = [fresh EXCEPT !.next = n]
  BY <1>2
<1>5. ShouldRefresh(fresh, now) => n > now
  BY <1>0, Backoffs
<1>6. ~ShouldRefresh(fresh, now) => n = 0
  OBVIOUS
<1> HIDE DEF n
<1>7. /\ r \in AuthType /\ r.token = a.token /\ r.last = now /\ r.unauthorized = FALSE
      /\ r.pref = fresh.pref /\ r.lead = fresh.lead /\ r.expiry = fresh.expiry /\ r.next = n
  BY <1>1, <1>3, <1>4 DEF AuthType
<1>8. r.pref \in Nat /\ r.lead \in Nat /\ r.expiry \in Nat
  BY <1>7, AuthFields
<1>9. ASSUME NEW m \in 1 .. now
      PROVE  NextRefreshCheckAt(r, m) # m
  <2>0. m \in Nat \ {0} /\ m <= now
    BY <1>0
  <2>1. CASE ShouldRefresh(fresh, now)
    BY <1>0, <1>3, <1>5, <1>7, <2>0, <2>1, BackoffIsNotDue
  <2>2. CASE ~ShouldRefresh(fresh, now)
    <3>1. r.next <= m /\ r.last # 0 /\ ~r.unauthorized
      BY <1>0, <1>6, <1>7, <2>0, <2>2
    <3>2. CASE r.pref > 0
      <4>1. r.expiry # 0 => r.expiry - now > r.pref
        BY <1>0, <1>1, <1>7, <1>8, <2>2, <3>2 DEF ShouldRefresh
      <4>2. (r.expiry # 0 => r.expiry - m > r.pref) /\ r.last + r.pref > m
        BY <1>0, <1>7, <1>8, <2>0, <3>2, <4>1
      <4> QED
        BY <1>7, <2>0, <3>1, <3>2, <4>2, CheckAtPeriod
    <3>3. CASE r.pref = 0
      <4>1. r.lead # 0 /\ r.expiry # 0 => r.expiry - now > r.lead
        BY <1>0, <1>1, <1>7, <1>8, <2>2, <3>3 DEF ShouldRefresh
      <4> QED
        BY <1>0, <1>7, <1>8, <2>0, <3>1, <3>3, <4>1, CheckAtLead
    <3> QED
      BY <1>8, <3>2, <3>3
  <2> QED
    BY <2>1, <2>2
<1> QED
  BY <1>7, <1>9 DEF r

(* The next check of a known credential is a time not before t.            *)
LEMMA NextCheckTime ==
  ASSUME AuthsType, NEW id, NEW t \in Nat
  PROVE  NextCheck(id, t) \in Nat /\ (NextCheck(id, t) = 0 \/ NextCheck(id, t) >= t)
  BY CheckTime DEF AuthsType, NextCheck, Known

(* The records that stand for nothing.                                     *)
LEMMA IdleTypes ==
  NoAuth \in AuthType /\ Idle \in ProcState /\ LoopIdle \in LoopState
<1>1. 0 \in 0 .. MaxTime /\ 0 \in 0 .. MaxToken
  BY Backoffs
<1>2. NoAuth \in AuthType
  BY <1>1 DEF NoAuth, AuthType
<1>3. Idle \in ProcState
  BY <1>2 DEF Idle, ProcState, ProcPC, Answers
<1>4. LoopIdle \in LoopState
  BY DEF LoopIdle, LoopState, LoopPC
<1> QED
  BY <1>2, <1>3, <1>4

(* A credential as a login leaves it.                                      *)
LEMMA ObtainedType ==
  ASSUME now \in Nat, NEW login \in Logins, NEW token \in 0 .. MaxToken
  PROVE  Obtained(login, token) \in AuthType /\ Obtained(login, token).token = token
<1>1. login.pref \in Nat /\ login.lead \in Nat /\ login.life \in Nat /\ login.exec \in BOOLEAN
  BY RefreshAssumption
<1> DEFINE e == IF login.life = 0 THEN 0 ELSE now + login.life
<1>2. e \in Nat
  BY <1>1
<1>3. Obtained(login, token) =
        [NoAuth EXCEPT !.pref = login.pref, !.lead = login.lead, !.life = login.life,
                       !.exec = login.exec, !.expiry = e, !.token = token]
  BY DEF Obtained
<1> HIDE DEF e
<1>4. NoAuth \in AuthType
  BY IdleTypes
<1>5. [NoAuth EXCEPT !.pref = login.pref, !.lead = login.lead, !.life = login.life] \in AuthType
  BY <1>1, <1>4 DEF AuthType
<1> QED
  BY <1>1, <1>2, <1>3, <1>4, <1>5 DEF AuthType

-----------------------------------------------------------------------------
(* Initially all is quiet and the credentials have the first tokens.       *)
LEMMA InitRefreshInv == RefreshInit => RefreshInv
<1> SUFFICES ASSUME RefreshInit PROVE RefreshInv
  OBVIOUS
<1>1. PICK login \in Logins, expired \in BOOLEAN :
        auths = [id \in Auths |-> [Obtained(login, 1) EXCEPT !.expiry = IF expired THEN Min({@, now}) ELSE @]]
  BY DEF RefreshInit
<1>2. now \in 1 .. MaxTime /\ server \in [Auths -> 1 .. MaxToken] /\ marked \in [Auths -> Nat]
      /\ 1 \in 0 .. MaxToken /\ now = 1
  BY Backoffs DEF RefreshInit
<1> DEFINE o == Obtained(login, 1)
           a == [o EXCEPT !.expiry = IF expired THEN Min({@, now}) ELSE @]
<1>3. o \in AuthType /\ o.token = 1
  BY <1>2, ObtainedType
<1> HIDE DEF o
<1> DEFINE m == Min({o.expiry, now})
           e == IF expired THEN m ELSE o.expiry
<1>4. e \in Nat
  <2>1. o.expiry \in Nat /\ now \in Nat
    BY <1>2, <1>3, AuthFields
  <2>2. o.expiry \in Int /\ now \in Int
    BY <2>1
  <2>3. m \in Int /\ (m = o.expiry \/ m = now)
    BY <2>2, MinOfTwo
  <2> HIDE DEF m
  <2> QED
    BY <2>1, <2>3
<1>5. a = [o EXCEPT !.expiry = e]
  BY DEF a, e, m
<1> HIDE DEF e, a
<1>6. a \in AuthType /\ a.token = 1
  BY <1>3, <1>4, <1>5 DEF AuthType
<1>7. AuthsType
  BY <1>1, <1>2, <1>6 DEF AuthsType, a, o
<1>8. LoopType
  BY IdleTypes DEF RefreshInit, LoopType, LoopIdle
<1>9. ProcType
  BY IdleTypes DEF RefreshInit, ProcType, Idle
<1>10. Locking
  BY RefreshAssumption DEF RefreshInit, Locking, Refreshing, Idle, Procs
<1>11. Tokens
  BY <1>1, <1>6 DEF RefreshInit, Tokens, Granted, At, Idle, NoTokenReplayed, a, o
<1>12. Marks
  BY <1>2 DEF RefreshInit, Marks, DueRound, LoopIdle, NoSpin
<1> QED
  BY <1>7, <1>8, <1>9, <1>10, <1>11, <1>12 DEF RefreshInv, RefreshType

-----------------------------------------------------------------------------
(* Workers, callers, locks and tokens *)

(* Goroutine p turns into r. *)
Becomes(p, r) ==
  /\ r \in ProcState /\ (r.pc # "idle" => r.id \in Auths)
  /\ proc' = [proc EXCEPT ![p] = r]

(* A goroutine outside the lock that stays outside.                        *)
Outside(p) ==
  \E r : /\ Becomes(p, r)
         /\ proc[p].pc \notin {"call", "answered", "reschedule"}
         /\ r.pc \notin {"call", "answered", "reschedule"}

(* A goroutine that gives the lock back.                                   *)
Unlocks(p) ==
  /\ \E r : Becomes(p, r) /\ r.pc \notin {"call", "answered", "reschedule"}
  /\ Refreshing(p)
  /\ locks' = [locks EXCEPT ![proc[p].id] = "none"]

(* Whoever becomes another has its type.                                   *)
LEMMA BecomesType ==
  ASSUME ProcType, NEW p \in Procs, NEW r, Becomes(p, r), locks' \in [Auths -> Procs \cup {"none"}]
  PROVE  ProcType' /\ proc'[p] = r /\ \A q \in Procs \ {p} : proc'[q] = proc[q]
  BY DEF ProcType, Becomes

(* The locks while somebody moves outside them.                            *)
LEMMA OutsideLocking ==
  ASSUME ProcType, Locking, NEW p \in Procs, Outside(p), UNCHANGED locks
  PROVE  ProcType' /\ Locking' /\ \A q \in Procs : Granted(q)' <=> Granted(q)
<1>1. PICK r : /\ Becomes(p, r) /\ proc[p].pc \notin {"call", "answered", "reschedule"}
               /\ r.pc \notin {"call", "answered", "reschedule"}
  BY DEF Outside
<1>2. locks' \in [Auths -> Procs \cup {"none"}]
  BY DEF ProcType
<1>3. ProcType' /\ proc'[p] = r /\ \A q \in Procs \ {p} : proc'[q] = proc[q]
  BY <1>1, <1>2, BecomesType
<1>4. Locking'
  BY <1>1, <1>3 DEF Locking, Refreshing
<1>5. \A q \in Procs : Granted(q)' <=> Granted(q)
  BY <1>1, <1>3 DEF Granted, At
<1> QED
  BY <1>3, <1>4, <1>5

(* And the tokens, when a credential keeps its token or goes.              *)
LEMMA OutsideTokens ==
  ASSUME RefreshInv, NEW p \in Procs, Outside(p), UNCHANGED <<locks, server, spoiled, replayed>>,
         DOMAIN auths' \subseteq DOMAIN auths,
         \A id \in DOMAIN auths' : auths'[id].token = auths[id].token
  PROVE  ProcType' /\ Locking' /\ Tokens'
<1>1. PICK r : /\ Becomes(p, r) /\ proc[p].pc \notin {"call", "answered", "reschedule"}
               /\ r.pc \notin {"call", "answered", "reschedule"}
  BY DEF Outside
<1>2. ProcType' /\ Locking' /\ \A q \in Procs : Granted(q)' <=> Granted(q)
  BY OutsideLocking DEF RefreshInv, RefreshType
<1>3. proc'[p] = r /\ \A q \in Procs \ {p} : proc'[q] = proc[q]
  BY <1>1, <1>2, BecomesType DEF RefreshInv, RefreshType, ProcType
<1>4. \A q \in Procs : At(q, "call")' \/ Granted(q)' => proc'[q] = proc[q] /\ (At(q, "call") \/ Granted(q))
  BY <1>1, <1>2, <1>3 DEF At, Granted
<1>5. \A q \in Procs : Granted(q) => proc'[q] = proc[q]
  BY <1>1, <1>3 DEF At, Granted
<1> QED
  BY <1>2, <1>4, <1>5 DEF RefreshInv, Tokens, NoTokenReplayed

(* The same for a goroutine that gives up a lock: if it was granted a      *)
(* token, the credential is gone.                                          *)
LEMMA UnlockTokens ==
  ASSUME RefreshInv, NEW p \in Procs, Unlocks(p),
         Granted(p) => proc[p].id \notin DOMAIN auths,
         UNCHANGED <<auths, server, spoiled, replayed>>
  PROVE  ProcType' /\ Locking' /\ Tokens'
<1> USE DEF RefreshInv, RefreshType
<1>1. PICK r : Becomes(p, r) /\ r.pc \notin {"call", "answered", "reschedule"}
  BY DEF Unlocks
<1>2. proc[p].id \in Auths /\ Refreshing(p) /\ locks[proc[p].id] = p
  BY DEF Unlocks, Refreshing, ProcType, Locking
<1>3. locks' \in [Auths -> Procs \cup {"none"}] /\ locks' = [locks EXCEPT ![proc[p].id] = "none"]
  BY <1>2 DEF Unlocks, ProcType
<1>4. ProcType' /\ proc'[p] = r /\ \A q \in Procs \ {p} : proc'[q] = proc[q]
  BY <1>1, <1>3, BecomesType
<1>5. "none" \notin Procs
  BY RefreshAssumption DEF Procs
<1>6. Locking'
  BY <1>1, <1>2, <1>3, <1>4, <1>5 DEF Locking, Refreshing, ProcType
<1>7. \A q \in Procs : At(q, "call")' \/ Granted(q)' =>
         proc'[q] = proc[q] /\ (At(q, "call") \/ Granted(q))
  BY <1>1, <1>4 DEF At, Granted
<1>8. \A q \in Procs : Granted(q) /\ proc[q].id \in DOMAIN auths => proc'[q] = proc[q] /\ Granted(q)'
  BY <1>1, <1>4 DEF At, Granted
<1>9. Tokens'
  BY <1>7, <1>8 DEF Tokens, NoTokenReplayed
<1> QED
  BY <1>4, <1>6, <1>9

(* What refreshAuthForRequest and its caller turn into.                    *)
LEMMA DoneState ==
  ASSUME ProcType, NEW p \in Procs, proc[p].id \in Auths
  PROVE  /\ Done(p) \in ProcState /\ Done(p).pc \in {"idle", "after"}
         /\ Done(p).pc # "idle" => Done(p).id \in Auths
<1>1. Idle \in ProcState /\ Idle.pc = "idle"
  BY IdleTypes DEF Idle
<1>2. CASE p \in Workers
  BY <1>1, <1>2 DEF Done, ProcState, ProcPC
<1>3. CASE p \notin Workers
  BY <1>1, <1>3 DEF Done
<1> QED
  BY <1>2, <1>3

(* A goroutine that starts anew with credential id at place pc.            *)
LEMMA StartState ==
  ASSUME NEW pc \in ProcPC, NEW id \in Auths
  PROVE  LET r == [Idle EXCEPT !.pc = pc, !.id = id]
         IN  r \in ProcState /\ r.pc = pc /\ r.id = id
<1>1. Idle \in ProcState
  BY IdleTypes
<1> QED
  BY <1>1 DEF ProcState

(* A file or a copy of a credential is read, and prepared to be stored. *)
TakesCopy(p) == PrepareCoreAuth(p) \/ \E id \in Auths : FileRead(p, id) \/ CopyRead(p, id)

(* A copy has the type of its credential, and a goroutine that holds it.   *)
LEMMA CopyState ==
  ASSUME RefreshInv, NEW p \in Procs, TakesCopy(p)
  PROVE  /\ \E r : /\ Becomes(p, r) /\ r.pc \in {"file", "copied", "update", "register"}
                  /\ proc'[p] = r
         /\ proc[p].pc \in {"idle", "file"}
         /\ UNCHANGED <<now, auths, phase, queue, timer, jobs, loop, dirty, wake, locks, server, histories>>
<1> USE DEF RefreshInv, RefreshType
<1>1. CASE PrepareCoreAuth(p)
  <2> DEFINE old == IF Known(proc[p].id) THEN auths[proc[p].id] ELSE NoAuth
             pc == IF Known(proc[p].id) THEN "update" ELSE "register"
             auth == [proc[p].auth EXCEPT !.last = old.last, !.next = old.next]
             r == [proc[p] EXCEPT !.pc = pc, !.auth = auth]
  <2>1. /\ proc[p].pc = "file" /\ proc' = [proc EXCEPT ![p].pc = pc, ![p].auth.last = old.last,
                                                        ![p].auth.next = old.next]
        /\ UNCHANGED <<now, auths, phase, queue, timer, jobs, loop, dirty, wake, locks, server, histories>>
    BY <1>1 DEF PrepareCoreAuth, ProcUnchanged, At
  <2>2. old \in AuthType
    BY IdleTypes DEF AuthsType, Known
  <2>3. proc[p] \in ProcState /\ proc[p].id \in Auths /\ proc[p].auth \in AuthType
    BY <2>1 DEF ProcType, ProcState
  <2>4. pc \in ProcPC /\ pc \in {"update", "register"}
    BY DEF ProcPC
  <2> HIDE DEF old, pc
  <2>5. old.last \in 0 .. MaxTime /\ old.next \in Nat
    BY <2>2 DEF AuthType
  <2>6. auth \in AuthType
    BY <2>3, <2>5 DEF AuthType
  <2>7. proc' = [proc EXCEPT ![p] = r]
    BY <2>1, <2>3 DEF ProcType, ProcState
  <2> HIDE DEF auth
  <2>8. r \in ProcState /\ r.pc = pc /\ r.id \in Auths
    BY <2>3, <2>4, <2>6 DEF ProcState
  <2> HIDE DEF r
  <2>9. Becomes(p, r) /\ proc'[p] = r
    BY <2>7, <2>8 DEF Becomes, ProcType
  <2> QED
    BY <2>1, <2>4, <2>8, <2>9
<1>2. ASSUME NEW id \in Auths, FileRead(p, id) \/ CopyRead(p, id)
      PROVE  /\ \E r : /\ Becomes(p, r) /\ r.pc \in {"file", "copied", "update", "register"}
                      /\ proc'[p] = r
             /\ proc[p].pc = "idle"
             /\ UNCHANGED <<now, auths, phase, queue, timer, jobs, loop, dirty, wake, locks, server, histories>>
  <2>1. /\ proc[p].pc = "idle" /\ id \in DOMAIN auths
        /\ UNCHANGED <<now, auths, phase, queue, timer, jobs, loop, dirty, wake, locks, server, histories>>
    BY <1>2 DEF FileRead, CopyRead, ProcUnchanged, At, Known
  <2>2. auths[id] \in AuthType /\ 0 \in 0 .. MaxTime /\ Idle \in ProcState
    BY <2>1, Backoffs, IdleTypes DEF AuthsType
  <2>3. [auths[id] EXCEPT !.last = 0, !.next = 0, !.unauthorized = FALSE] \in AuthType
    BY <2>2 DEF AuthType
  <2>4. \E auth \in AuthType, pc \in {"file", "copied"} :
           proc' = [proc EXCEPT ![p] = [Idle EXCEPT !.pc = pc, !.id = id, !.auth = auth]]
    BY <1>2, <2>2, <2>3 DEF FileRead, CopyRead
  <2>5. PICK auth \in AuthType, pc \in {"file", "copied"} :
           proc' = [proc EXCEPT ![p] = [Idle EXCEPT !.pc = pc, !.id = id, !.auth = auth]]
    BY <2>4
  <2> DEFINE r == [Idle EXCEPT !.pc = pc, !.id = id, !.auth = auth]
  <2>6. r \in ProcState /\ r.pc = pc /\ r.id = id
    BY <2>2, <2>5 DEF ProcState, ProcPC
  <2>7. proc' = [proc EXCEPT ![p] = r]
    BY <2>5
  <2> HIDE DEF r
  <2>8. Becomes(p, r) /\ proc'[p] = r
    BY <2>6, <2>7 DEF Becomes, ProcType
  <2> QED
    BY <2>1, <2>6, <2>8
<1> QED
  BY <1>1, <1>2 DEF TakesCopy

(* The steps outside the locks.                                            *)
LEMMA OutsideSteps ==
  ASSUME RefreshInv, NEW p \in Procs,
         \/ WorkerTake(p) \/ WorkerAfter(p) \/ StoreReschedule(p) \/ QueueUnschedule(p)
         \/ \E id \in Auths : RemoveAuth(p, id)
         \/ \E id \in Auths, failed \in 1 .. MaxToken : RequestUnauthorized(p, id, failed)
         \/ TakesCopy(p)
  PROVE  ProcType' /\ Locking' /\ Tokens'
<1> USE DEF RefreshInv, RefreshType
<1>0. Idle \in ProcState /\ Idle.pc = "idle"
  BY IdleTypes DEF Idle
<1>1. CASE WorkerAfter(p) \/ StoreReschedule(p) \/ QueueUnschedule(p)
  <2>1. /\ Outside(p)
        /\ UNCHANGED <<auths, locks, server, spoiled, replayed>>
    BY <1>0, <1>1 DEF WorkerAfter, StoreReschedule, QueueUnschedule, Outside, Becomes, At
  <2> QED
    BY <2>1, OutsideTokens
<1>2. CASE WorkerTake(p)
  <2>1. Head(jobs) \in Auths
    BY <1>2 DEF WorkerTake, LoopType
  <2> DEFINE r == [Idle EXCEPT !.pc = "lock", !.id = Head(jobs)]
  <2>2. r \in ProcState /\ r.pc = "lock" /\ r.id \in Auths
    BY <1>0, <2>1 DEF ProcState, ProcPC
  <2>3. proc' = [proc EXCEPT ![p] = r] /\ UNCHANGED <<auths, locks, server, spoiled, replayed>>
        /\ proc[p].pc = "idle"
    BY <1>2 DEF WorkerTake, At, histories
  <2> HIDE DEF r
  <2> QED
    BY <2>2, <2>3, OutsideTokens DEF Outside, Becomes
<1>3. ASSUME NEW id \in Auths, RemoveAuth(p, id)
      PROVE  ProcType' /\ Locking' /\ Tokens'
  <2> DEFINE r == [Idle EXCEPT !.pc = "removed", !.id = id]
  <2>1. r \in ProcState /\ r.pc = "removed" /\ r.id \in Auths
    BY StartState DEF ProcPC
  <2>2. /\ proc' = [proc EXCEPT ![p] = r] /\ UNCHANGED <<locks, server, spoiled, replayed>>
        /\ proc[p].pc = "idle" /\ auths' = Without(auths, id)
    BY <1>3 DEF RemoveAuth, At, histories
  <2>3. DOMAIN auths' \subseteq DOMAIN auths /\ \A x \in DOMAIN auths' : auths'[x].token = auths[x].token
    BY <2>2 DEF Without, Restrict
  <2> HIDE DEF r
  <2> QED
    BY <2>1, <2>2, <2>3, OutsideTokens DEF Outside, Becomes
<1>4. ASSUME NEW id \in Auths, NEW failed \in 1 .. MaxToken, RequestUnauthorized(p, id, failed)
      PROVE  ProcType' /\ Locking' /\ Tokens'
  <2> DEFINE r == [Idle EXCEPT !.pc = "lock", !.id = id, !.failed = failed]
  <2>1. failed \in Nat
    BY Backoffs
  <2>2. r \in ProcState /\ r.pc = "lock" /\ r.id \in Auths
    BY <1>0, <2>1 DEF ProcState, ProcPC
  <2>3. /\ proc' = [proc EXCEPT ![p] = r] /\ UNCHANGED <<auths, locks, server, spoiled, replayed>>
        /\ proc[p].pc = "idle"
    BY <1>4 DEF RequestUnauthorized, At, histories
  <2> HIDE DEF r
  <2> QED
    BY <2>2, <2>3, OutsideTokens DEF Outside, Becomes
<1>5. CASE TakesCopy(p)
  <2>1. /\ \E r : Becomes(p, r) /\ r.pc \in {"file", "copied", "update", "register"}
        /\ proc[p].pc \in {"idle", "file"} /\ UNCHANGED <<auths, locks, server, spoiled, replayed>>
    BY <1>5, CopyState DEF histories
  <2>2. Outside(p)
    BY <2>1 DEF Outside
  <2> QED
    BY <2>1, <2>2, OutsideTokens
<1> QED
  BY <1>1, <1>2, <1>3, <1>4, <1>5

(* With the lock, the credential that is read has the last token.          *)
LEMMA ReadStep ==
  ASSUME RefreshInv, NEW p \in Procs, RefreshRead(p)
  PROVE  ProcType' /\ Locking' /\ Tokens'
<1> USE DEF RefreshInv, RefreshType
<1> DEFINE id == proc[p].id
<1>1. /\ At(p, "lock") /\ locks[id] = "none" /\ UNCHANGED <<auths, server, spoiled, replayed>>
      /\ proc[p].pc = "lock"
  BY DEF RefreshRead, histories, At
<1>2. id \in Auths /\ proc[p] \in ProcState
  BY <1>1 DEF ProcType
<1>3. CASE proc' = [proc EXCEPT ![p] = Done(p)] /\ UNCHANGED locks
  <2>1. Outside(p)
    <3>1. Done(p) \in ProcState /\ Done(p).pc \in {"idle", "after"} /\ (Done(p).pc # "idle" => Done(p).id \in Auths)
      BY <1>2, DoneState
    <3> QED
      BY <1>1, <1>3, <3>1 DEF Outside, Becomes
  <2> QED
    BY <1>1, <1>3, <2>1, OutsideTokens
<1>4. CASE /\ Known(id) /\ locks' = [locks EXCEPT ![id] = p]
           /\ proc' = [proc EXCEPT ![p].pc = "call", ![p].auth = auths[id], ![p].failed = 0]
  <2> DEFINE r == [proc[p] EXCEPT !.pc = "call", !.auth = auths[id], !.failed = 0]
  <2>1. auths[id] \in AuthType
    BY <1>4 DEF AuthsType, Known
  <2>2. /\ r \in ProcState /\ r.pc = "call" /\ r.id = id /\ r.auth = auths[id]
    BY <1>2, <2>1 DEF ProcState, ProcPC
  <2>3. proc' = [proc EXCEPT ![p] = r]
    BY <1>4 DEF ProcType
  <2> HIDE DEF r
  <2>4. locks' \in [Auths -> Procs \cup {"none"}]
    BY <1>4 DEF ProcType
  <2>5. ProcType' /\ proc'[p] = r /\ \A q \in Procs \ {p} : proc'[q] = proc[q]
    BY <1>2, <2>2, <2>3, <2>4, BecomesType DEF Becomes
  <2>6. "none" \notin Procs
    BY RefreshAssumption DEF Procs
  <2>7. \A q \in Procs : Refreshing(q) => proc[q].id # id /\ q # p
    BY <1>1, <1>2, <2>6 DEF Locking, Refreshing, ProcType
  <2>8. Locking'
    BY <1>1, <1>2, <1>4, <2>2, <2>5, <2>6, <2>7 DEF Locking, Refreshing, ProcType
  <2>9. id \notin spoiled => auths[id].token = server[id]
    BY <1>4, <2>7 DEF Tokens, Known, Granted, At, Refreshing
  <2>10. \A q \in Procs : Granted(q)' <=> Granted(q)
    BY <1>1, <2>2, <2>5 DEF Granted, At
  <2>11. \A q \in Procs : Granted(q) => proc'[q] = proc[q]
    BY <1>1, <2>5 DEF Granted, At
  <2>12. \A q \in Procs : (At(q, "call")' \/ Granted(q)') /\ (proc[q].id \notin spoiled)' =>
           proc'[q].auth.token = server'[proc'[q].id]
    BY <1>1, <2>2, <2>5, <2>9, <2>10 DEF Tokens, At
  <2>13. Tokens'
    BY <1>1, <2>10, <2>11, <2>12 DEF Tokens, NoTokenReplayed
  <2> QED
    BY <2>5, <2>8, <2>13
<1> QED
  BY <1>3, <1>4 DEF RefreshRead

(* A goroutine that keeps the lock.                                        *)
LEMMA KeepsLock ==
  ASSUME RefreshType, Locking, NEW p \in Procs, NEW r \in ProcState,
         proc' = [proc EXCEPT ![p] = r], UNCHANGED locks, Refreshing(p),
         r.id = proc[p].id, r.pc \in {"answered", "reschedule"}
  PROVE  /\ ProcType' /\ Locking'
         /\ proc'[p] = r /\ \A q \in Procs \ {p} : proc'[q] = proc[q]
         /\ \A q \in Procs \ {p} : Refreshing(q) => proc[q].id # proc[p].id
<1> USE DEF RefreshType
<1>1. proc[p].id \in Auths /\ locks' \in [Auths -> Procs \cup {"none"}]
  BY DEF Refreshing, ProcType
<1>2. ProcType' /\ proc'[p] = r /\ \A q \in Procs \ {p} : proc'[q] = proc[q]
  BY <1>1, BecomesType DEF Becomes
<1>3. Locking'
  BY <1>1, <1>2 DEF Locking, Refreshing
<1>4. \A q \in Procs \ {p} : Refreshing(q) => proc[q].id # proc[p].id
  BY <1>1 DEF Locking, Refreshing
<1> QED
  BY <1>2, <1>3, <1>4

(* The provider gets the last token it issued, unless the promise ended.   *)
LEMMA AnswerStep ==
  ASSUME RefreshInv, NEW p \in Procs, ProviderAnswers(p)
  PROVE  AuthsType' /\ ProcType' /\ Locking' /\ Tokens'
<1> USE DEF RefreshInv, RefreshType
<1> DEFINE id == proc[p].id
           Hears(answer) == [proc[p] EXCEPT !.pc = "answered", !.answer = answer, !.auth = NoAuth]
<1>1. /\ proc[p].pc = "call" /\ UNCHANGED <<now, auths, locks, marked>>
      /\ Refreshing(p)
  BY DEF ProviderAnswers, ProcUnchanged, At, Refreshing
<1>2. id \in Auths /\ proc[p] \in ProcState /\ proc[p].auth \in AuthType
  BY <1>1 DEF ProcType, ProcState
<1>3. id \notin spoiled => proc[p].auth.token = server[id]
  BY <1>1 DEF Tokens, At
<1>4. server[id] \in 1 .. MaxToken /\ now \in Nat /\ MaxToken \in Nat
  BY <1>2, Backoffs DEF AuthsType
<1>5. \A answer \in {"failed", "unauthorized", "canceled"} :
        /\ Hears(answer) \in ProcState /\ Hears(answer).pc = "answered" /\ Hears(answer).id = id
        /\ Hears(answer).answer = answer
  BY <1>2, IdleTypes DEF ProcState, ProcPC, Answers
<1>6. ASSUME NEW answer \in {"failed", "unauthorized", "canceled"},
             proc' = [proc EXCEPT ![p].pc = "answered", ![p].answer = answer, ![p].auth = NoAuth],
             \/ UNCHANGED <<server, spoiled>>
             \/ server' \in [Auths -> 1 .. MaxToken] /\ spoiled' = spoiled \cup {id}
                /\ \A x \in Auths \ {id} : server'[x] = server[x],
             replayed' = replayed
      PROVE  AuthsType' /\ ProcType' /\ Locking' /\ Tokens'
  <2> DEFINE r == Hears(answer)
  <2>1. r \in ProcState /\ r.pc = "answered" /\ r.id = id /\ r.answer # "granted"
    BY <1>5
  <2>2. proc' = [proc EXCEPT ![p] = r]
    BY <1>6 DEF ProcType
  <2> HIDE DEF r
  <2>3. /\ ProcType' /\ Locking'
        /\ proc'[p] = r /\ \A q \in Procs \ {p} : proc'[q] = proc[q]
        /\ \A q \in Procs \ {p} : Refreshing(q) => proc[q].id # id
    BY <1>1, <2>1, <2>2, KeepsLock
  <2>4. AuthsType'
    BY <1>1, <1>6 DEF AuthsType
  <2>5. \A q \in Procs : At(q, "call")' \/ Granted(q)' =>
           q # p /\ proc'[q] = proc[q] /\ (At(q, "call") \/ Granted(q)) /\ proc[q].id # id /\ proc[q].id \in Auths
    BY <2>1, <2>3 DEF At, Granted, Refreshing, ProcType
  <2>6. \A q \in Procs : Granted(q) => proc'[q] = proc[q]
    BY <1>1, <2>3 DEF At, Granted
  <2>7. \A q \in Procs : Granted(q) => Granted(q)'
    BY <2>6 DEF At, Granted
  <2>8. \A q \in Procs :
          (At(q, "call") \/ Granted(q))' /\ (proc[q].id \notin spoiled)' =>
             (proc[q].auth.token)' = (server[proc[q].id])'
    <3> SUFFICES ASSUME NEW q \in Procs, At(q, "call")' \/ Granted(q)', proc'[q].id \notin spoiled'
                 PROVE  proc'[q].auth.token = server'[proc'[q].id]
      OBVIOUS
    <3>1. proc'[q] = proc[q] /\ (At(q, "call") \/ Granted(q)) /\ proc[q].id # id /\ proc[q].id \in Auths
      BY <2>5
    <3>2. proc[q].id \notin spoiled /\ server'[proc[q].id] = server[proc[q].id]
      BY <1>6, <3>1
    <3> QED
      BY <3>1, <3>2 DEF Tokens
  <2>9. ASSUME NEW x \in DOMAIN auths' \ spoiled'
        PROVE  (auths[x].token)' = server'[x] \/ \E q \in Procs : Granted(q)' /\ (proc[q].id)' = x
    <3>1. x \in DOMAIN auths \ spoiled /\ x \in Auths /\ server'[x] = server[x] /\ auths' = auths
      BY <1>1, <1>6, <2>9 DEF AuthsType
    <3>2. auths[x].token = server[x] \/ \E q \in Procs : Granted(q) /\ proc[q].id = x
      BY <3>1 DEF Tokens
    <3> QED
      BY <3>1, <3>2, <2>6, <2>7
  <2>10. Tokens'
    BY <1>6, <2>8, <2>9 DEF Tokens, NoTokenReplayed
  <2> QED
    BY <2>3, <2>4, <2>10
<1>7. ASSUME server[id] < MaxToken
      PROVE  [server EXCEPT ![id] = @ + 1] \in [Auths -> 1 .. MaxToken]
  BY <1>2, <1>4, <1>7 DEF AuthsType
<1>8. ASSUME server[id] < MaxToken, server' = [server EXCEPT ![id] = @ + 1],
             NEW expiry \in {proc[p].auth.expiry,
                             IF proc[p].auth.life = 0 THEN 0 ELSE now + proc[p].auth.life},
             proc' = [proc EXCEPT ![p].pc = "answered", ![p].answer = "granted",
                                  ![p].auth.token = server[id] + 1, ![p].auth.expiry = expiry],
             UNCHANGED <<spoiled, replayed>>
      PROVE  AuthsType' /\ ProcType' /\ Locking' /\ Tokens'
  <2> DEFINE a == [proc[p].auth EXCEPT !.token = server[id] + 1, !.expiry = expiry]
             r == [proc[p] EXCEPT !.pc = "answered", !.answer = "granted", !.auth = a]
  <2>1. expiry \in Nat /\ server[id] + 1 \in 0 .. MaxToken
    BY <1>2, <1>4, <1>8, AuthFields
  <2>2. a \in AuthType /\ a.token = server[id] + 1
    BY <1>2, <2>1 DEF AuthType
  <2>3. r \in ProcState /\ r.pc = "answered" /\ r.id = id /\ r.answer = "granted"
        /\ r.auth.token = server[id] + 1
    <3> HIDE DEF a
    <3> QED
      BY <1>2, <2>2 DEF ProcState, ProcPC, Answers
  <2>4. proc' = [proc EXCEPT ![p] = r]
    BY <1>2, <1>8 DEF ProcType
  <2> HIDE DEF r, a
  <2>5. /\ ProcType' /\ Locking'
        /\ proc'[p] = r /\ \A q \in Procs \ {p} : proc'[q] = proc[q]
        /\ \A q \in Procs \ {p} : Refreshing(q) => proc[q].id # id
    BY <1>1, <2>3, <2>4, KeepsLock
  <2>6. /\ server' \in [Auths -> 1 .. MaxToken] /\ server'[id] = server[id] + 1
        /\ \A x \in Auths \ {id} : server'[x] = server[x]
    BY <1>2, <1>7, <1>8 DEF AuthsType
  <2>7. AuthsType'
    BY <1>1, <2>6 DEF AuthsType
  <2>8. \A q \in Procs \ {p} : At(q, "call")' \/ Granted(q)' =>
           /\ proc'[q] = proc[q] /\ (At(q, "call") \/ Granted(q))
           /\ proc[q].id # id /\ proc[q].id \in Auths
    BY <2>5 DEF At, Granted, Refreshing, ProcType
  <2>9. \A q \in Procs :
          (At(q, "call") \/ Granted(q))' /\ (proc[q].id \notin spoiled)' =>
             (proc[q].auth.token)' = (server[proc[q].id])'
    <3> SUFFICES ASSUME NEW q \in Procs, At(q, "call")' \/ Granted(q)', proc'[q].id \notin spoiled'
                 PROVE  proc'[q].auth.token = server'[proc'[q].id]
      OBVIOUS
    <3>1. CASE q = p
      BY <2>3, <2>5, <2>6, <3>1
    <3>2. CASE q # p
      <4>1. proc'[q] = proc[q] /\ (At(q, "call") \/ Granted(q)) /\ proc[q].id # id /\ proc[q].id \in Auths
        BY <2>8, <3>2
      <4>2. proc[q].id \notin spoiled /\ server'[proc[q].id] = server[proc[q].id]
        BY <1>8, <2>6, <4>1
      <4> QED
        BY <4>1, <4>2 DEF Tokens
    <3> QED
      BY <3>1, <3>2
  <2>10. Granted(p)' /\ (proc[p].id)' = id
    BY <2>3, <2>5 DEF At, Granted
  <2>11. \A q \in Procs : Granted(q) => proc'[q] = proc[q] /\ Granted(q)'
    BY <1>1, <2>5 DEF At, Granted
  <2>12. ASSUME NEW x \in DOMAIN auths' \ spoiled'
         PROVE  (auths[x].token)' = server'[x] \/ \E q \in Procs : Granted(q)' /\ (proc[q].id)' = x
    <3>1. x \in DOMAIN auths \ spoiled /\ x \in Auths /\ auths' = auths
      BY <1>1, <1>8, <2>12 DEF AuthsType
    <3>2. auths[x].token = server[x] \/ \E q \in Procs : Granted(q) /\ proc[q].id = x
      BY <3>1 DEF Tokens
    <3>3. CASE x = id
      BY <3>3, <2>10
    <3>4. CASE x # id
      BY <3>1, <3>2, <3>4, <2>6, <2>11
    <3> QED
      BY <3>3, <3>4
  <2>13. Tokens'
    BY <1>8, <2>9, <2>12 DEF Tokens, NoTokenReplayed
  <2> QED
    BY <2>5, <2>7, <2>13
<1>9. CASE /\ proc[p].auth.token = server[id] /\ server[id] < MaxToken
           /\ server' = [server EXCEPT ![id] = @ + 1]
           /\ \E answer \in {"failed", "canceled"} :
                proc' = [proc EXCEPT ![p].pc = "answered", ![p].answer = answer, ![p].auth = NoAuth]
           /\ spoiled' = spoiled \cup {id} /\ UNCHANGED replayed
  <2>1. server' \in [Auths -> 1 .. MaxToken] /\ \A x \in Auths \ {id} : server'[x] = server[x]
    BY <1>7, <1>9 DEF AuthsType
  <2> QED
    BY <1>6, <1>9, <2>1
<1>10. CASE /\ \E answer \in {"failed", "unauthorized", "canceled"} :
                 proc' = [proc EXCEPT ![p].pc = "answered", ![p].answer = answer, ![p].auth = NoAuth]
            /\ replayed' = IF proc[p].auth.token = server[id] \/ id \in spoiled
                            THEN replayed ELSE replayed \cup {id}
            /\ UNCHANGED <<server, spoiled>>
  BY <1>3, <1>6, <1>10
<1> QED
  BY <1>8, <1>9, <1>10 DEF ProviderAnswers

(* The refreshed copy, or the note of a failure, is stored under the lock. *)
LEMMA StoreStep ==
  ASSUME RefreshInv, NEW p \in Procs, RefreshStore(p)
  PROVE  AuthsType' /\ ProcType' /\ Locking' /\ Tokens'
<1> USE DEF RefreshInv, RefreshType
<1> DEFINE id == proc[p].id
           r == [Idle EXCEPT !.pc = "reschedule", !.id = id]
<1>1. /\ At(p, "answered") /\ proc[p].pc = "answered" /\ UNCHANGED <<now, server, spoiled, replayed, marked>>
      /\ Refreshing(p)
  BY DEF RefreshStore, ProcUnchanged, histories, At, Refreshing
<1>2. id \in Auths /\ proc[p] \in ProcState /\ proc[p].auth \in AuthType /\ now \in Nat
  BY <1>1, Backoffs DEF ProcType, ProcState, AuthsType
<1>3. CASE (proc[p].answer = "canceled" \/ ~Known(id)) /\ Return(p) /\ UNCHANGED auths
  <2>1. Done(p) \in ProcState /\ Done(p).pc \in {"idle", "after"} /\ (Done(p).pc # "idle" => Done(p).id \in Auths)
    BY <1>2, DoneState
  <2>2. Unlocks(p)
    BY <1>1, <1>3, <2>1 DEF Unlocks, Becomes, Return
  <2>3. Granted(p) => id \notin DOMAIN auths
    BY <1>3 DEF Granted, Known
  <2>4. AuthsType'
    BY <1>1, <1>3 DEF AuthsType
  <2> QED
    BY <1>1, <1>3, <2>2, <2>3, <2>4, UnlockTokens
<1>4. ASSUME id \in DOMAIN auths, NEW a \in AuthType, auths' = [auths EXCEPT ![id] = a],
             IF proc[p].answer = "granted" THEN a.token = proc[p].auth.token ELSE a.token = auths[id].token,
             Move(p, "reschedule"), UNCHANGED locks
      PROVE  AuthsType' /\ ProcType' /\ Locking' /\ Tokens'
  <2>1. r \in ProcState /\ r.pc = "reschedule" /\ r.id = id
    BY <1>2, StartState DEF ProcPC
  <2>2. proc' = [proc EXCEPT ![p] = r]
    BY <1>4 DEF Move
  <2> HIDE DEF r
  <2>3. /\ ProcType' /\ Locking'
        /\ proc'[p] = r /\ \A q \in Procs \ {p} : proc'[q] = proc[q]
        /\ \A q \in Procs \ {p} : Refreshing(q) => proc[q].id # id
    BY <1>1, <1>4, <2>1, <2>2, KeepsLock
  <2>4. /\ DOMAIN auths' = DOMAIN auths /\ auths'[id] = a
        /\ \A x \in DOMAIN auths \ {id} : auths'[x] = auths[x]
    BY <1>4
  <2>5. AuthsType'
    BY <1>1, <2>4 DEF AuthsType
  <2>6. \A q \in Procs : At(q, "call")' \/ Granted(q)' =>
           proc'[q] = proc[q] /\ (At(q, "call") \/ Granted(q))
    BY <2>1, <2>3 DEF At, Granted
  <2>7. \A q \in Procs \ {p} : Granted(q) => proc'[q] = proc[q] /\ Granted(q)' /\ proc[q].id # id
    BY <2>3 DEF At, Granted, Refreshing
  <2>8. ASSUME NEW x \in DOMAIN auths' \ spoiled'
        PROVE  (auths[x].token)' = server'[x] \/ \E q \in Procs : Granted(q)' /\ (proc[q].id)' = x
    <3>1. x \in DOMAIN auths \ spoiled /\ server' = server
      BY <1>1, <2>4, <2>8
    <3>2. auths[x].token = server[x] \/ \E q \in Procs : Granted(q) /\ proc[q].id = x
      BY <3>1 DEF Tokens
    <3>3. CASE x # id
      <4>1. ASSUME NEW q \in Procs, Granted(q), proc[q].id = x
            PROVE  Granted(q)' /\ (proc[q].id)' = x
        BY <2>7, <3>3, <4>1
      <4> QED
        BY <3>1, <3>2, <3>3, <2>4, <4>1
    <3>4. CASE x = id /\ proc[p].answer = "granted"
      <4>1. proc[p].auth.token = server[id]
        BY <1>1, <3>1, <3>4 DEF Tokens, Granted
      <4> QED
        BY <1>4, <2>4, <3>1, <3>4, <4>1
    <3>5. CASE x = id /\ proc[p].answer # "granted"
      <4>1. ~Granted(p)
        BY <3>5 DEF Granted
      <4>2. auths[x].token = server[x]
        BY <2>7, <3>2, <3>5, <4>1
      <4> QED
        BY <1>4, <2>4, <3>1, <3>5, <4>2
    <3> QED
      BY <3>3, <3>4, <3>5
  <2>9. Tokens'
    BY <1>1, <2>6, <2>8 DEF Tokens, NoTokenReplayed
  <2> QED
    BY <2>3, <2>5, <2>9
<1>5. CASE /\ Known(id) /\ proc[p].answer = "granted" /\ Move(p, "reschedule") /\ UNCHANGED locks
           /\ auths' = [auths EXCEPT ![id] = Refreshed(proc[p].auth)]
  BY <1>2, <1>4, <1>5, RefreshedIsNotDue DEF Known
<1>6. CASE /\ Known(id) /\ proc[p].answer = "failed" /\ Move(p, "reschedule") /\ UNCHANGED locks
           /\ auths' = [auths EXCEPT ![id].unauthorized = FALSE, ![id].next = now + FailureBackoff]
  <2> DEFINE a == [auths[id] EXCEPT !.unauthorized = FALSE, !.next = now + FailureBackoff]
  <2>1. auths[id] \in AuthType
    BY <1>6 DEF AuthsType, Known
  <2>2. now + FailureBackoff \in Nat
    BY <1>2, Backoffs
  <2>3. a \in AuthType /\ a.token = auths[id].token
    BY <2>1, <2>2 DEF AuthType
  <2>4. auths' = [auths EXCEPT ![id] = a]
    BY <1>6
  <2> QED
    BY <1>4, <1>6, <2>3, <2>4 DEF Known
<1>7. CASE /\ Known(id) /\ proc[p].answer = "unauthorized" /\ Move(p, "reschedule") /\ UNCHANGED locks
           /\ auths' = [auths EXCEPT ![id].unauthorized = TRUE, ![id].next = 0]
  <2> DEFINE a == [auths[id] EXCEPT !.unauthorized = TRUE, !.next = 0]
  <2>1. auths[id] \in AuthType
    BY <1>7 DEF AuthsType, Known
  <2>2. a \in AuthType /\ a.token = auths[id].token
    BY <2>1 DEF AuthType
  <2>3. auths' = [auths EXCEPT ![id] = a]
    BY <1>7
  <2> QED
    BY <1>4, <1>7, <2>2, <2>3 DEF Known
<1> QED
  BY <1>3, <1>5, <1>6, <1>7 DEF RefreshStore

(* The end of a refresh.                                                   *)
LEMMA RescheduleStep ==
  ASSUME RefreshInv, NEW p \in Procs, RefreshReschedule(p)
  PROVE  ProcType' /\ Locking' /\ Tokens'
<1> USE DEF RefreshInv, RefreshType
<1>1. proc[p].pc = "reschedule" /\ Return(p) /\ UNCHANGED <<auths, server, spoiled, replayed>>
  BY DEF RefreshReschedule, At
<1>2. proc[p].id \in Auths
  BY <1>1 DEF ProcType
<1>3. Done(p) \in ProcState /\ Done(p).pc \in {"idle", "after"} /\ (Done(p).pc # "idle" => Done(p).id \in Auths)
  BY <1>2, DoneState
<1>4. Unlocks(p)
  BY <1>1, <1>3 DEF Unlocks, Becomes, Return, Refreshing
<1>5. ~Granted(p)
  BY <1>1 DEF Granted, At
<1> QED
  BY <1>1, <1>4, <1>5, UnlockTokens

(* A token that is issued outside of a refresh ends the promise.           *)
LEMMA IssueTokens ==
  ASSUME RefreshInv, NEW p \in Procs, NEW id \in Auths, Outside(p), server[id] < MaxToken,
         server' = [server EXCEPT ![id] = @ + 1], spoiled' = spoiled \cup {id},
         UNCHANGED <<now, auths, locks, replayed, marked>>
  PROVE  AuthsType' /\ ProcType' /\ Locking' /\ Tokens'
<1> USE DEF RefreshInv, RefreshType
<1>1. PICK r : /\ Becomes(p, r) /\ proc[p].pc \notin {"call", "answered", "reschedule"}
               /\ r.pc \notin {"call", "answered", "reschedule"}
  BY DEF Outside
<1>2. ProcType' /\ Locking' /\ \A q \in Procs : Granted(q)' <=> Granted(q)
  BY OutsideLocking
<1>3. server[id] + 1 \in 1 .. MaxToken
  BY Backoffs DEF AuthsType
<1>4. /\ server' \in [Auths -> 1 .. MaxToken]
      /\ \A x \in Auths \ {id} : server'[x] = server[x]
  BY <1>3 DEF AuthsType
<1>5. AuthsType'
  BY <1>4 DEF AuthsType
<1>6. proc'[p] = r /\ \A q \in Procs \ {p} : proc'[q] = proc[q]
  BY <1>1, <1>2, BecomesType DEF ProcType
<1>7. \A q \in Procs : /\ At(q, "call")' => At(q, "call")
                       /\ At(q, "call") \/ Granted(q) => proc'[q] = proc[q] /\ proc[q].id \in Auths
  BY <1>1, <1>6 DEF At, Granted, ProcType
<1>8. ASSUME NEW q \in Procs, At(q, "call")' \/ Granted(q)', proc'[q].id \notin spoiled'
      PROVE  proc'[q].auth.token = server'[proc'[q].id]
  <2>1. (At(q, "call") \/ Granted(q)) /\ proc'[q] = proc[q] /\ proc[q].id \in Auths
    BY <1>2, <1>7, <1>8
  <2>2. proc[q].id \notin spoiled /\ proc[q].id # id /\ server'[proc[q].id] = server[proc[q].id]
    BY <1>4, <1>8, <2>1
  <2> QED
    BY <2>1, <2>2 DEF Tokens
<1>9. ASSUME NEW x \in DOMAIN auths' \ spoiled'
      PROVE  (auths[x].token)' = server'[x] \/ \E q \in Procs : Granted(q)' /\ (proc[q].id)' = x
  <2>1. x \in DOMAIN auths \ spoiled /\ x \in Auths \ {id} /\ auths' = auths
    BY <1>9 DEF AuthsType
  <2>2. auths[x].token = server[x] \/ \E q \in Procs : Granted(q) /\ proc[q].id = x
    BY <2>1 DEF Tokens
  <2> QED
    BY <1>2, <1>4, <1>7, <2>1, <2>2
<1>10. Tokens'
  BY <1>8, <1>9 DEF Tokens, NoTokenReplayed
<1> QED
  BY <1>2, <1>5, <1>10

(* A login ends the promise when it begins, and so does a preparation that *)
(* refreshes its copy.  It is renewed when the last token is stored while  *)
(* nobody refreshes the credential; an older token that takes the place of *)
(* another ends it, and the token that is there already changes nothing.   *)
LEMMA LoginSteps ==
  ASSUME RefreshInv, NEW p \in Procs,
         \/ StoreAuth(p) \/ PrepareRefreshes(p)
         \/ \E id \in Auths, login \in Logins : LoginRead(p, id, login)
  PROVE  AuthsType' /\ ProcType' /\ Locking' /\ Tokens'
<1> USE DEF RefreshInv, RefreshType
<1>0. Idle \in ProcState /\ Idle.pc = "idle" /\ NoAuth \in AuthType
  BY IdleTypes DEF Idle
<1>1. ASSUME NEW id \in Auths, NEW login \in Logins, LoginRead(p, id, login)
      PROVE  AuthsType' /\ ProcType' /\ Locking' /\ Tokens'
  <2> DEFINE auth == Obtained(login, server[id] + 1)
             r == [Idle EXCEPT !.pc = "file", !.id = id, !.auth = auth]
  <2>1. /\ proc[p].pc = "idle" /\ server[id] < MaxToken /\ server' = [server EXCEPT ![id] = @ + 1]
        /\ spoiled' = spoiled \cup {id} /\ proc' = [proc EXCEPT ![p] = r]
        /\ UNCHANGED <<now, auths, locks, replayed, marked>>
    BY <1>1 DEF LoginRead, ProcUnchanged, At
  <2>2. server[id] + 1 \in 0 .. MaxToken /\ now \in Nat
    BY <2>1, Backoffs DEF AuthsType
  <2>3. auth \in AuthType
    BY <2>2, ObtainedType
  <2> HIDE DEF auth
  <2>4. r \in ProcState /\ r.pc = "file" /\ r.id = id
    BY <1>0, <2>3 DEF ProcState, ProcPC
  <2> HIDE DEF r
  <2>5. Outside(p)
    BY <2>1, <2>4 DEF Outside, Becomes
  <2> QED
    BY <2>1, <2>5, IssueTokens
<1>3. CASE PrepareRefreshes(p)
  <2> DEFINE id == proc[p].id
             e == now + proc[p].auth.life
             auth == [proc[p].auth EXCEPT !.token = server[id] + 1, !.expiry = e]
             r == [proc[p] EXCEPT !.pc = "update", !.auth = auth]
  <2>1. proc[p].pc = "copied" /\ UNCHANGED <<now, auths, locks, replayed, marked>>
    BY <1>3 DEF PrepareRefreshes, ProcUnchanged, At
  <2>2. id \in Auths /\ proc[p] \in ProcState /\ proc[p].auth \in AuthType
    BY <2>1 DEF ProcType, ProcState
  <2>3. CASE proc' = [proc EXCEPT ![p] = Idle]
    <3>1. Outside(p)
      BY <1>0, <2>1, <2>3 DEF Outside, Becomes
    <3>2. CASE UNCHANGED <<server, spoiled>>
      <4>1. AuthsType'
        BY <2>1, <3>2 DEF AuthsType
      <4> QED
        BY <2>1, <3>1, <3>2, <4>1, OutsideTokens
    <3>3. CASE /\ server[id] < MaxToken /\ server' = [server EXCEPT ![id] = @ + 1]
               /\ spoiled' = spoiled \cup {id}
      BY <2>1, <2>2, <3>1, <3>3, IssueTokens
    <3> QED
      BY <1>3, <3>2, <3>3 DEF PrepareRefreshes
  <2>4. CASE /\ server[id] < MaxToken /\ server' = [server EXCEPT ![id] = @ + 1]
             /\ spoiled' = spoiled \cup {id}
             /\ proc' = [proc EXCEPT ![p].pc = "update", ![p].auth.token = server[id] + 1,
                                     ![p].auth.expiry = now + proc[p].auth.life]
    <3>1. server[id] + 1 \in 0 .. MaxToken /\ e \in Nat
      BY <2>2, <2>4, Backoffs DEF AuthsType, AuthType
    <3>2. proc' = [proc EXCEPT ![p] = r]
      BY <2>2, <2>4 DEF ProcType, ProcState
    <3> HIDE DEF e
    <3>3. auth \in AuthType
      BY <2>2, <3>1 DEF AuthType
    <3> HIDE DEF auth
    <3>4. r \in ProcState /\ r.pc = "update" /\ r.id = id
      BY <2>2, <3>3 DEF ProcState, ProcPC
    <3> HIDE DEF r
    <3>5. Outside(p)
      BY <2>1, <2>2, <3>2, <3>4 DEF Outside, Becomes
    <3> QED
      BY <2>1, <2>2, <2>4, <3>5, IssueTokens
  <2> QED
    BY <1>3, <2>3, <2>4 DEF PrepareRefreshes
<1>2. CASE StoreAuth(p)
  <2> DEFINE id == proc[p].id
             token == proc[p].auth.token
             last == token = server[id] /\ locks[id] = "none"
             same == Known(id) /\ auths[id].token = token
             r == [Idle EXCEPT !.pc = "stored", !.id = id]
  <2>1. proc[p].pc \in {"register", "update", "copied"} /\ UNCHANGED <<now, locks, server, replayed>>
    BY <1>2 DEF StoreAuth, ProcUnchanged, At
  <2>2. id \in Auths /\ proc[p] \in ProcState /\ proc[p].auth \in AuthType
    BY <2>1 DEF ProcType, ProcState
  <2>3. CASE proc' = [proc EXCEPT ![p] = Idle] /\ UNCHANGED <<auths, spoiled, marked>>
    <3>1. Outside(p)
      BY <1>0, <2>1, <2>3 DEF Outside, Becomes
    <3>2. AuthsType'
      BY <2>1, <2>3 DEF AuthsType
    <3> QED
      BY <2>1, <2>3, <3>1, <3>2, OutsideTokens
  <2>4. CASE /\ auths' = With(auths, id, proc[p].auth) /\ Move(p, "stored")
             /\ marked' = [marked EXCEPT ![id] = 0]
             /\ spoiled' = IF last THEN spoiled \ {id}
                            ELSE IF same THEN spoiled ELSE spoiled \cup {id}
    <3>1. r \in ProcState /\ r.pc = "stored" /\ r.id = id
      BY <2>2, StartState DEF ProcPC
    <3>2. proc' = [proc EXCEPT ![p] = r]
      BY <2>4 DEF Move
    <3> HIDE DEF r
    <3>3. Outside(p)
      BY <2>1, <2>2, <3>1, <3>2 DEF Outside, Becomes
    <3>4. ProcType' /\ Locking' /\ \A q \in Procs : Granted(q)' <=> Granted(q)
      BY <2>1, <3>3, OutsideLocking
    <3>5. /\ DOMAIN auths' = DOMAIN auths \cup {id} /\ auths'[id] = proc[p].auth
          /\ \A x \in DOMAIN auths \ {id} : auths'[x] = auths[x]
      BY <2>4 DEF With
    <3>6. AuthsType'
      BY <2>1, <2>2, <2>4, <3>5 DEF AuthsType
    <3>7. /\ proc'[p] = r /\ \A q \in Procs \ {p} : proc'[q] = proc[q]
      BY <3>2 DEF ProcType
    <3>8. \A q \in Procs : (At(q, "call")' => At(q, "call"))
             /\ (At(q, "call") \/ Granted(q) => proc'[q] = proc[q] /\ Refreshing(q) /\ proc[q].id \in Auths)
      BY <2>1, <3>1, <3>7 DEF At, Granted, Refreshing, ProcType
    <3>9. "none" \notin Procs
      BY RefreshAssumption DEF Procs
    <3>10. ASSUME NEW q \in Procs, Refreshing(q), proc[q].id = id, proc[q].id \in Auths
           PROVE  id \in spoiled => id \in spoiled'
      <4>1. locks[id] = q
        BY <3>10 DEF Locking
      <4> QED
        BY <2>4, <3>9, <4>1
    <3>11. ASSUME NEW q \in Procs, At(q, "call")' \/ Granted(q)', proc'[q].id \notin spoiled'
           PROVE  proc'[q].auth.token = server'[proc'[q].id]
      <4>1. (At(q, "call") \/ Granted(q)) /\ proc'[q] = proc[q] /\ Refreshing(q) /\ proc[q].id \in Auths
        BY <3>4, <3>8, <3>11
      <4>2. proc[q].id \notin spoiled
        BY <2>4, <3>10, <3>11, <4>1
      <4> QED
        BY <2>1, <4>1, <4>2 DEF Tokens
    <3>12. ASSUME NEW x \in DOMAIN auths' \ spoiled'
           PROVE  (auths[x].token)' = server'[x] \/ \E q \in Procs : Granted(q)' /\ (proc[q].id)' = x
      <4>1. CASE x = id /\ last
        BY <2>1, <3>5, <4>1
      <4>3. CASE x = id /\ ~last
        <5>1. id \in DOMAIN auths \ spoiled /\ auths'[id].token = auths[id].token
          BY <2>4, <3>5, <3>12, <4>3 DEF Known
        <5>2. auths[id].token = server[id] \/ \E q \in Procs : Granted(q) /\ proc[q].id = id
          BY <5>1 DEF Tokens
        <5> QED
          BY <2>1, <3>4, <3>8, <4>3, <5>1, <5>2
      <4>2. CASE x # id
        <5>1. x \in DOMAIN auths \ spoiled
          BY <2>4, <3>5, <3>12, <4>2
        <5>2. auths[x].token = server[x] \/ \E q \in Procs : Granted(q) /\ proc[q].id = x
          BY <5>1 DEF Tokens
        <5> QED
          BY <2>1, <3>4, <3>5, <3>8, <4>2, <5>1, <5>2
      <4> QED
        BY <4>1, <4>2, <4>3
    <3>13. Tokens'
      BY <2>1, <3>11, <3>12 DEF Tokens, NoTokenReplayed
    <3> QED
      BY <3>4, <3>6, <3>13
  <2>5. \/ proc' = [proc EXCEPT ![p] = Idle] /\ UNCHANGED <<auths, spoiled, marked>>
        \/ /\ auths' = With(auths, id, proc[p].auth) /\ Move(p, "stored")
           /\ marked' = [marked EXCEPT ![id] = 0]
           /\ spoiled' = IF last THEN spoiled \ {id}
                          ELSE IF same THEN spoiled ELSE spoiled \cup {id}
    BY <1>2 DEF StoreAuth
  <2> QED
    BY <2>3, <2>4, <2>5
<1> QED
  BY <1>1, <1>2, <1>3

(* The loop's mark and the results of requests leave tokens alone.         *)
LEMMA NotesOnAuths ==
  ASSUME RefreshInv, UNCHANGED <<proc, locks, server, spoiled, replayed>>,
         DOMAIN auths' = DOMAIN auths,
         \A id \in DOMAIN auths : auths'[id].token = auths[id].token
  PROVE  ProcType' /\ Locking' /\ Tokens'
<1> USE DEF RefreshInv, RefreshType
<1>1. ProcType' /\ Locking'
  BY DEF ProcType, Locking, Refreshing
<1>2. Tokens'
  BY DEF Tokens, Granted, At, NoTokenReplayed
<1> QED
  BY <1>1, <1>2

-----------------------------------------------------------------------------
(* The loop and its marks *)

Early == {"off", "installed", "snapshot"}

(* A step of which the loop sees a mark to reschedule or a job taken.      *)
LEMMA MarksAside ==
  ASSUME RefreshInv, UNCHANGED <<now, auths, queue, loop, marked, spun>>,
         dirty' \subseteq Auths, jobs' \in Seq(Auths), phase' \in Early => phase \in Early
  PROVE  LoopType' /\ Marks'
<1> USE DEF RefreshInv, RefreshType
<1>1. LoopType'
  BY DEF LoopType
<1>2. Marks'
  BY DEF Marks, DueRound, NoSpin, Early, NextRefreshCheckAt
<1> QED
  BY <1>1, <1>2

(* A credential is stored, noted on or removed: it is not due at the time  *)
(* of its last mark, or the mark is wiped out.                             *)
LEMMA MarksOnAuths ==
  ASSUME RefreshInv, AuthsType', UNCHANGED <<now, queue, dirty, jobs, loop, phase, spun>>,
         \A id \in Auths : marked'[id] \in {0, marked[id]},
         \A id \in DOMAIN auths' : marked'[id] # 0 =>
            \/ id \in DOMAIN auths /\ auths'[id] = auths[id]
            \/ NextRefreshCheckAt(auths'[id], marked'[id]) # marked'[id]
  PROVE  LoopType' /\ Marks'
<1> USE DEF RefreshInv, RefreshType
<1>1. LoopType'
  BY DEF LoopType
<1>2. now \in Nat /\ marked \in [Auths -> Nat] /\ marked' \in [Auths -> Nat] /\ now >= 1
  BY Backoffs DEF AuthsType
<1>3. ASSUME NEW id \in Auths
      PROVE  /\ marked'[id] <= now'
             /\ loop'.pc # "idle" => marked'[id] <= loop'.at
             /\ id \in DOMAIN queue' => queue'[id] > marked'[id]
             /\ phase' \in {"off", "installed", "snapshot"} => marked'[id] = 0
             /\ DueRound' /\ id \in loop'.todo => id \notin DOMAIN queue' /\ marked'[id] < loop'.at
  <2>1. marked[id] \in Nat /\ (marked'[id] = 0 \/ marked'[id] = marked[id])
    BY <1>2
  <2>2. (DueRound <=> DueRound') /\ (DueRound => loop.pc # "idle")
    BY DEF DueRound
  <2>3. (loop.pc # "idle" => loop.at \in Nat \ {0}) /\ (id \in DOMAIN queue => queue[id] \in Nat \ {0})
    BY <1>2 DEF LoopType
  <2> QED
    BY <1>2, <2>1, <2>2, <2>3 DEF Marks
<1>4. ASSUME NEW id \in Auths, id \in DOMAIN auths', marked'[id] # 0
      PROVE  NextRefreshCheckAt(auths'[id], marked'[id]) # marked'[id]
  <2>1. marked'[id] = marked[id]
    BY <1>4
  <2>2. CASE id \in DOMAIN auths /\ auths'[id] = auths[id]
    BY <1>4, <2>1, <2>2 DEF Marks
  <2> QED
    BY <1>4, <2>1, <2>2
<1>5. /\ loop.pc \in {"mark", "reread"} => loop.id \notin DOMAIN queue /\ marked'[loop.id] < loop.at
      /\ loop.pc = "put" /\ loop.next # 0 => loop.next > marked'[loop.id]
  <2>1. loop \in LoopState /\ loop.next \in Nat /\ (loop.pc # "idle" => loop.at \in Nat \ {0})
        /\ (loop.pc \in {"mark", "reread", "put"} => loop.id \in Auths)
    BY <1>2 DEF LoopType, LoopState
  <2>2. CASE loop.pc \in {"mark", "reread"}
    <3>1. marked'[loop.id] \in {0, marked[loop.id]} /\ marked[loop.id] \in Nat
      BY <1>2, <2>1, <2>2
    <3> QED
      BY <2>1, <2>2, <3>1 DEF Marks
  <2>3. CASE loop.pc = "put" /\ loop.next # 0
    <3>1. marked'[loop.id] \in {0, marked[loop.id]} /\ marked[loop.id] \in Nat
      BY <1>2, <2>1, <2>3
    <3> QED
      BY <2>1, <2>3, <3>1 DEF Marks
  <2> QED
    BY <2>2, <2>3
<1>6. /\ phase' \in {"off", "installed", "snapshot"} => loop'.pc = "idle"
      /\ DueRound' /\ loop'.pc # "due" => loop'.id \notin loop'.todo
      /\ NoSpin'
  BY DEF Marks, DueRound, NoSpin
<1>7. Marks'
  BY <1>3, <1>4, <1>5, <1>6 DEF Marks
<1> QED
  BY <1>1, <1>7

(* queueReschedule adds to the dirty set.                                  *)
LEMMA RescheduleType ==
  ASSUME RefreshInv, NEW id \in Auths, QueueReschedule(id)
  PROVE  dirty' \subseteq Auths
  BY DEF RefreshInv, RefreshType, LoopType, QueueReschedule

(* The steps that leave credentials, queue and loop alone.                 *)
LEMMA AsideSteps ==
  ASSUME RefreshInv,
         \/ StartAutoRefresh \/ RebuildFile \/ StopAutoRefresh
         \/ \E p \in Procs :
              \/ WorkerTake(p) \/ WorkerAfter(p) \/ StoreReschedule(p)
              \/ RefreshRead(p) \/ ProviderAnswers(p) \/ RefreshReschedule(p)
              \/ TakesCopy(p) \/ PrepareRefreshes(p)
              \/ \E id \in Auths, failed \in 1 .. MaxToken : RequestUnauthorized(p, id, failed)
              \/ \E id \in Auths, login \in Logins : LoginRead(p, id, login)
  PROVE  LoopType' /\ Marks'
<1> USE DEF RefreshInv, RefreshType
<1>1. CASE StartAutoRefresh \/ RebuildFile \/ StopAutoRefresh
  <2>1. /\ UNCHANGED <<now, auths, queue, loop, marked, spun, dirty, jobs>>
        /\ phase' \in Early => phase \in Early
    BY <1>1 DEF StartAutoRefresh, RebuildFile, StopAutoRefresh, histories, Early
  <2>2. dirty' \subseteq Auths /\ jobs' \in Seq(Auths)
    BY <2>1 DEF LoopType
  <2> QED
    BY <2>1, <2>2, MarksAside
<1>2. ASSUME NEW p \in Procs, WorkerTake(p)
      PROVE  LoopType' /\ Marks'
  <2>1. UNCHANGED <<now, auths, queue, loop, marked, spun, dirty, phase>> /\ jobs # <<>> /\ jobs' = Tail(jobs)
    BY <1>2 DEF WorkerTake, histories
  <2>2. dirty' \subseteq Auths /\ jobs' \in Seq(Auths)
    BY <2>1 DEF LoopType
  <2> QED
    BY <2>1, <2>2, MarksAside
<1>3. ASSUME NEW p \in Procs, WorkerAfter(p) \/ StoreReschedule(p) \/ RefreshReschedule(p)
      PROVE  LoopType' /\ Marks'
  <2>1. UNCHANGED <<now, auths, queue, loop, marked, spun, jobs, phase>> /\ proc[p].pc # "idle"
    BY <1>3 DEF WorkerAfter, StoreReschedule, RefreshReschedule, ProcUnchanged, At
  <2>2. proc[p].id \in Auths /\ jobs' \in Seq(Auths)
    BY <2>1 DEF ProcType, LoopType
  <2>3. dirty' \subseteq Auths
    BY <1>3, <2>2, RescheduleType DEF WorkerAfter, StoreReschedule, RefreshReschedule, LoopType
  <2> QED
    BY <2>1, <2>2, <2>3, MarksAside
<1>4. ASSUME NEW p \in Procs,
             \/ RefreshRead(p) \/ ProviderAnswers(p) \/ TakesCopy(p) \/ PrepareRefreshes(p)
             \/ \E id \in Auths, failed \in 1 .. MaxToken : RequestUnauthorized(p, id, failed)
             \/ \E id \in Auths, login \in Logins : LoginRead(p, id, login)
      PROVE  LoopType' /\ Marks'
  <2>1. UNCHANGED <<now, auths, queue, loop, marked, spun, jobs, phase, dirty>>
    BY <1>4 DEF RefreshRead, ProviderAnswers, RequestUnauthorized, LoginRead, TakesCopy, PrepareCoreAuth,
                FileRead, CopyRead, PrepareRefreshes, ProcUnchanged, histories
  <2>2. dirty' \subseteq Auths /\ jobs' \in Seq(Auths)
    BY <2>1 DEF LoopType
  <2> QED
    BY <2>1, <2>2, MarksAside
<1> QED
  BY <1>1, <1>2, <1>3, <1>4

(* The steps that change credentials outside the loop.                     *)
LEMMA AuthSteps ==
  ASSUME RefreshInv, AuthsType',
         \/ \E p \in Procs : RefreshStore(p) \/ StoreAuth(p) \/ \E id \in Auths : RemoveAuth(p, id)
         \/ \E id \in Auths, unauthorized \in BOOLEAN : MarkResult(id, unauthorized)
  PROVE  LoopType' /\ Marks'
<1> USE DEF RefreshInv, RefreshType
<1>0. /\ \A id \in Auths : marked[id] \in Nat /\ marked[id] <= now
      /\ \A id \in Auths : marked[id] # 0 => marked[id] \in 1 .. now /\ marked[id] \in Nat \ {0}
      /\ now \in Nat
  BY Backoffs DEF AuthsType, Marks
<1>1. ASSUME NEW p \in Procs, RefreshStore(p)
      PROVE  LoopType' /\ Marks'
  <2> DEFINE id == proc[p].id
  <2>1. UNCHANGED <<now, queue, dirty, jobs, loop, phase, marked, spun>> /\ proc[p].pc = "answered"
    BY <1>1 DEF RefreshStore, ProcUnchanged, histories, At
  <2>2. id \in Auths /\ proc[p].auth \in AuthType
    BY <2>1 DEF ProcType, ProcState
  <2>3. ASSUME NEW x \in DOMAIN auths', marked'[x] # 0
        PROVE  \/ x \in DOMAIN auths /\ auths'[x] = auths[x]
               \/ NextRefreshCheckAt(auths'[x], marked'[x]) # marked'[x]
    <3>1. CASE UNCHANGED auths
      BY <3>1
    <3>2. CASE Known(id) /\ auths' = [auths EXCEPT ![id] = Refreshed(proc[p].auth)]
      <4>1. CASE x = id
        <5>1. auths'[x] = Refreshed(proc[p].auth) /\ marked'[x] \in 1 .. now
          BY <1>0, <2>1, <2>2, <2>3, <3>2, <4>1 DEF Known
        <5> QED
          BY <2>2, <5>1, RefreshedIsNotDue
      <4>2. CASE x # id
        BY <3>2, <4>2
      <4> QED
        BY <4>1, <4>2
    <3>3. CASE /\ Known(id)
               /\ auths' = [auths EXCEPT ![id].unauthorized = FALSE, ![id].next = now + FailureBackoff]
      <4>1. CASE x = id
        <5>1. auths[id] \in AuthType
          BY <3>3 DEF Known, AuthsType
        <5>2. auths'[x] = [auths[id] EXCEPT !.unauthorized = FALSE, !.next = now + FailureBackoff]
          BY <3>3, <4>1 DEF Known
        <5>3. auths'[x].next = now + FailureBackoff
          BY <5>1, <5>2 DEF AuthType
        <5>4. auths'[x] \in AuthType /\ marked'[x] \in 1 .. now /\ marked'[x] \in Nat \ {0}
          BY <1>0, <2>1, <2>2, <2>3, <4>1 DEF AuthsType
        <5>5. auths'[x].next > marked'[x]
          BY <1>0, <5>3, <5>4, Backoffs
        <5> QED
          BY <5>4, <5>5, BackoffIsNotDue
      <4>2. CASE x # id
        BY <3>3, <4>2
      <4> QED
        BY <4>1, <4>2
    <3>4. CASE Known(id) /\ auths' = [auths EXCEPT ![id].unauthorized = TRUE, ![id].next = 0]
      <4>1. CASE x = id
        <5>1. auths[id] \in AuthType
          BY <3>4 DEF Known, AuthsType
        <5>2. auths'[x] = [auths[id] EXCEPT !.unauthorized = TRUE, !.next = 0]
          BY <3>4, <4>1 DEF Known
        <5>3. auths'[x].unauthorized
          BY <5>1, <5>2 DEF AuthType
        <5>4. auths'[x] \in AuthType /\ marked'[x] \in Nat \ {0}
          BY <1>0, <2>1, <2>2, <2>3, <4>1 DEF AuthsType
        <5> QED
          BY <5>3, <5>4, BackoffIsNotDue
      <4>2. CASE x # id
        BY <3>4, <4>2
      <4> QED
        BY <4>1, <4>2
    <3> QED
      BY <1>1, <3>1, <3>2, <3>3, <3>4 DEF RefreshStore
  <2>4. \A x \in Auths : marked'[x] \in {0, marked[x]}
    BY <2>1
  <2> QED
    BY <2>1, <2>3, <2>4, MarksOnAuths
<1>2. ASSUME NEW p \in Procs, StoreAuth(p)
      PROVE  LoopType' /\ Marks'
  <2> DEFINE id == proc[p].id
  <2>1. UNCHANGED <<now, queue, dirty, jobs, loop, phase, spun>> /\ proc[p].pc # "idle"
    BY <1>2 DEF StoreAuth, ProcUnchanged, At
  <2>2. id \in Auths
    BY <2>1 DEF ProcType
  <2>3. CASE UNCHANGED <<auths, marked>>
    BY <2>1, <2>3, MarksOnAuths
  <2>4. CASE auths' = With(auths, id, proc[p].auth) /\ marked' = [marked EXCEPT ![id] = 0]
    <3>1. \A x \in DOMAIN auths' : x = id \/ (x \in DOMAIN auths /\ auths'[x] = auths[x])
      BY <2>4 DEF With
    <3>2. marked'[id] = 0 /\ \A x \in Auths : marked'[x] \in {0, marked[x]}
      BY <2>2, <2>4 DEF AuthsType
    <3> QED
      BY <2>1, <3>1, <3>2, MarksOnAuths
  <2> QED
    BY <1>2, <2>3, <2>4 DEF StoreAuth
<1>3. ASSUME NEW p \in Procs, NEW id \in Auths, RemoveAuth(p, id)
      PROVE  LoopType' /\ Marks'
  <2>1. UNCHANGED <<now, queue, dirty, jobs, loop, phase, marked, spun>> /\ auths' = Without(auths, id)
    BY <1>3 DEF RemoveAuth, ProcUnchanged, histories
  <2>2. \A x \in DOMAIN auths' : x \in DOMAIN auths /\ auths'[x] = auths[x]
    BY <2>1 DEF Without, Restrict
  <2> QED
    BY <2>1, <2>2, MarksOnAuths
<1>4. ASSUME NEW id \in Auths, NEW unauthorized \in BOOLEAN, MarkResult(id, unauthorized)
      PROVE  LoopType' /\ Marks'
  <2>1. /\ UNCHANGED <<now, queue, dirty, jobs, loop, phase, spun>> /\ id \in DOMAIN auths
        /\ auths' = [auths EXCEPT ![id].unauthorized = unauthorized]
        /\ marked' = IF unauthorized THEN marked ELSE [marked EXCEPT ![id] = 0]
    BY <1>4 DEF MarkResult, ProcUnchanged, Known
  <2>2. \A x \in Auths : marked'[x] \in {0, marked[x]}
    BY <2>1 DEF AuthsType
  <2>3. ASSUME NEW x \in DOMAIN auths', marked'[x] # 0
        PROVE  \/ x \in DOMAIN auths /\ auths'[x] = auths[x]
               \/ NextRefreshCheckAt(auths'[x], marked'[x]) # marked'[x]
    <3>1. CASE x # id
      BY <2>1, <3>1
    <3>2. CASE x = id
      <4>1. unauthorized /\ marked'[x] = marked[x]
        BY <2>1, <2>3, <3>2 DEF AuthsType
      <4>2. auths[id] \in AuthType
        BY <2>1 DEF AuthsType
      <4>3. auths'[x].unauthorized
        BY <2>1, <3>2, <4>1, <4>2 DEF AuthType
      <4>4. auths'[x] \in AuthType /\ marked'[x] \in Nat \ {0}
        BY <1>0, <2>3, <3>2, <4>1 DEF AuthsType
      <4> QED
        BY <4>3, <4>4, BackoffIsNotDue
    <3> QED
      BY <3>1, <3>2
  <2> QED
    BY <2>1, <2>2, <2>3, MarksOnAuths
<1> QED
  BY <1>1, <1>2, <1>3, <1>4

(* Removal from the queue, the first filing, and the clock.                *)
LEMMA QueueSteps ==
  ASSUME RefreshInv, RebuildSnapshot \/ RefreshTick \/ \E p \in Procs : QueueUnschedule(p)
  PROVE  LoopType' /\ Marks'
<1> USE DEF RefreshInv, RefreshType
<1>0. now \in Nat /\ now >= 1 /\ marked \in [Auths -> Nat]
  BY Backoffs DEF AuthsType
<1>1. CASE RebuildSnapshot
  <2>1. /\ UNCHANGED <<now, auths, dirty, jobs, loop, marked, spun>>
        /\ phase = "installed" /\ phase' = "snapshot"
        /\ queue' = [id \in {x \in DOMAIN auths : NextCheck(x, now) # 0} |-> NextCheck(id, now)]
    BY <1>1 DEF RebuildSnapshot, histories
  <2>2. \A id : NextCheck(id, now) \in Nat
    BY <1>0, NextCheckTime
  <2>3. DOMAIN queue' \subseteq Auths /\ \A id \in DOMAIN queue' : queue'[id] \in Nat \ {0}
    BY <2>1, <2>2 DEF AuthsType
  <2>4. LoopType'
    BY <2>1, <2>3 DEF LoopType
  <2>5. loop.pc = "idle" /\ \A id \in Auths : marked[id] = 0
    BY <2>1 DEF Marks
  <2>6. Marks'
    BY <1>0, <2>1, <2>3, <2>5 DEF Marks, DueRound, NoSpin
  <2> QED
    BY <2>4, <2>6
<1>2. ASSUME NEW p \in Procs, QueueUnschedule(p)
      PROVE  LoopType' /\ Marks'
  <2>1. UNCHANGED <<now, auths, dirty, jobs, loop, marked, spun, phase>>
        /\ (queue' = Without(queue, proc[p].id) \/ queue' = queue)
    BY <1>2 DEF QueueUnschedule
  <2>2. DOMAIN queue' \subseteq DOMAIN queue /\ \A id \in DOMAIN queue' : queue'[id] = queue[id]
    BY <2>1 DEF Without, Restrict
  <2>3. LoopType'
    BY <2>1, <2>2 DEF LoopType
  <2>4. Marks'
    BY <2>1, <2>2 DEF Marks, DueRound, NoSpin, NextRefreshCheckAt
  <2> QED
    BY <2>3, <2>4
<1>3. CASE RefreshTick
  <2>1. now' = now + 1 /\ UNCHANGED <<auths, phase, queue, dirty, jobs, loop, marked, spun>>
    BY <1>3 DEF RefreshTick, histories
  <2>2. LoopType'
    BY <1>0, <2>1 DEF LoopType
  <2>3. \A id \in Auths : marked[id] <= now'
    BY <1>0, <2>1 DEF Marks
  <2>4. Marks'
    BY <2>1, <2>3 DEF Marks, DueRound, NoSpin, NextRefreshCheckAt
  <2> QED
    BY <2>2, <2>4
<1> QED
  BY <1>1, <1>2, <1>3

(* What a step of the loop must see to besides marking.                    *)
Turned ==
  /\ loop' \in LoopState
  /\ DOMAIN queue' \subseteq Auths
  /\ \A id \in DOMAIN queue' : queue'[id] \in Nat \ {0} /\ queue'[id] > marked[id]
  /\ loop'.pc \in {"mark", "pending", "reread", "send", "put"} => loop'.id \in Auths
  /\ loop'.pc = "put" => loop'.back # "none"
  /\ loop'.pc # "idle" => loop'.at \in 1 .. now /\ \A id \in Auths : marked[id] <= loop'.at
  /\ DueRound' =>
       /\ loop'.pc # "due" => loop'.id \notin loop'.todo
       /\ \A id \in loop'.todo : id \notin DOMAIN queue' /\ marked[id] < loop'.at
  /\ loop'.pc \in {"mark", "reread"} => loop'.id \notin DOMAIN queue' /\ marked[loop'.id] < loop'.at
  /\ loop'.pc = "put" /\ loop'.next # 0 => loop'.next > marked[loop'.id]

(* Then the invariant holds after it.                                      *)
LEMMA TurnedMarks ==
  ASSUME RefreshInv, Turned, UNCHANGED <<now, auths, phase, marked, spun>>, phase \notin Early,
         dirty' \subseteq Auths, jobs' \in Seq(Auths)
  PROVE  LoopType' /\ Marks'
<1> USE DEF RefreshInv, RefreshType
<1>1. LoopType'
  BY DEF Turned, LoopType
<1>2. phase' \notin {"off", "installed", "snapshot"}
  BY DEF Early
<1>4. ASSUME NEW id \in Auths, id \in DOMAIN auths', marked'[id] # 0
      PROVE  (NextRefreshCheckAt(auths[id], marked[id]))' # marked'[id]
  BY <1>4 DEF Marks, NextRefreshCheckAt
<1>5. Marks'
  BY <1>2, <1>4 DEF Turned, Marks, DueRound, NoSpin
<1> QED
  BY <1>1, <1>5

(* LoopPut files a decision after the mark or drops it; a round of the     *)
(* timer takes what is due, later than it was marked.                      *)
LEMMA LoopTurns ==
  ASSUME RefreshInv, LoopStep, ~LoopMark
  PROVE  LoopType' /\ Marks'
<1> USE DEF RefreshInv, RefreshType
<1>0. /\ now \in Nat /\ now >= 1 /\ marked \in [Auths -> Nat]
      /\ \A id \in Auths : marked[id] \in Nat /\ marked[id] <= now
      /\ loop \in LoopState
      /\ DOMAIN queue \subseteq Auths /\ \A id \in DOMAIN queue : queue[id] \in Nat \ {0} /\ queue[id] > marked[id]
      /\ dirty \subseteq Auths /\ jobs \in Seq(Auths)
  BY Backoffs DEF AuthsType, LoopType, Marks
<1>1. /\ loop.pc # "idle" =>
           loop.at \in 1 .. now /\ loop.at \in Nat /\ phase \notin Early /\ \A id \in Auths : marked[id] <= loop.at
      /\ loop.pc \in LoopPC /\ loop.todo \subseteq Auths /\ loop.next \in Nat
      /\ loop.back \in {"none", "due", "apply"}
  BY <1>0 DEF LoopType, LoopState, Marks, Early
<1>2. CASE LoopWake
  <2>1. /\ loop.pc = "idle" /\ phase = "running"
        /\ loop' = [loop EXCEPT !.pc = "drain", !.at = now]
        /\ UNCHANGED <<auths, queue, dirty, jobs, marked, spun, now, phase>>
    BY <1>2 DEF LoopWake, LoopUnchanged, histories
  <2>2. loop' \in LoopState /\ loop'.pc = "drain" /\ loop'.at = now
    BY <1>0, <2>1 DEF LoopState, LoopPC
  <2>3. Turned
    BY <1>0, <2>1, <2>2 DEF Turned, DueRound
  <2> QED
    BY <1>0, <2>1, <2>3, TurnedMarks DEF Early
<1>3. CASE LoopTimer
  <2> DEFINE due == {id \in DOMAIN queue : queue[id] <= now}
  <2>1. /\ loop.pc = "idle" /\ phase = "running"
        /\ queue' = Restrict(queue, DOMAIN queue \ due)
        /\ loop' = [loop EXCEPT !.pc = "due", !.at = now, !.todo = due]
        /\ UNCHANGED <<auths, dirty, jobs, marked, spun, now, phase>>
    BY <1>3 DEF LoopTimer, LoopUnchanged, histories
  <2>2. due \subseteq Auths /\ \A id \in due : marked[id] < now
    BY <1>0
  <2>3. DOMAIN queue' = DOMAIN queue \ due /\ \A id \in DOMAIN queue' : queue'[id] = queue[id]
    BY <2>1 DEF Restrict
  <2> HIDE DEF due
  <2>4. loop' \in LoopState /\ loop'.pc = "due" /\ loop'.at = now /\ loop'.todo = due /\ loop'.id = loop.id
    BY <1>0, <2>1, <2>2 DEF LoopState, LoopPC
  <2>5. \A id \in DOMAIN queue' : id \in DOMAIN queue /\ queue'[id] = queue[id]
    BY <2>3
  <2>6. \A id \in loop'.todo : id \notin DOMAIN queue' /\ marked[id] < loop'.at
    BY <2>2, <2>3, <2>4
  <2>7. loop'.at \in 1 .. now /\ \A id \in Auths : marked[id] <= loop'.at
    BY <1>0, <2>4
  <2>8. DOMAIN queue' \subseteq Auths
        /\ \A id \in DOMAIN queue' : queue'[id] \in Nat \ {0} /\ queue'[id] > marked[id]
    BY <1>0, <2>5
  <2>9. Turned
    BY <2>4, <2>6, <2>7, <2>8 DEF Turned
  <2> QED
    BY <1>0, <2>1, <2>9, TurnedMarks DEF Early
<1>4. ASSUME NEW id \in Auths, NEW next \in Nat, NEW back \in {"due", "apply"}, loop.pc # "idle",
             Deciding(id, next, back), UNCHANGED <<auths, queue, dirty, jobs, marked, spun, now, phase>>,
             next = 0 \/ next > marked[id],
             back = "due" => DueRound
      PROVE  LoopType' /\ Marks'
  <2>1. loop.todo \ {id} \in SUBSET Auths /\ loop' =
          [loop EXCEPT !.pc = "put", !.id = id, !.next = next, !.back = back, !.todo = loop.todo \ {id}]
    BY <1>1, <1>4 DEF Deciding
  <2>2. /\ loop' \in LoopState /\ loop'.pc = "put" /\ loop'.id = id /\ loop'.next = next
        /\ loop'.back = back /\ loop'.at = loop.at /\ loop'.todo = loop.todo \ {id}
    BY <1>0, <2>1 DEF LoopState, LoopPC
  <2>3. DueRound' => DueRound
    BY <1>4, <2>2 DEF DueRound
  <2>4. Turned
    BY <1>0, <1>1, <1>4, <2>2, <2>3 DEF Turned, Marks
  <2> QED
    BY <1>0, <1>1, <1>4, <2>4, TurnedMarks
<1>5. ASSUME NEW id \in Auths, LoopDue(id)
      PROVE  LoopType' /\ Marks'
  <2>1. /\ loop.pc = "due" /\ id \in loop.todo
        /\ UNCHANGED <<auths, queue, dirty, jobs, marked, spun, now, phase>>
    BY <1>5 DEF LoopDue, LoopUnchanged, histories
  <2>2. DueRound /\ id \notin DOMAIN queue /\ marked[id] < loop.at /\ loop.at \in Nat
    BY <1>1, <2>1 DEF DueRound, Marks
  <2>3. loop.todo \ {id} \in SUBSET Auths
    BY <1>1
  <2>4. CASE loop' = [loop EXCEPT !.todo = @ \ {id}]
    <3>1. /\ loop' \in LoopState /\ loop'.pc = "due" /\ loop'.at = loop.at
          /\ loop'.todo = loop.todo \ {id}
      BY <1>0, <2>1, <2>3, <2>4 DEF LoopState
    <3>2. Turned
      BY <1>0, <1>1, <2>1, <2>2, <3>1 DEF Turned, Marks
    <3> QED
      BY <1>0, <1>1, <2>1, <3>2, TurnedMarks
  <2>5. CASE Deciding(id, NextCheck(id, loop.at), "due")
    <3> DEFINE n == NextCheck(id, loop.at)
    <3>1. n \in Nat /\ (n = 0 \/ n >= loop.at)
      BY <2>2, NextCheckTime
    <3> HIDE DEF n
    <3>2. n = 0 \/ n > marked[id]
      BY <1>0, <2>2, <3>1
    <3>3. Deciding(id, n, "due")
      BY <2>5 DEF n
    <3> QED
      BY <1>4, <2>1, <2>2, <3>1, <3>2, <3>3
  <2>6. CASE Deciding(id, loop.at + CheckInterval, "due")
    <3>1. loop.at + CheckInterval \in Nat /\ loop.at + CheckInterval > marked[id]
      BY <1>0, <2>2, Backoffs
    <3> QED
      BY <1>4, <2>1, <2>2, <2>6, <3>1
  <2>7. CASE loop' = [loop EXCEPT !.pc = "mark", !.id = id, !.todo = @ \ {id}]
    <3>1. /\ loop' \in LoopState /\ loop'.pc = "mark" /\ loop'.at = loop.at /\ loop'.id = id
          /\ loop'.todo = loop.todo \ {id}
      BY <1>0, <2>1, <2>3, <2>7 DEF LoopState, LoopPC
    <3>2. Turned
      BY <1>0, <1>1, <2>1, <2>2, <3>1 DEF Turned, Marks
    <3> QED
      BY <1>0, <1>1, <2>1, <3>2, TurnedMarks
  <2> QED
    BY <1>5, <2>4, <2>5, <2>6, <2>7 DEF LoopDue
<1>6. CASE LoopPending
  <2>1. /\ loop.pc = "pending" /\ QueueReschedule(loop.id) /\ loop' = [loop EXCEPT !.pc = "send"]
        /\ UNCHANGED <<auths, queue, jobs, marked, spun, now, phase>>
    BY <1>6 DEF LoopPending, LoopUnchanged
  <2>2. loop.id \in Auths
    BY <2>1 DEF LoopType
  <2>3. dirty' \subseteq Auths
    BY <2>1, <2>2, RescheduleType
  <2>4. /\ loop' \in LoopState /\ loop'.pc = "send" /\ loop'.at = loop.at /\ loop'.id = loop.id
        /\ loop'.todo = loop.todo
    BY <1>0, <2>1 DEF LoopState, LoopPC
  <2>5. Turned
    BY <1>0, <1>1, <2>1, <2>2, <2>4 DEF Turned, Marks, DueRound
  <2> QED
    BY <1>0, <1>1, <2>1, <2>3, <2>5, TurnedMarks
<1>7. CASE LoopReread
  <2>1. /\ loop.pc = "reread" /\ Deciding(loop.id, NextCheck(loop.id, loop.at), "due")
        /\ UNCHANGED <<auths, queue, dirty, jobs, marked, spun, now, phase>>
    BY <1>7 DEF LoopReread, LoopUnchanged, histories
  <2>2. loop.id \in Auths /\ marked[loop.id] < loop.at /\ DueRound
    BY <2>1 DEF LoopType, Marks, DueRound
  <2> DEFINE n == NextCheck(loop.id, loop.at)
  <2>3. n \in Nat /\ (n = 0 \/ n >= loop.at)
    BY <1>1, <2>1, NextCheckTime
  <2>4. Deciding(loop.id, n, "due")
    BY <2>1
  <2> HIDE DEF n
  <2>5. n = 0 \/ n > marked[loop.id]
    BY <1>0, <1>1, <2>1, <2>2, <2>3
  <2> QED
    BY <1>4, <2>1, <2>2, <2>3, <2>4, <2>5
<1>8. CASE LoopSend
  <2>1. /\ loop.pc = "send" /\ loop' = [loop EXCEPT !.pc = "due", !.id = "none"]
        /\ UNCHANGED <<auths, queue, dirty, marked, spun, now, phase>>
        /\ jobs' = Append(jobs, loop.id) \/ jobs' = jobs
    BY <1>8 DEF LoopSend, LoopUnchanged, histories
  <2>2. loop.id \in Auths
    BY <2>1 DEF LoopType
  <2>3. jobs' \in Seq(Auths)
    <3>1. jobs \in Seq(Auths)
      BY <1>0
    <3>2. Append(jobs, loop.id) \in Seq(Auths)
      BY <2>2, <3>1, QueueOneMore
    <3> QED
      BY <2>1, <3>1, <3>2
  <2>4. loop' \in LoopState /\ loop'.pc = "due" /\ loop'.at = loop.at /\ loop'.todo = loop.todo
    BY <1>0, <2>1 DEF LoopState, LoopPC
  <2>5. Turned
    BY <1>0, <1>1, <2>1, <2>4 DEF Turned, Marks, DueRound
  <2> QED
    BY <1>0, <1>1, <2>1, <2>3, <2>5, TurnedMarks
<1>9. CASE LoopDrain
  <2>1. /\ loop.pc # "idle" /\ dirty' = {} /\ loop' = [loop EXCEPT !.pc = "apply", !.todo = dirty]
        /\ UNCHANGED <<auths, queue, jobs, marked, spun, now, phase>>
    BY <1>9 DEF LoopDrain, LoopUnchanged, histories
  <2>2. loop' \in LoopState /\ loop'.pc = "apply" /\ loop'.at = loop.at
    BY <1>0, <2>1 DEF LoopState, LoopPC
  <2>3. Turned
    BY <1>0, <1>1, <2>1, <2>2 DEF Turned, DueRound
  <2> QED
    BY <1>0, <1>1, <2>1, <2>3, TurnedMarks
<1>10. ASSUME NEW id \in Auths, LoopApply(id)
       PROVE  LoopType' /\ Marks'
  <2>1. /\ loop.pc = "apply" /\ Deciding(id, NextCheck(id, loop.at), "apply")
        /\ UNCHANGED <<auths, queue, dirty, jobs, marked, spun, now, phase>>
    BY <1>10 DEF LoopApply, LoopUnchanged, histories
  <2> DEFINE n == NextCheck(id, loop.at)
  <2>2. n \in Nat /\ (n = 0 \/ n >= loop.at)
    BY <1>1, <2>1, NextCheckTime
  <2>3. loop.at \in Nat \ {0} /\ marked[id] <= loop.at /\ marked[id] \in Nat
    BY <1>0, <1>1, <2>1
  <2>4. n # 0 /\ marked[id] = loop.at => n # loop.at
    BY <2>3 DEF Marks, NextCheck, Known, AuthsType
  <2>5. Deciding(id, n, "apply")
    BY <2>1
  <2> HIDE DEF n
  <2>6. n = 0 \/ n > marked[id]
    BY <2>2, <2>3, <2>4
  <2> QED
    BY <1>4, <2>1, <2>2, <2>5, <2>6
<1>11. CASE LoopPut
  <2>1. /\ loop.pc = "put" /\ loop.id \in Auths /\ loop.back # "none"
        /\ queue' = IF loop.next = 0 THEN Without(queue, loop.id) ELSE With(queue, loop.id, loop.next)
        /\ loop' = [loop EXCEPT !.pc = loop.back, !.id = "none", !.next = 0, !.back = "none"]
        /\ UNCHANGED <<auths, dirty, jobs, marked, spun, now, phase>>
    BY <1>11 DEF LoopPut, LoopUnchanged, histories, LoopType
  <2>2. /\ DOMAIN queue' \subseteq DOMAIN queue \cup {loop.id}
        /\ \A id \in DOMAIN queue' : \/ queue'[id] = queue[id] /\ id \in DOMAIN queue
                                     \/ id = loop.id /\ loop.next # 0 /\ queue'[id] = loop.next
    <3>1. CASE loop.next = 0
      BY <2>1, <3>1 DEF Without, Restrict
    <3>2. CASE loop.next # 0
      <4>1. queue' = [x \in DOMAIN queue \cup {loop.id} |-> IF x = loop.id THEN loop.next ELSE queue[x]]
        BY <2>1, <3>2 DEF With
      <4> QED
        BY <3>2, <4>1
    <3> QED
      BY <3>1, <3>2
  <2>3. loop.back \in {"due", "apply"} /\ loop.next \in Nat
    BY <1>1, <2>1
  <2>4. /\ loop' \in LoopState /\ loop'.pc = loop.back /\ loop'.at = loop.at /\ loop'.todo = loop.todo
    BY <1>0, <2>1, <2>3 DEF LoopState, LoopPC
  <2>5. loop.next # 0 => loop.next > marked[loop.id]
    BY <2>1 DEF Marks
  <2>6. \A id \in DOMAIN queue' : queue'[id] \in Nat \ {0} /\ queue'[id] > marked[id]
    BY <1>0, <2>2, <2>3, <2>5
  <2>7. DueRound' => DueRound
    BY <2>1, <2>3, <2>4 DEF DueRound
  <2>8. DueRound => loop.id \notin loop.todo /\ \A id \in loop.todo : id \notin DOMAIN queue /\ marked[id] < loop.at
    BY <1>1, <2>1 DEF Marks
  <2>9. DueRound' => \A id \in loop'.todo : id \notin DOMAIN queue' /\ marked[id] < loop'.at
    BY <2>2, <2>4, <2>7, <2>8
  <2>10. Turned
    BY <1>0, <1>1, <2>1, <2>2, <2>3, <2>4, <2>6, <2>9 DEF Turned, DueRound
  <2> QED
    BY <1>0, <1>1, <2>1, <2>10, TurnedMarks
<1>12. CASE LoopRest
  <2>1. /\ loop.pc = "apply" /\ loop' = LoopIdle
        /\ UNCHANGED <<auths, queue, dirty, jobs, marked, spun, now, phase>>
    BY <1>12 DEF LoopRest, LoopUnchanged, histories
  <2>2. loop' \in LoopState /\ loop'.pc = "idle"
    BY <2>1, IdleTypes DEF LoopIdle
  <2>3. Turned
    BY <1>0, <2>1, <2>2 DEF Turned, DueRound
  <2> QED
    BY <1>0, <1>1, <2>1, <2>3, TurnedMarks
<1> QED
  BY <1>2, <1>3, <1>5, <1>6, <1>7, <1>8, <1>9, <1>10, <1>11, <1>12 DEF LoopStep

(* markRefreshPending: the credential has not been marked at this time.    *)
LEMMA LoopMarkStep ==
  ASSUME RefreshInv, LoopMark
  PROVE  AuthsType' /\ LoopType' /\ Marks' /\ ProcType' /\ Locking' /\ Tokens'
<1> USE DEF RefreshInv, RefreshType
<1> DEFINE id == loop.id
           open == Known(id) /\ auths[id].next <= loop.at
           pc == IF open THEN "pending" ELSE "reread"
<1>0. /\ loop.pc = "mark" /\ loop' = [loop EXCEPT !.pc = pc]
      /\ UNCHANGED <<queue, dirty, jobs, now, phase, proc, locks, server, spoiled, replayed>>
  BY DEF LoopMark, LoopUnchanged
<1>1. /\ id \in Auths /\ id \notin DOMAIN queue /\ marked[id] < loop.at /\ loop.at \in 1 .. now
      /\ loop \in LoopState /\ phase \notin Early /\ now \in Nat /\ marked \in [Auths -> Nat]
      /\ loop.at \in Nat
  BY <1>0, Backoffs DEF LoopType, Marks, AuthsType, Early
<1>2. pc \in {"pending", "reread"}
  OBVIOUS
<1>3. loop' \in LoopState /\ loop'.pc = pc /\ loop'.at = loop.at /\ loop'.id = id /\ loop'.todo = loop.todo
  <2> HIDE DEF pc, id
  <2> QED
    BY <1>0, <1>1, <1>2 DEF LoopState, LoopPC, id
<1>4. LoopType'
  BY <1>0, <1>1, <1>2, <1>3 DEF LoopType
<1>5. CASE ~open
  <2>1. UNCHANGED <<auths, marked, spun>>
    BY <1>5 DEF LoopMark
  <2>2. AuthsType'
    BY <1>0, <2>1 DEF AuthsType
  <2>21. loop'.pc = "reread" /\ loop'.id = id /\ loop'.at = loop.at /\ loop'.todo = loop.todo
    BY <1>3, <1>5
  <2>22. DueRound /\ id \notin loop.todo /\ \A x \in loop.todo : x \notin DOMAIN queue /\ marked[x] < loop.at
    BY <1>0, <1>1 DEF Marks, DueRound, LoopState
  <2>23. /\ DOMAIN queue \subseteq Auths
         /\ \A x \in DOMAIN queue : queue[x] \in Nat \ {0} /\ queue[x] > marked[x]
         /\ \A x \in Auths : marked[x] <= loop.at
    BY <1>0 DEF Marks, LoopType
  <2>3. Turned
    BY <1>0, <1>1, <1>3, <2>21, <2>22, <2>23 DEF Turned
  <2>4. Marks'
    BY <1>0, <1>1, <2>1, <2>3, TurnedMarks DEF LoopType
  <2> QED
    BY <1>0, <1>4, <2>1, <2>2, <2>4, NotesOnAuths
<1>6. CASE open
  <2> DEFINE a == [auths[id] EXCEPT !.next = loop.at + PendingBackoff]
  <2>1. /\ auths' = [auths EXCEPT ![id] = a] /\ marked' = [marked EXCEPT ![id] = loop.at]
        /\ spun' = IF marked[id] = loop.at THEN spun \cup {id} ELSE spun
    BY <1>6 DEF LoopMark
  <2>2. auths[id] \in AuthType /\ loop.at + PendingBackoff \in Nat
    BY <1>1, <1>6, Backoffs DEF AuthsType, Known
  <2>3. a \in AuthType /\ a.token = auths[id].token /\ a.next = loop.at + PendingBackoff
    BY <2>2 DEF AuthType
  <2> HIDE DEF a
  <2>4. /\ DOMAIN auths' = DOMAIN auths /\ auths'[id] = a
        /\ \A x \in DOMAIN auths \ {id} : auths'[x] = auths[x]
    BY <1>6, <2>1 DEF Known
  <2>5. /\ marked' \in [Auths -> Nat] /\ marked'[id] = loop.at
        /\ \A x \in Auths \ {id} : marked'[x] = marked[x]
    BY <1>1, <2>1
  <2>6. AuthsType'
    BY <1>0, <2>3, <2>4, <2>5 DEF AuthsType
  <2>7. ProcType' /\ Locking' /\ Tokens'
    BY <1>0, <2>3, <2>4, NotesOnAuths
  <2>8. loop'.pc = "pending"
    BY <1>3, <1>6
  <2>9. DueRound /\ DueRound' /\ id \notin loop.todo
    BY <1>0, <2>8 DEF DueRound, Marks
  <2>10. ASSUME NEW x \in Auths
         PROVE  /\ marked'[x] <= now'
                /\ marked'[x] <= loop'.at
                /\ x \in DOMAIN queue' => queue'[x] > marked'[x]
                /\ x \in DOMAIN auths' /\ marked'[x] # 0 =>
                      NextRefreshCheckAt(auths'[x], marked'[x]) # marked'[x]
                /\ x \in loop'.todo => x \notin DOMAIN queue' /\ marked'[x] < loop'.at
    <3>1. CASE x # id
      BY <1>0, <1>3, <2>4, <2>5, <2>9, <3>1 DEF Marks
    <3>2. CASE x = id
      <4>1. NextRefreshCheckAt(a, loop.at) # loop.at
        <5>1. a.next > loop.at /\ loop.at \in Nat \ {0}
          BY <1>1, <2>3, Backoffs
        <5> QED
          BY <2>3, <5>1, BackoffIsNotDue
      <4> QED
        BY <1>0, <1>1, <1>3, <2>4, <2>5, <2>9, <3>2, <4>1
    <3> QED
      BY <3>1, <3>2
  <2>11. NoSpin'
    BY <1>1, <2>1 DEF Marks, NoSpin
  <2>12. phase' \notin {"off", "installed", "snapshot"}
    BY <1>0, <1>1 DEF Early
  <2>13. Marks'
    BY <1>3, <2>8, <2>9, <2>10, <2>11, <2>12 DEF Marks
  <2> QED
    BY <1>4, <2>6, <2>7, <2>13
<1> QED
  BY <1>5, <1>6

-----------------------------------------------------------------------------
(* Every step preserves the invariant.                                     *)
LEMMA NextRefreshInv == RefreshInv /\ [RefreshNext]_refreshVars => RefreshInv'
<1> SUFFICES ASSUME RefreshInv, [RefreshNext]_refreshVars PROVE RefreshInv'
  OBVIOUS
<1> USE DEF RefreshInv, RefreshType
<1>0. ASSUME UNCHANGED <<now, auths, server, marked>>
      PROVE  AuthsType'
  BY <1>0 DEF AuthsType
<1>1. ASSUME UNCHANGED <<proc, locks, server, spoiled, replayed, auths>>
      PROVE  ProcType' /\ Locking' /\ Tokens'
  BY <1>1, NotesOnAuths
<1>2. CASE UNCHANGED refreshVars
  <2>1. UNCHANGED <<now, auths, server, marked, proc, locks, spoiled, replayed, queue, loop, spun,
                    dirty, jobs, phase>>
    BY <1>2 DEF refreshVars
  <2>2. dirty' \subseteq Auths /\ jobs' \in Seq(Auths)
    BY <2>1 DEF LoopType
  <2> QED
    BY <1>0, <1>1, <2>1, <2>2, MarksAside
<1>3. CASE StartAutoRefresh \/ RebuildFile \/ StopAutoRefresh
  <2>1. UNCHANGED <<now, auths, server, marked, proc, locks, spoiled, replayed>>
    BY <1>3 DEF StartAutoRefresh, RebuildFile, StopAutoRefresh, histories
  <2> QED
    BY <1>0, <1>1, <1>3, <2>1, AsideSteps
<1>4. CASE RebuildSnapshot
  <2>1. UNCHANGED <<now, auths, server, marked, proc, locks, spoiled, replayed>>
    BY <1>4 DEF RebuildSnapshot, histories
  <2> QED
    BY <1>0, <1>1, <1>4, <2>1, QueueSteps
<1>5. CASE RefreshTick
  <2>1. UNCHANGED <<auths, server, marked, proc, locks, spoiled, replayed>>
        /\ now' = now + 1 /\ now < MaxTime
    BY <1>5 DEF RefreshTick, histories
  <2>2. AuthsType'
    BY <2>1, Backoffs DEF AuthsType
  <2> QED
    BY <1>1, <1>5, <2>1, <2>2, QueueSteps
<1>6. CASE LoopStep /\ ~LoopMark
  <2>1. UNCHANGED <<now, auths, server, marked, proc, locks, spoiled, replayed>>
    BY <1>6 DEF LoopStep, LoopWake, LoopTimer, LoopPending, LoopReread, LoopSend, LoopDrain, LoopPut,
                LoopRest, LoopDue, LoopApply, LoopUnchanged, histories
  <2> QED
    BY <1>0, <1>1, <1>6, <2>1, LoopTurns
<1>7. CASE LoopMark
  BY <1>7, LoopMarkStep
<1>8. ASSUME NEW p \in Procs,
             \/ WorkerTake(p) \/ WorkerAfter(p) \/ StoreReschedule(p) \/ TakesCopy(p)
             \/ \E id \in Auths, failed \in 1 .. MaxToken : RequestUnauthorized(p, id, failed)
      PROVE  RefreshInv'
  <2>1. UNCHANGED <<now, auths, server, marked>>
    BY <1>8 DEF WorkerTake, WorkerAfter, StoreReschedule, RequestUnauthorized, TakesCopy, PrepareCoreAuth,
                FileRead, CopyRead, ProcUnchanged, histories
  <2> QED
    BY <1>0, <1>8, <2>1, OutsideSteps, AsideSteps
<1>9. ASSUME NEW p \in Procs, QueueUnschedule(p)
      PROVE  RefreshInv'
  <2>1. UNCHANGED <<now, auths, server, marked>>
    BY <1>9 DEF QueueUnschedule
  <2> QED
    BY <1>0, <1>9, <2>1, OutsideSteps, QueueSteps
<1>10. ASSUME NEW p \in Procs, NEW id \in Auths, RemoveAuth(p, id)
       PROVE  RefreshInv'
  <2>1. UNCHANGED <<now, server, marked>> /\ auths' = Without(auths, id)
    BY <1>10 DEF RemoveAuth, ProcUnchanged, histories
  <2>2. DOMAIN auths' \subseteq DOMAIN auths /\ \A x \in DOMAIN auths' : auths'[x] = auths[x]
    BY <2>1 DEF Without, Restrict
  <2>3. AuthsType'
    BY <2>1, <2>2 DEF AuthsType
  <2> QED
    BY <1>10, <2>3, OutsideSteps, AuthSteps
<1>11. ASSUME NEW p \in Procs, StoreAuth(p)
       PROVE  RefreshInv'
  BY <1>11, LoginSteps, AuthSteps
<1>12. ASSUME NEW p \in Procs, NEW id \in Auths, NEW login \in Logins, LoginRead(p, id, login)
       PROVE  RefreshInv'
  BY <1>12, LoginSteps, AsideSteps
<1>18. ASSUME NEW p \in Procs, PrepareRefreshes(p)
       PROVE  RefreshInv'
  BY <1>18, LoginSteps, AsideSteps
<1>13. ASSUME NEW p \in Procs, RefreshRead(p) \/ RefreshReschedule(p)
       PROVE  RefreshInv'
  <2>1. UNCHANGED <<now, auths, server, marked>>
    BY <1>13 DEF RefreshRead, RefreshReschedule, ProcUnchanged, histories
  <2> QED
    BY <1>0, <1>13, <2>1, ReadStep, RescheduleStep, AsideSteps
<1>14. ASSUME NEW p \in Procs, ProviderAnswers(p)
       PROVE  RefreshInv'
  BY <1>14, AnswerStep, AsideSteps
<1>15. ASSUME NEW p \in Procs, RefreshStore(p)
       PROVE  RefreshInv'
  BY <1>15, StoreStep, AuthSteps
<1>16. ASSUME NEW id \in Auths, NEW unauthorized \in BOOLEAN, MarkResult(id, unauthorized)
       PROVE  RefreshInv'
  <2>1. /\ UNCHANGED <<now, proc, locks, server, spoiled, replayed>> /\ id \in DOMAIN auths
        /\ auths' = [auths EXCEPT ![id].unauthorized = unauthorized]
        /\ marked' = IF unauthorized THEN marked ELSE [marked EXCEPT ![id] = 0]
    BY <1>16 DEF MarkResult, ProcUnchanged, Known
  <2> DEFINE a == [auths[id] EXCEPT !.unauthorized = unauthorized]
  <2>2. auths[id] \in AuthType
    BY <2>1 DEF AuthsType
  <2>3. a \in AuthType /\ a.token = auths[id].token
    BY <2>2 DEF AuthType
  <2>4. /\ DOMAIN auths' = DOMAIN auths /\ auths'[id] = a
        /\ \A x \in DOMAIN auths \ {id} : auths'[x] = auths[x]
    BY <2>1
  <2> HIDE DEF a
  <2>5. AuthsType'
    BY <2>1, <2>3, <2>4 DEF AuthsType
  <2>6. ProcType' /\ Locking' /\ Tokens'
    BY <2>1, <2>3, <2>4, NotesOnAuths
  <2> QED
    BY <1>16, <2>5, <2>6, AuthSteps
<1>17. Workers \subseteq Procs /\ Callers \subseteq Procs
  BY DEF Procs
<1> QED
  BY <1>2, <1>3, <1>4, <1>5, <1>6, <1>7, <1>8, <1>9, <1>10, <1>11, <1>12, <1>13, <1>14, <1>15, <1>16,
     <1>17, <1>18 DEF RefreshNext, TakesCopy

(* The refreshes of TokenRefresh satisfy the invariant.                    *)
LEMMA RefreshInvariant == RefreshSpec => []RefreshInv
<1>1. RefreshInit => RefreshInv
  BY InitRefreshInv
<1>2. RefreshInv /\ [RefreshNext]_refreshVars => RefreshInv'
  BY NextRefreshInv
<1> QED
  BY <1>1, <1>2, PTL DEF RefreshSpec

(* refreshAuthForRequest presents no superseded token, however refreshes   *)
(* by workers and requests, logins, removals and lost answers interleave.  *)
THEOREM NoRefreshReplays == RefreshSpec => []NoTokenReplayed
<1>1. RefreshInv => NoTokenReplayed
  BY DEF RefreshInv, Tokens
<1> QED
  BY <1>1, RefreshInvariant, PTL

(* The loop of auto_refresh_loop.go marks no credential twice at the same  *)
(* time, whatever the refresh came to and whatever times logins ask for.   *)
THEOREM RefreshLoopDoesNotSpin == RefreshSpec => []NoSpin
<1>1. RefreshInv => NoSpin
  BY DEF RefreshInv, Marks
<1> QED
  BY <1>1, RefreshInvariant, PTL

-----------------------------------------------------------------------------
(* What the loop watches *)

(* A non-empty set of times has an earliest one.                           *)
LEMMA EarliestTime ==
  ASSUME NEW S \in SUBSET Nat, S # {}
  PROVE  Min(S) \in S /\ \A y \in S : Min(S) <= y
<1> DEFINE R == OpToRel(<, Nat)
<1>1. \E x \in S : \A y \in S : ~(<<y, x>> \in R)
  BY NatLessThanWellFounded, WFMin, Zenon
<1>2. \A x, y \in Nat : <<y, x>> \in R <=> y < x
  BY DEF OpToRel
<1> HIDE DEF R
<1>3. \E x \in S : \A y \in S : x <= y
  <2>1. PICK x \in S : \A y \in S : ~(<<y, x>> \in R)
    BY <1>1
  <2>2. ASSUME NEW y \in S PROVE x <= y
    <3>1. x \in Nat /\ y \in Nat
      OBVIOUS
    <3>2. ~(y < x)
      BY <1>2, <2>1, <3>1, Zenon
    <3> QED
      BY <3>1, <3>2
  <2> QED
    BY <2>2
<1> QED
  BY <1>3 DEF Min

(* nextRefreshCheckAt: a credential that is to be checked at a later look  *)
(* at it is to be checked at an earlier one too, and no later.             *)
LEMMA CheckIsMonotonic ==
  ASSUME NEW a \in AuthType, NEW t \in Nat \ {0}, NEW u \in Nat, t <= u,
         NextRefreshCheckAt(a, u) # 0
  PROVE  NextRefreshCheckAt(a, t) # 0 /\ NextRefreshCheckAt(a, t) <= NextRefreshCheckAt(a, u)
<1>1. /\ a.pref \in Nat /\ a.lead \in Nat /\ a.last \in Nat /\ a.expiry \in Nat /\ a.next \in Nat
      /\ a.unauthorized \in BOOLEAN
  BY AuthFields
<1>2. NextRefreshCheckAt(a, u) \in Nat /\ NextRefreshCheckAt(a, u) >= u
  BY CheckTime
<1>3. ~a.unauthorized
  BY DEF NextRefreshCheckAt
<1>4. CASE a.next > t
  <2>1. NextRefreshCheckAt(a, t) = a.next
    BY <1>1, <1>3, <1>4 DEF NextRefreshCheckAt
  <2>2. CASE a.next > u
    <3>1. NextRefreshCheckAt(a, u) = a.next
      BY <1>1, <1>3, <2>2 DEF NextRefreshCheckAt
    <3> QED
      BY <1>1, <1>4, <2>1, <3>1
  <2>3. CASE a.next <= u
    BY <1>1, <1>2, <1>4, <2>1, <2>3
  <2> QED
    BY <1>1, <2>2, <2>3
<1>5. CASE a.next <= t /\ a.pref > 0
  <2>0. a.next <= u
    BY <1>1, <1>5
  <2>1. CASE a.last = 0 \/ (a.expiry # 0 /\ a.expiry - t <= a.pref)
    <3>1. NextRefreshCheckAt(a, t) = t
      BY <1>1, <1>3, <1>5, <2>1 DEF NextRefreshCheckAt
    <3> QED
      BY <1>2, <3>1
  <2>2. CASE ~(a.last = 0 \/ (a.expiry # 0 /\ a.expiry - t <= a.pref))
    <3> DEFINE x == a.last + a.pref
               y == IF a.expiry # 0 THEN a.expiry - a.pref ELSE x
               m == Min({x, y})
    <3>1. {a.last + a.pref} \cup (IF a.expiry # 0 THEN {a.expiry - a.pref} ELSE {}) = {x, y}
      OBVIOUS
    <3>2. x \in Int /\ y \in Int
      BY <1>1
    <3>3. NextRefreshCheckAt(a, t) = Max({m, t})
      <4>1. NextRefreshCheckAt(a, t) =
              Max({Min({a.last + a.pref} \cup (IF a.expiry # 0 THEN {a.expiry - a.pref} ELSE {})), t})
        <5>1. ~(a.next > t)
          BY <1>1, <1>5
        <5> QED
          BY <1>3, <1>5, <2>2, <5>1, Zenon DEF NextRefreshCheckAt
      <4> QED
        BY <3>1, <4>1, Zenon
    <3>4. ~(a.expiry # 0 /\ a.expiry - u <= a.pref) => NextRefreshCheckAt(a, u) = Max({m, u})
      <4> HAVE ~(a.expiry # 0 /\ a.expiry - u <= a.pref)
      <4>1. NextRefreshCheckAt(a, u) =
              Max({Min({a.last + a.pref} \cup (IF a.expiry # 0 THEN {a.expiry - a.pref} ELSE {})), u})
        <5>1. ~(a.next > u)
          BY <1>1, <2>0
        <5> QED
          BY <1>3, <1>5, <2>0, <2>2, <5>1, Zenon DEF NextRefreshCheckAt
      <4> QED
        BY <3>1, <4>1, Zenon
    <3>5. a.expiry # 0 /\ a.expiry - u <= a.pref => y <= u
      BY <1>1
    <3> HIDE DEF x, y
    <3>6. m \in Int /\ m <= y
      BY <3>2, MinOfTwo
    <3> HIDE DEF m
    <3>7. /\ Max({m, t}) \in Int /\ Max({m, t}) >= t /\ (Max({m, t}) = m \/ Max({m, t}) = t)
          /\ Max({m, u}) \in Int /\ Max({m, u}) >= m /\ Max({m, u}) >= u
      <4>1. t \in Int /\ u \in Int
        OBVIOUS
      <4> QED
        BY <3>6, <4>1, MaxOfTwo
    <3> QED
      BY <1>2, <3>2, <3>3, <3>4, <3>5, <3>6, <3>7
  <2> QED
    BY <2>1, <2>2
<1>6. CASE a.next <= t /\ a.pref = 0
  <2>1. ~(a.next > t) /\ ~(a.next > u) /\ ~(a.pref > 0)
    BY <1>1, <1>6
  <2> DEFINE x == IF a.expiry # 0 THEN a.expiry - a.lead ELSE a.last + a.lead
  <2>2. x \in Int
    BY <1>1
  <2>3. \A s \in {t, u} : NextRefreshCheckAt(a, s) =
          IF a.lead = 0 THEN 0 ELSE IF a.expiry # 0 \/ a.last # 0 THEN Max({x, s}) ELSE s
    BY <1>3, <2>1 DEF NextRefreshCheckAt
  <2> HIDE DEF x
  <2>4. /\ Max({x, t}) \in Int /\ Max({x, t}) >= t /\ (Max({x, t}) = x \/ Max({x, t}) = t)
        /\ Max({x, u}) \in Int /\ Max({x, u}) >= x /\ Max({x, u}) >= u
    <3>1. t \in Int /\ u \in Int
      OBVIOUS
    <3> QED
      BY <2>2, <3>1, MaxOfTwo
  <2> QED
    BY <1>2, <2>2, <2>3, <2>4
<1> QED
  BY <1>1, <1>4, <1>5, <1>6

(* A goroutine that is going to have its credential rescheduled. *)
Handling(p) == p \in Workers \/ proc[p].pc \in {"reschedule", "stored"}

(* A credential the loop is still to look at, or is told to. *)
Elsewhere(id) ==
  \/ id \in dirty \/ id \in loop.todo \/ id \in Range(jobs)
  \/ \E p \in Procs : proc[p].id = id /\ Handling(p)

InTime(id, at) == at <= NextCheck(id, now) \/ ~auths[id].exec

(* A credential that is to be checked is filed in time, or the loop has    *)
(* decided to file it in time, or is still to look at it.                  *)
Followed(id) ==
  NextCheck(id, now) # 0 /\ ~Elsewhere(id) =>
    IF loop.id = id THEN loop.pc = "put" => loop.next # 0 /\ InTime(id, loop.next)
                    ELSE id \in DOMAIN queue /\ InTime(id, queue[id])

Filed == phase \in {"snapshot", "running"}
AllFollowed == Filed => \A id \in Auths \ orphaned : Followed(id)

WorkerPC == {"idle", "lock", "call", "answered", "reschedule", "after"}

(* Whoever rests has nothing in hand, and the jobs fit the channel. *)
Resting ==
  /\ timer \in Nat
  /\ phase \in {"off", "installed", "snapshot", "running", "stopped"}
  /\ Len(jobs) <= JobBuffer
  /\ \A p \in Procs : proc[p].pc = "idle" => proc[p].id = "none"
  /\ \A p \in Workers : proc[p].pc \in WorkerPC
  /\ loop.pc \in {"idle", "drain"} => loop.todo = {}
  /\ loop.pc \in {"idle", "drain", "due", "apply"} => loop.id = "none"
  /\ loop.pc # "put" => loop.back # "due"

(* A mark to reschedule comes with a wake-up or before the round's drain,  *)
(* and a loop that rests has its timer set.                                *)
Woken ==
  /\ dirty # {} => wake \/ loop.pc \in {"due", "mark", "pending", "reread", "send", "drain"}
                        \/ loop.back = "due"
  /\ loop.pc = "idle" /\ DOMAIN queue # {} /\ phase = "running" => timer # 0

WatchInv == RefreshInv /\ Resting /\ AllFollowed /\ Woken

(* The jobs after one is taken and after one is sent.                      *)
LEMMA JobsTaken ==
  ASSUME NEW s \in Seq(Auths), s # <<>>
  PROVE  Range(s) \subseteq {Head(s)} \cup Range(Tail(s)) /\ Len(Tail(s)) <= Len(s)
<1>1. ASSUME NEW i \in 1 .. Len(s) PROVE s[i] \in {Head(s)} \cup Range(Tail(s))
  <2>1. CASE i = 1
    BY <2>1
  <2>2. CASE i # 1
    <3>1. i - 1 \in DOMAIN Tail(s) /\ Tail(s)[i - 1] = s[i]
      BY <2>2
    <3> QED
      BY <3>1 DEF Range
  <2> QED
    BY <2>1, <2>2
<1>2. Len(Tail(s)) <= Len(s)
  OBVIOUS
<1> QED
  BY <1>1, <1>2 DEF Range

(* ... after one is sent.                                                  *)
LEMMA JobsSent ==
  ASSUME NEW s \in Seq(Auths), NEW e \in Auths
  PROVE  Range(s) \subseteq Range(Append(s, e)) /\ e \in Range(Append(s, e))
         /\ Len(Append(s, e)) = Len(s) + 1
<1> DEFINE t == Append(s, e)
<1>1. t \in Seq(Auths) /\ Len(t) = Len(s) + 1 /\ t[Len(t)] = e /\ \A i \in 1 .. Len(s) : t[i] = s[i]
  OBVIOUS
<1>2. DOMAIN t = 1 .. Len(t) /\ DOMAIN s = 1 .. Len(s) /\ Len(s) \in Nat
  BY <1>1
<1> HIDE DEF t
<1>3. e \in Range(t)
  BY <1>1, <1>2 DEF Range
<1>4. Range(s) \subseteq Range(t)
  BY <1>1, <1>2 DEF Range
<1> QED
  BY <1>1, <1>3, <1>4 DEF t

(* A credential stays on the way to the loop when a goroutine moves on.    *)
LEMMA StaysElsewhere ==
  ASSUME NEW p \in Procs, NEW x \in Auths, Elsewhere(x),
         loop' = loop, dirty \subseteq dirty',
         Range(jobs) \subseteq Range(jobs') \cup (IF p \in Workers THEN {proc'[p].id} ELSE {}),
         \A q \in Procs \ {p} : proc'[q] = proc[q],
         proc[p].id = x /\ Handling(p) => x \in dirty' \/ (proc'[p].id = x /\ Handling(p)')
  PROVE  Elsewhere(x)'
<1>1. CASE x \in dirty \/ x \in loop.todo
  BY <1>1 DEF Elsewhere
<1>2. CASE x \in Range(jobs)
  BY <1>2 DEF Elsewhere, Handling
<1>3. ASSUME NEW q \in Procs, proc[q].id = x, Handling(q)
      PROVE  Elsewhere(x)'
  <2>1. CASE q = p
    BY <1>3, <2>1 DEF Elsewhere
  <2>2. CASE q # p
    BY <1>3, <2>2 DEF Elsewhere, Handling
  <2> QED
    BY <2>1, <2>2
<1> QED
  BY <1>1, <1>2, <1>3 DEF Elsewhere

(* A credential that a step leaves alone. *)
Undisturbed(id) ==
  /\ id \notin orphaned /\ ~Elsewhere(id)
  /\ id \in DOMAIN auths' => id \in DOMAIN auths /\ auths'[id] = auths[id]
  /\ id \in DOMAIN queue => id \in DOMAIN queue' /\ queue'[id] = queue[id]

(* It is followed as before.                                               *)
LEMMA UndisturbedIsFollowed ==
  ASSUME NEW id \in Auths, Followed(id), Undisturbed(id), UNCHANGED <<now, loop>>
  PROVE  Followed(id)'
<1> SUFFICES ASSUME NextCheck(id, now)' # 0 PROVE Followed(id)'
  BY DEF Followed
<1>1. id \in DOMAIN auths' /\ id \in DOMAIN auths /\ auths'[id] = auths[id]
  BY DEF NextCheck, Known, Undisturbed
<1>2. NextCheck(id, now)' = NextCheck(id, now)
  BY <1>1 DEF NextCheck, Known, NextRefreshCheckAt
<1>3. \A at : InTime(id, at) => InTime(id, at)'
  BY <1>1, <1>2 DEF InTime
<1> QED
  BY <1>2, <1>3 DEF Followed, Undisturbed

(* A step of a goroutine outside the loop.                                 *)
LEMMA ProcWatch ==
  ASSUME WatchInv, NEW p \in Procs, UNCHANGED <<now, loop, phase, timer>>,
         \A q \in Procs \ {p} : proc'[q] = proc[q],
         UNCHANGED <<dirty, wake>> \/ wake', Len(jobs') <= Len(jobs), jobs' \in Seq(Auths),
         DOMAIN queue' \subseteq DOMAIN queue,
         proc'[p].pc = "idle" => proc'[p].id = "none",
         p \in Workers => proc'[p].pc \in WorkerPC,
         \A id \in Auths \ orphaned' :
            Filed /\ NextCheck(id, now)' # 0 => Elsewhere(id)' \/ Undisturbed(id)
  PROVE  Resting' /\ AllFollowed' /\ Woken'
<1> USE DEF WatchInv
<1>1. Resting'
  <2>1. Len(jobs') \in Nat /\ Len(jobs) \in Nat /\ JobBuffer \in Nat
    BY RefreshAssumption DEF RefreshInv, RefreshType, LoopType
  <2>2. Len(jobs') <= JobBuffer
    BY <2>1 DEF Resting
  <2>3. \A q \in Procs : proc'[q].pc = "idle" => proc'[q].id = "none"
    BY DEF Resting
  <2>4. \A q \in Workers : proc'[q].pc \in WorkerPC
    BY DEF Resting, Procs
  <2> QED
    BY <2>2, <2>3, <2>4 DEF Resting
<1>2. Woken'
  BY DEF Woken
<1>3. ASSUME Filed', NEW id \in Auths \ orphaned'
      PROVE  Followed(id)'
  <2>1. Filed
    BY <1>3 DEF Filed
  <2>2. CASE NextCheck(id, now)' = 0 \/ Elsewhere(id)'
    BY <2>2 DEF Followed
  <2>3. CASE Undisturbed(id)
    BY <2>1, <2>3, UndisturbedIsFollowed DEF AllFollowed, Undisturbed
  <2> QED
    BY <1>3, <2>1, <2>2, <2>3
<1>4. AllFollowed'
  BY <1>3 DEF AllFollowed
<1> QED
  BY <1>1, <1>2, <1>4

(* The places and credentials of the goroutines.                           *)
LEMMA ProcFacts ==
  ASSUME WatchInv
  PROVE  /\ proc \in [Procs -> ProcState] /\ "none" \notin Auths
         /\ \A p \in Procs : proc[p].pc = "idle" => proc[p].id = "none"
         /\ \A p \in Procs : proc[p].pc # "idle" => proc[p].id \in Auths
         /\ Idle.pc = "idle" /\ Idle.id = "none" /\ Idle \in ProcState
         /\ \A c \in Callers : c \in Procs /\ c \notin Workers
         /\ \A w \in Workers : w \in Procs
         /\ jobs \in Seq(Auths)
<1>1. Idle.pc = "idle" /\ Idle.id = "none" /\ Idle \in ProcState
  BY IdleTypes DEF Idle
<1>2. /\ "none" \notin Auths
      /\ \A c \in Callers : c \in Procs /\ c \notin Workers
      /\ \A w \in Workers : w \in Procs
  BY RefreshAssumption DEF Procs
<1> QED
  BY <1>1, <1>2 DEF WatchInv, Resting, RefreshInv, RefreshType, ProcType, LoopType

(* A goroutine that changes neither credentials nor the loop's data.       *)
LEMMA QuietWatch ==
  ASSUME WatchInv, NEW p \in Procs, UNCHANGED <<now, loop, phase, timer, auths, queue, orphaned>>,
         \A q \in Procs \ {p} : proc'[q] = proc[q],
         dirty \subseteq dirty', UNCHANGED <<dirty, wake>> \/ wake',
         Range(jobs) \subseteq Range(jobs') \cup (IF p \in Workers THEN {proc'[p].id} ELSE {}),
         Len(jobs') <= Len(jobs), jobs' \in Seq(Auths),
         proc'[p].pc = "idle" => proc'[p].id = "none",
         p \in Workers => proc'[p].pc \in WorkerPC,
         \A x \in Auths : Filed /\ proc[p].id = x /\ Handling(p) =>
            x \in dirty' \/ (proc'[p].id = x /\ Handling(p)')
  PROVE  Resting' /\ AllFollowed' /\ Woken'
<1>1. ASSUME NEW id \in Auths \ orphaned', Filed
      PROVE  Elsewhere(id)' \/ Undisturbed(id)
  <2>1. CASE Elsewhere(id)
    BY <1>1, <2>1, StaysElsewhere
  <2>2. CASE ~Elsewhere(id)
    BY <1>1, <2>2 DEF Undisturbed
  <2> QED
    BY <2>1, <2>2
<1> QED
  BY <1>1, ProcWatch

(* Workers take jobs and report; requests and logins begin; a refresh      *)
(* reads its credential and is answered.                                   *)
LEMMA QuietSteps ==
  ASSUME WatchInv, NEW p \in Procs,
         \/ p \in Workers /\ (WorkerTake(p) \/ WorkerAfter(p))
         \/ RefreshRead(p) \/ ProviderAnswers(p)
         \/ p \in Callers /\ \/ \E id \in Auths, failed \in 1 .. MaxToken : RequestUnauthorized(p, id, failed)
                             \/ \E id \in Auths, login \in Logins : LoginRead(p, id, login)
                             \/ TakesCopy(p) \/ PrepareRefreshes(p)
  PROVE  Resting' /\ AllFollowed' /\ Woken'
<1> USE ProcFacts
<1>1. CASE p \in Workers /\ WorkerTake(p)
  <2>1. /\ jobs # <<>> /\ jobs' = Tail(jobs) /\ proc[p].pc = "idle"
        /\ proc' = [proc EXCEPT ![p] = [Idle EXCEPT !.pc = "lock", !.id = Head(jobs)]]
        /\ UNCHANGED <<now, auths, phase, queue, dirty, wake, timer, loop, orphaned>>
    BY <1>1 DEF WorkerTake, At, histories
  <2>2. proc'[p] = [Idle EXCEPT !.pc = "lock", !.id = Head(jobs)] /\ \A q \in Procs \ {p} : proc'[q] = proc[q]
    BY <2>1
  <2>3. proc'[p].pc = "lock" /\ proc'[p].id = Head(jobs)
    BY <2>2 DEF ProcState
  <2>4. Range(jobs) \subseteq {Head(jobs)} \cup Range(Tail(jobs)) /\ Len(Tail(jobs)) <= Len(jobs)
    BY <2>1, JobsTaken
  <2>5. jobs' \in Seq(Auths)
    BY <2>1
  <2>6. \A x \in Auths : proc[p].id # x
    BY <2>1
  <2> QED
    BY <1>1, <2>1, <2>2, <2>3, <2>4, <2>5, <2>6, QuietWatch DEF WorkerPC
<1>2. CASE p \in Workers /\ WorkerAfter(p)
  <2>1. /\ dirty' = dirty \cup {proc[p].id} /\ wake' = TRUE /\ orphaned' = orphaned \ {proc[p].id}
        /\ proc' = [proc EXCEPT ![p] = Idle] /\ proc[p].pc # "idle"
        /\ UNCHANGED <<now, auths, phase, queue, timer, jobs, loop>>
    BY <1>2 DEF WorkerAfter, ProcUnchanged, At
  <2>2. proc'[p] = Idle /\ \A q \in Procs \ {p} : proc'[q] = proc[q]
    BY <2>1
  <2>3. ASSUME NEW id \in Auths \ orphaned'
        PROVE  Elsewhere(id)' \/ Undisturbed(id)
    <3>1. CASE id = proc[p].id
      BY <2>1, <3>1 DEF Elsewhere
    <3>2. CASE id # proc[p].id /\ Elsewhere(id)
      BY <2>1, <2>2, <3>2, StaysElsewhere
    <3>3. CASE id # proc[p].id /\ ~Elsewhere(id)
      BY <2>1, <2>3, <3>3 DEF Undisturbed
    <3> QED
      BY <3>1, <3>2, <3>3
  <2>4. Len(jobs') <= Len(jobs) /\ jobs' \in Seq(Auths)
    BY <2>1
  <2> QED
    BY <2>1, <2>2, <2>3, <2>4, ProcWatch DEF WorkerPC
<1>3. ASSUME UNCHANGED <<now, auths, phase, queue, timer, jobs, loop, dirty, wake, orphaned>>,
             \A q \in Procs \ {p} : proc'[q] = proc[q],
             \/ p \in Workers /\ proc'[p].pc \in WorkerPC \ {"idle"} /\ proc'[p].id = proc[p].id
             \/ p \notin Workers /\ proc'[p].pc # "idle" /\ proc[p].pc \notin {"reschedule", "stored"}
             \/ p \notin Workers /\ proc'[p] = Idle /\ proc[p].pc \notin {"reschedule", "stored"}
      PROVE  Resting' /\ AllFollowed' /\ Woken'
  <2>1. Len(jobs') <= Len(jobs) /\ jobs' \in Seq(Auths) /\ Range(jobs) = Range(jobs')
    BY <1>3
  <2>2. Handling(p) => p \in Workers /\ proc'[p].id = proc[p].id /\ Handling(p)'
    BY <1>3 DEF Handling
  <2>3. proc'[p].pc = "idle" => proc'[p].id = "none"
    BY <1>3
  <2> QED
    BY <1>3, <2>1, <2>2, <2>3, QuietWatch
<1>4. CASE RefreshRead(p)
  <2>1. /\ UNCHANGED <<now, auths, phase, queue, timer, jobs, loop, dirty, wake, orphaned>>
        /\ proc[p].pc = "lock"
        /\ \/ proc' = [proc EXCEPT ![p] = Done(p)]
           \/ proc' = [proc EXCEPT ![p].pc = "call", ![p].auth = auths[proc[p].id], ![p].failed = 0]
    BY <1>4 DEF RefreshRead, ProcUnchanged, At, histories
  <2>2. \A q \in Procs \ {p} : proc'[q] = proc[q]
    BY <2>1
  <2>3. CASE proc' = [proc EXCEPT ![p] = Done(p)]
    <3>1. proc'[p] = Done(p)
      BY <2>3
    <3>2. CASE p \in Workers
      <4>1. proc'[p].pc = "after" /\ proc'[p].id = proc[p].id
        BY <3>1, <3>2 DEF Done, ProcState
      <4> QED
        BY <1>3, <2>1, <2>2, <3>2, <4>1 DEF WorkerPC
    <3>3. CASE p \notin Workers
      <4>1. proc'[p] = Idle
        BY <3>1, <3>3 DEF Done
      <4> QED
        BY <1>3, <2>1, <2>2, <3>3, <4>1
    <3> QED
      BY <3>2, <3>3
  <2>4. CASE proc' = [proc EXCEPT ![p].pc = "call", ![p].auth = auths[proc[p].id], ![p].failed = 0]
    <3>1. proc'[p].pc = "call" /\ proc'[p].id = proc[p].id
      BY <2>4 DEF ProcState
    <3> QED
      BY <1>3, <2>1, <2>2, <3>1 DEF WorkerPC
  <2> QED
    BY <2>1, <2>3, <2>4
<1>5. CASE ProviderAnswers(p)
  <2>1. /\ UNCHANGED <<now, auths, phase, queue, timer, jobs, loop, dirty, wake, orphaned>>
        /\ proc[p].pc = "call"
        /\ \/ \E answer \in Answers :
                proc' = [proc EXCEPT ![p].pc = "answered", ![p].answer = answer, ![p].auth = NoAuth]
           \/ \E expiry : proc' = [proc EXCEPT ![p].pc = "answered", ![p].answer = "granted",
                                     ![p].auth.token = server[proc[p].id] + 1, ![p].auth.expiry = expiry]
    BY <1>5 DEF ProviderAnswers, ProcUnchanged, At, histories, Answers
  <2>2. \A q \in Procs \ {p} : proc'[q] = proc[q]
    BY <2>1
  <2>3. proc'[p].pc = "answered" /\ proc'[p].id = proc[p].id
    <3>1. ASSUME NEW answer,
                 proc' = [proc EXCEPT ![p].pc = "answered", ![p].answer = answer, ![p].auth = NoAuth]
          PROVE  proc'[p].pc = "answered" /\ proc'[p].id = proc[p].id
      BY <3>1 DEF ProcState
    <3>2. ASSUME NEW expiry, proc' = [proc EXCEPT ![p].pc = "answered", ![p].answer = "granted",
                                     ![p].auth.token = server[proc[p].id] + 1, ![p].auth.expiry = expiry]
          PROVE  proc'[p].pc = "answered" /\ proc'[p].id = proc[p].id
      BY <3>2 DEF ProcState
    <3> QED
      BY <2>1, <3>1, <3>2, Zenon
  <2> QED
    BY <1>3, <2>1, <2>2, <2>3 DEF WorkerPC
<1>6. ASSUME p \in Callers, NEW id \in Auths, NEW failed \in 1 .. MaxToken, RequestUnauthorized(p, id, failed)
      PROVE  Resting' /\ AllFollowed' /\ Woken'
  <2>1. /\ UNCHANGED <<now, auths, phase, queue, timer, jobs, loop, dirty, wake, orphaned>>
        /\ proc[p].pc = "idle"
        /\ proc' = [proc EXCEPT ![p] = [Idle EXCEPT !.pc = "lock", !.id = id, !.failed = failed]]
    BY <1>6 DEF RequestUnauthorized, ProcUnchanged, At, histories
  <2>2. proc'[p].pc = "lock" /\ \A q \in Procs \ {p} : proc'[q] = proc[q]
    BY <2>1 DEF ProcState
  <2> QED
    BY <1>3, <1>6, <2>1, <2>2
<1>7. ASSUME p \in Callers, NEW id \in Auths, NEW login \in Logins, LoginRead(p, id, login)
      PROVE  Resting' /\ AllFollowed' /\ Woken'
  <2>1. /\ UNCHANGED <<now, auths, phase, queue, timer, jobs, loop, dirty, wake, orphaned>>
        /\ proc[p].pc = "idle"
        /\ \E auth : proc' = [proc EXCEPT ![p] = [Idle EXCEPT !.pc = "file", !.id = id, !.auth = auth]]
    BY <1>7 DEF LoginRead, ProcUnchanged, At, histories
  <2>2. proc'[p].pc = "file" /\ \A q \in Procs \ {p} : proc'[q] = proc[q]
    BY <2>1 DEF ProcState
  <2> QED
    BY <1>3, <1>7, <2>1, <2>2
<1>8. CASE p \in Callers /\ TakesCopy(p)
  <2>1. /\ UNCHANGED <<now, auths, phase, queue, timer, jobs, loop, dirty, wake, orphaned>>
        /\ proc[p].pc \in {"idle", "file"}
        /\ \E r : Becomes(p, r) /\ r.pc \in {"file", "copied", "update", "register"} /\ proc'[p] = r
    BY <1>8, CopyState DEF histories, WatchInv
  <2>2. proc'[p].pc # "idle" /\ \A q \in Procs \ {p} : proc'[q] = proc[q]
    BY <2>1 DEF Becomes
  <2> QED
    BY <1>3, <1>8, <2>1, <2>2
<1>9. CASE p \in Callers /\ PrepareRefreshes(p)
  <2>1. /\ UNCHANGED <<now, auths, phase, queue, timer, jobs, loop, dirty, wake, orphaned>>
        /\ proc[p].pc = "copied"
        /\ \/ proc' = [proc EXCEPT ![p] = Idle]
           \/ \E expiry : proc' = [proc EXCEPT ![p].pc = "update",
                    ![p].auth.token = server[proc[p].id] + 1, ![p].auth.expiry = expiry]
    BY <1>9 DEF PrepareRefreshes, ProcUnchanged, At
  <2>2. CASE proc' = [proc EXCEPT ![p] = Idle]
    <3>1. proc'[p] = Idle /\ \A q \in Procs \ {p} : proc'[q] = proc[q]
      BY <2>2
    <3> QED
      BY <1>3, <1>9, <2>1, <3>1
  <2>3. ASSUME NEW expiry, proc' = [proc EXCEPT ![p].pc = "update",
                    ![p].auth.token = server[proc[p].id] + 1, ![p].auth.expiry = expiry]
        PROVE  Resting' /\ AllFollowed' /\ Woken'
    <3>1. proc'[p].pc = "update" /\ \A q \in Procs \ {p} : proc'[q] = proc[q]
      BY <2>3 DEF ProcState
    <3> QED
      BY <1>3, <1>9, <2>1, <3>1
  <2> QED
    BY <2>1, <2>2, <2>3
<1> QED
  BY <1>1, <1>2, <1>4, <1>5, <1>6, <1>7, <1>8, <1>9

(* queueRefreshReschedule while the credentials are filed.                 *)
LEMMA RescheduleMarks ==
  ASSUME NEW id, QueueReschedule(id)
  PROVE  /\ dirty \subseteq dirty' /\ (UNCHANGED <<dirty, wake>> \/ wake')
         /\ Filed => id \in dirty'
         /\ \A x : x \notin orphaned' => x = id \/ x \notin orphaned
         /\ ~Filed \/ orphaned' = orphaned \ {id}
  BY DEF QueueReschedule, Filed, Listening

(* Refreshes store and reschedule, so do logins.                           *)
LEMMA StoringSteps ==
  ASSUME WatchInv, NEW p \in Procs,
         \/ RefreshStore(p) \/ RefreshReschedule(p)
         \/ p \in Callers /\ (StoreAuth(p) \/ StoreReschedule(p))
  PROVE  Resting' /\ AllFollowed' /\ Woken'
<1> USE ProcFacts
<1> DEFINE id == proc[p].id
<1>1. UNCHANGED <<now, phase, queue, timer, jobs, loop>>
  BY DEF RefreshStore, RefreshReschedule, StoreAuth, StoreReschedule, ProcUnchanged
<1>2. Len(jobs') <= Len(jobs) /\ jobs' \in Seq(Auths) /\ Range(jobs') = Range(jobs)
  BY <1>1
<1>3. ASSUME UNCHANGED <<dirty, wake, orphaned, auths>>,
             \A q \in Procs \ {p} : proc'[q] = proc[q],
             \/ p \in Workers /\ proc'[p].pc = "after" /\ proc'[p].id = id
             \/ p \notin Workers /\ proc'[p] = Idle /\ proc[p].pc \notin {"reschedule", "stored"}
      PROVE  Resting' /\ AllFollowed' /\ Woken'
  <2>1. Handling(p) => proc'[p].id = id /\ Handling(p)'
    BY <1>3 DEF Handling
  <2>2. proc'[p].pc = "idle" => proc'[p].id = "none"
    BY <1>3
  <2>3. p \in Workers => proc'[p].pc \in WorkerPC
    BY <1>3 DEF WorkerPC
  <2> QED
    BY <1>1, <1>2, <1>3, <2>1, <2>2, <2>3, QuietWatch
<1>4. ASSUME UNCHANGED <<dirty, wake, orphaned>>, id \in Auths,
             \A q \in Procs \ {p} : proc'[q] = proc[q],
             \A x \in Auths \ {id} : x \in DOMAIN auths' => x \in DOMAIN auths /\ auths'[x] = auths[x],
             proc'[p].id = id, proc'[p].pc = "reschedule" \/ (p \notin Workers /\ proc'[p].pc = "stored")
      PROVE  Resting' /\ AllFollowed' /\ Woken'
  <2>1. ASSUME NEW x \in Auths \ orphaned'
        PROVE  Elsewhere(x)' \/ Undisturbed(x)
    <3>1. CASE x = id
      BY <1>4, <3>1 DEF Elsewhere, Handling
    <3>2. CASE x # id /\ Elsewhere(x)
      BY <1>1, <1>2, <1>4, <3>2, StaysElsewhere
    <3>3. CASE x # id /\ ~Elsewhere(x)
      BY <1>1, <1>4, <2>1, <3>3 DEF Undisturbed
    <3> QED
      BY <3>1, <3>2, <3>3
  <2> QED
    BY <1>1, <1>2, <1>4, <2>1, ProcWatch DEF WorkerPC
<1>5. ASSUME QueueReschedule(id), UNCHANGED auths,
             \A q \in Procs \ {p} : proc'[q] = proc[q],
             proc'[p] = Idle \/ (p \in Workers /\ proc'[p].pc = "after" /\ proc'[p].id = id)
      PROVE  Resting' /\ AllFollowed' /\ Woken'
  <2>0. /\ dirty \subseteq dirty' /\ (UNCHANGED <<dirty, wake>> \/ wake') /\ (Filed => id \in dirty')
        /\ (~Filed \/ orphaned' = orphaned \ {id})
    BY <1>5, RescheduleMarks
  <2>1. ASSUME NEW x \in Auths \ orphaned', Filed
        PROVE  Elsewhere(x)' \/ Undisturbed(x)
    <3>1. CASE x = id
      BY <2>0, <2>1, <3>1 DEF Elsewhere
    <3>2. CASE x # id /\ Elsewhere(x)
      BY <1>1, <1>2, <1>5, <2>0, <3>2, StaysElsewhere
    <3>3. CASE x # id /\ ~Elsewhere(x)
      BY <1>1, <1>5, <2>0, <2>1, <3>3 DEF Undisturbed
    <3> QED
      BY <3>1, <3>2, <3>3
  <2>2. proc'[p].pc = "idle" => proc'[p].id = "none"
    BY <1>5
  <2>3. p \in Workers => proc'[p].pc \in WorkerPC
    BY <1>5 DEF WorkerPC
  <2> QED
    BY <1>1, <1>2, <1>5, <2>0, <2>1, <2>2, <2>3, ProcWatch
<1>6. ASSUME Return(p)
      PROVE  /\ \A q \in Procs \ {p} : proc'[q] = proc[q]
             /\ \/ p \in Workers /\ proc'[p].pc = "after" /\ proc'[p].id = id
                \/ p \notin Workers /\ proc'[p] = Idle
  <2>1. proc' = [proc EXCEPT ![p] = Done(p)]
    BY <1>6 DEF Return
  <2> QED
    BY <2>1 DEF Done, ProcState
<1>7. ASSUME NEW pc \in {"reschedule", "stored"}, Move(p, pc)
      PROVE  /\ \A q \in Procs \ {p} : proc'[q] = proc[q]
             /\ proc'[p].id = id /\ proc'[p].pc = pc
  <2>1. proc' = [proc EXCEPT ![p] = [Idle EXCEPT !.pc = pc, !.id = proc[p].id]]
    BY <1>7 DEF Move
  <2> QED
    BY <2>1 DEF ProcState
<1>8. CASE RefreshStore(p)
  <2>1. proc[p].pc = "answered" /\ id \in Auths /\ UNCHANGED <<dirty, wake, orphaned>>
    BY <1>8 DEF RefreshStore, At, histories
  <2>2. CASE Return(p) /\ UNCHANGED auths
    BY <1>3, <1>6, <2>1, <2>2
  <2>3. CASE Move(p, "reschedule") /\ Known(id)
             /\ \E a : auths' = [auths EXCEPT ![id] = a]
    <3>1. \A x \in Auths \ {id} : x \in DOMAIN auths' => x \in DOMAIN auths /\ auths'[x] = auths[x]
      BY <2>3
    <3> QED
      BY <1>4, <1>7, <2>1, <2>3, <3>1
  <2>4. \/ Return(p) /\ UNCHANGED auths
        \/ Move(p, "reschedule") /\ Known(id) /\ \E a : auths' = [auths EXCEPT ![id] = a]
    BY <1>8 DEF RefreshStore
  <2> QED
    BY <2>2, <2>3, <2>4
<1>9. CASE RefreshReschedule(p)
  BY <1>5, <1>6, <1>9 DEF RefreshReschedule
<1>10. CASE p \in Callers /\ StoreAuth(p)
  <2>1. proc[p].pc \in {"update", "register", "copied"} /\ id \in Auths /\ UNCHANGED <<dirty, wake, orphaned>>
    BY <1>10 DEF StoreAuth, At
  <2>2. CASE proc' = [proc EXCEPT ![p] = Idle] /\ UNCHANGED auths
    <3>1. proc'[p] = Idle /\ \A q \in Procs \ {p} : proc'[q] = proc[q]
      BY <2>2
    <3> QED
      BY <1>3, <1>10, <2>1, <2>2, <3>1
  <2>3. CASE Move(p, "stored") /\ auths' = With(auths, id, proc[p].auth)
    <3>1. \A x \in Auths \ {id} : x \in DOMAIN auths' => x \in DOMAIN auths /\ auths'[x] = auths[x]
      BY <2>3 DEF With
    <3> QED
      BY <1>4, <1>7, <1>10, <2>1, <2>3, <3>1
  <2> QED
    BY <1>10, <2>2, <2>3 DEF StoreAuth
<1>11. CASE p \in Callers /\ StoreReschedule(p)
  <2>1. proc' = [proc EXCEPT ![p] = Idle] /\ QueueReschedule(id) /\ UNCHANGED auths
    BY <1>11 DEF StoreReschedule
  <2>2. proc'[p] = Idle /\ \A q \in Procs \ {p} : proc'[q] = proc[q]
    BY <2>1
  <2> QED
    BY <1>5, <2>1, <2>2
<1> QED
  BY <1>8, <1>9, <1>10, <1>11

(* A removal takes the credential away, and off the queue: a credential    *)
(* that came back meanwhile is not promised to be watched.  Nor is one     *)
(* whose 401 a result lifted.                                              *)
LEMMA RemovingSteps ==
  ASSUME WatchInv,
         \/ \E p \in Callers : QueueUnschedule(p) \/ \E id \in Auths : RemoveAuth(p, id)
         \/ \E id \in Auths, unauthorized \in BOOLEAN : MarkResult(id, unauthorized)
  PROVE  Resting' /\ AllFollowed' /\ Woken'
<1> USE ProcFacts
<1>1. ASSUME NEW p \in Callers, QueueUnschedule(p)
      PROVE  Resting' /\ AllFollowed' /\ Woken'
  <2> DEFINE id == proc[p].id
             drops == phase = "running" /\ id \in DOMAIN queue
  <2>1. /\ UNCHANGED <<now, auths, phase, dirty, wake, timer, jobs, loop>>
        /\ proc[p].pc = "removed" /\ proc' = [proc EXCEPT ![p] = Idle] /\ p \in Procs /\ p \notin Workers
        /\ queue' = IF drops THEN Without(queue, id) ELSE queue
        /\ orphaned' = IF drops /\ Known(id) THEN orphaned \cup {id} ELSE orphaned
    BY <1>1 DEF QueueUnschedule, At
  <2>2. proc'[p] = Idle /\ \A q \in Procs \ {p} : proc'[q] = proc[q]
    BY <2>1
  <2>3. /\ DOMAIN queue' \subseteq DOMAIN queue
        /\ \A x \in DOMAIN queue \ {id} : x \in DOMAIN queue' /\ queue'[x] = queue[x]
    BY <2>1 DEF Without, Restrict
  <2>4. ~Handling(p)
    BY <2>1 DEF Handling
  <2>5. ASSUME NEW x \in Auths \ orphaned', NextCheck(x, now)' # 0
        PROVE  Elsewhere(x)' \/ Undisturbed(x)
    <3>1. Known(x) /\ x \notin orphaned
      BY <2>1, <2>5 DEF NextCheck, Known
    <3>2. x \in DOMAIN queue => x \in DOMAIN queue' /\ queue'[x] = queue[x]
      BY <2>1, <2>3, <2>5, <3>1
    <3>3. CASE Elsewhere(x)
      BY <2>1, <2>2, <2>4, <3>3, StaysElsewhere
    <3>4. CASE ~Elsewhere(x)
      BY <2>1, <3>1, <3>2, <3>4 DEF Undisturbed
    <3> QED
      BY <3>3, <3>4
  <2>6. Len(jobs') <= Len(jobs) /\ jobs' \in Seq(Auths)
    BY <2>1
  <2> QED
    BY <2>1, <2>2, <2>3, <2>5, <2>6, ProcWatch
<1>2. ASSUME NEW p \in Callers, NEW id \in Auths, RemoveAuth(p, id)
      PROVE  Resting' /\ AllFollowed' /\ Woken'
  <2>1. /\ UNCHANGED <<now, queue, phase, dirty, wake, timer, jobs, loop, orphaned>>
        /\ proc[p].pc = "idle" /\ p \in Procs /\ p \notin Workers /\ auths' = Without(auths, id)
        /\ proc' = [proc EXCEPT ![p] = [Idle EXCEPT !.pc = "removed", !.id = id]]
    BY <1>2 DEF RemoveAuth, ProcUnchanged, At, histories
  <2>2. proc'[p].pc = "removed" /\ \A q \in Procs \ {p} : proc'[q] = proc[q]
    BY <2>1 DEF ProcState
  <2>3. \A x \in DOMAIN auths' : x \in DOMAIN auths /\ auths'[x] = auths[x]
    BY <2>1 DEF Without, Restrict
  <2>4. ~Handling(p)
    BY <2>1 DEF Handling
  <2>5. ASSUME NEW x \in Auths \ orphaned'
        PROVE  Elsewhere(x)' \/ Undisturbed(x)
    <3>1. CASE Elsewhere(x)
      BY <2>1, <2>2, <2>4, <3>1, StaysElsewhere
    <3>2. CASE ~Elsewhere(x)
      BY <2>1, <2>3, <2>5, <3>2 DEF Undisturbed
    <3> QED
      BY <3>1, <3>2
  <2>6. Len(jobs') <= Len(jobs) /\ jobs' \in Seq(Auths)
    BY <2>1
  <2> QED
    BY <2>1, <2>2, <2>5, <2>6, ProcWatch
<1>3. ASSUME NEW id \in Auths, NEW unauthorized \in BOOLEAN, MarkResult(id, unauthorized)
      PROVE  Resting' /\ AllFollowed' /\ Woken'
  <2>1. /\ UNCHANGED <<now, queue, phase, dirty, wake, timer, jobs, loop, proc>>
        /\ auths' = [auths EXCEPT ![id].unauthorized = unauthorized] /\ id \in DOMAIN auths
        /\ orphaned' = IF unauthorized \/ ~Listening THEN orphaned ELSE orphaned \cup {id}
    BY <1>3 DEF MarkResult, ProcUnchanged, Known
  <2>2. Resting' /\ Woken'
    BY <2>1 DEF WatchInv, Resting, Woken
  <2>3. ASSUME Filed', NEW x \in Auths \ orphaned'
        PROVE  Followed(x)'
    <3>1. Filed /\ Listening /\ x \notin orphaned
      BY <2>1, <2>3 DEF Filed, Listening
    <3>2. CASE Elsewhere(x)'
      BY <3>2 DEF Followed
    <3>3. CASE ~Elsewhere(x)' /\ x # id
      <4>1. Undisturbed(x)
        BY <2>1, <3>1, <3>3 DEF Undisturbed, Elsewhere, Handling
      <4> QED
        BY <2>1, <3>1, <4>1, UndisturbedIsFollowed DEF WatchInv, AllFollowed
    <3>4. CASE x = id
      <4>1. unauthorized
        BY <2>1, <2>3, <3>1, <3>4
      <4>2. auths[id] \in AuthType
        BY <2>1 DEF WatchInv, RefreshInv, RefreshType, AuthsType
      <4>3. auths'[id].unauthorized
        BY <2>1, <4>1, <4>2 DEF AuthType
      <4>4. NextCheck(x, now)' = 0
        BY <3>4, <4>3 DEF NextCheck, NextRefreshCheckAt
      <4> QED
        BY <4>4 DEF Followed
    <3> QED
      BY <3>2, <3>3, <3>4
  <2>4. AllFollowed'
    BY <2>3 DEF AllFollowed
  <2> QED
    BY <2>2, <2>4
<1> QED
  BY <1>1, <1>2, <1>3

(* A step of the loop that leaves credentials, clock and goroutines alone. *)
LEMMA LoopWatch ==
  ASSUME WatchInv, UNCHANGED <<now, auths, phase, proc>>,
         timer' \in Nat, Len(jobs') <= JobBuffer,
         loop'.pc \in {"idle", "drain"} => loop'.todo = {},
         loop'.pc \in {"idle", "drain", "due", "apply"} => loop'.id = "none",
         loop'.pc # "put" => loop'.back # "due",
         Filed => \A id \in Auths \ orphaned' : Followed(id)',
         Woken'
  PROVE  Resting' /\ AllFollowed' /\ Woken'
<1>1. Resting'
  BY DEF WatchInv, Resting
<1>2. AllFollowed'
  BY DEF AllFollowed, Filed
<1> QED
  BY <1>1, <1>2

(* The loop's state, place by place.                                       *)
LEMMA LoopFacts ==
  ASSUME WatchInv
  PROVE  /\ loop \in LoopState /\ loop.todo \subseteq Auths /\ loop.next \in Nat
         /\ now \in Nat \ {0} /\ timer \in Nat /\ jobs \in Seq(Auths) /\ Len(jobs) <= JobBuffer
         /\ JobBuffer \in Nat /\ "none" \notin Auths
         /\ loop.pc # "idle" => loop.at \in Nat \ {0} /\ loop.at <= now
         /\ loop.pc \in {"idle", "drain"} => loop.todo = {}
         /\ loop.pc \in {"idle", "drain", "due", "apply"} => loop.id = "none"
         /\ loop.pc \in {"mark", "pending", "reread", "send", "put"} => loop.id \in Auths
         /\ loop.pc # "put" => loop.back # "due"
         /\ loop.pc = "put" => loop.back \in {"due", "apply"}
         /\ DOMAIN queue \subseteq Auths /\ \A id \in DOMAIN queue : queue[id] \in Nat \ {0}
         /\ Filed => \A id \in Auths \ orphaned : Followed(id)
<1>1. now \in Nat \ {0}
  BY Backoffs DEF WatchInv, RefreshInv, RefreshType, AuthsType
<1>2. loop \in LoopState
  BY DEF WatchInv, RefreshInv, RefreshType, LoopType
<1>3. loop.todo \subseteq Auths /\ loop.next \in Nat /\ loop.back \in {"none", "due", "apply"}
  BY <1>2 DEF LoopState
<1>4. JobBuffer \in Nat /\ "none" \notin Auths
  BY RefreshAssumption
<1> QED
  BY <1>1, <1>2, <1>3, <1>4 DEF WatchInv, RefreshInv, RefreshType, LoopType, Resting, AllFollowed

(* A decision the loop takes at its time on what it reads is in time.      *)
LEMMA DecisionIsInTime ==
  ASSUME WatchInv, loop.pc # "idle", NEW id, NextCheck(id, now) # 0
  PROVE  Known(id) /\ NextCheck(id, loop.at) # 0 /\ InTime(id, NextCheck(id, loop.at))
<1>1. loop.at \in Nat \ {0} /\ loop.at <= now /\ now \in Nat
  BY LoopFacts
<1>2. Known(id) /\ auths[id] \in AuthType
  BY DEF NextCheck, Known, WatchInv, RefreshInv, RefreshType, AuthsType
<1> QED
  BY <1>1, <1>2, CheckIsMonotonic DEF NextCheck, InTime

(* The loop decides on one credential, or takes it up, and leaves the rest *)
(* as they are.                                                            *)
LEMMA LoopDecides ==
  ASSUME WatchInv, NEW id \in Auths, NEW next \in Nat, NEW back \in {"due", "apply"},
         Deciding(id, next, back), loop.pc # "idle",
         UNCHANGED <<now, auths, phase, proc, queue, dirty, wake, timer, jobs, orphaned>>,
         NextCheck(id, now) # 0 => next # 0 /\ InTime(id, next),
         loop.id \in {"none", id}, loop.pc # "put",
         back = "due" \/ loop.pc = "apply"
  PROVE  Resting' /\ AllFollowed' /\ Woken'
<1> USE LoopFacts
<1>1. loop.todo \ {id} \in SUBSET Auths /\ loop' =
        [loop EXCEPT !.pc = "put", !.id = id, !.next = next, !.back = back, !.todo = loop.todo \ {id}]
  BY DEF Deciding
<1>2. /\ loop'.pc = "put" /\ loop'.id = id /\ loop'.next = next
      /\ loop'.back = back /\ loop'.todo = loop.todo \ {id}
  BY <1>1 DEF LoopState
<1>3. Woken'
  BY <1>2 DEF WatchInv, Woken
<1>4. ASSUME NEW x \in Auths \ orphaned', Filed
      PROVE  Followed(x)'
  <2>1. CASE x = id
    <3>1. NextCheck(x, now)' # 0 => next # 0 /\ InTime(id, next)'
      BY <2>1 DEF NextCheck, Known, NextRefreshCheckAt, InTime
    <3> QED
      BY <1>2, <2>1, <3>1 DEF Followed
  <2>2. CASE x # id
    <3>1. Elsewhere(x) <=> Elsewhere(x)'
      BY <1>2, <2>2 DEF Elsewhere, Handling
    <3>2. NextCheck(x, now)' = NextCheck(x, now)
      BY DEF NextCheck, Known, NextRefreshCheckAt
    <3>3. \A at : InTime(x, at)' <=> InTime(x, at)
      BY <3>2 DEF InTime
    <3>4. Followed(x) /\ loop.id # x
      BY <1>4, <2>2
    <3> QED
      BY <1>2, <2>2, <3>1, <3>2, <3>3, <3>4 DEF Followed
  <2> QED
    BY <2>1, <2>2
<1> QED
  BY <1>2, <1>3, <1>4, LoopWatch

(* What a decided or an unchanged credential looks like after a step of    *)
(* the loop that leaves it alone.                                          *)
LEMMA LoopLeavesAlone ==
  ASSUME NEW x \in Auths, Followed(x), UNCHANGED now,
         x \in DOMAIN auths' => x \in DOMAIN auths /\ auths'[x] = auths[x],
         Elsewhere(x) => Elsewhere(x)',
         loop.id # x, loop'.id # x,
         x \in DOMAIN queue => Elsewhere(x)' \/ (x \in DOMAIN queue' /\ queue'[x] = queue[x])
  PROVE  Followed(x)'
<1> SUFFICES ASSUME NextCheck(x, now)' # 0, ~Elsewhere(x)' PROVE Followed(x)'
  BY DEF Followed
<1>1. x \in DOMAIN auths /\ auths'[x] = auths[x]
  BY DEF NextCheck, Known
<1>2. NextCheck(x, now)' = NextCheck(x, now)
  BY <1>1 DEF NextCheck, Known, NextRefreshCheckAt
<1>3. \A at : InTime(x, at) => InTime(x, at)'
  BY <1>1, <1>2 DEF InTime
<1> QED
  BY <1>2, <1>3 DEF Followed

(* resetTimer sets the timer while something is filed.                     *)
LEMMA TimerIsSet ==
  ASSUME WatchInv, NEW at \in Nat, ResetTimer(at)
  PROVE  timer' \in Nat /\ (DOMAIN queue # {} => timer' # 0)
<1> USE LoopFacts
<1>1. CASE DOMAIN queue = {}
  BY <1>1 DEF ResetTimer
<1>2. CASE DOMAIN queue # {}
  <2>1. Range(queue) \in SUBSET Nat /\ Range(queue) # {}
    BY <1>2 DEF Range
  <2> DEFINE m == Min(Range(queue))
             d == m - at
  <2>2. m \in Nat
    BY <2>1, EarliestTime
  <2>3. timer' = now + Max({0, d})
    BY <1>2 DEF ResetTimer
  <2> HIDE DEF m
  <2>4. d \in Int /\ 0 \in Int
    BY <2>2
  <2> HIDE DEF d
  <2>5. Max({0, d}) \in Int /\ Max({0, d}) >= 0
    BY <2>4, MaxOfTwo
  <2> DEFINE e == Max({0, d})
  <2>6. e \in Int /\ e >= 0 /\ timer' = now + e
    BY <2>3, <2>5
  <2> HIDE DEF e
  <2> QED
    BY <2>6
<1> QED
  BY <1>1, <1>2

(* The loop wakes, pops what is due, drains the marks and rests.           *)
LEMMA LoopRounds ==
  ASSUME WatchInv, LoopWake \/ LoopTimer \/ LoopDrain \/ LoopRest
  PROVE  Resting' /\ AllFollowed' /\ Woken'
<1> USE LoopFacts
<1>1. CASE LoopWake
  <2>1. /\ loop.pc = "idle" /\ loop' = [loop EXCEPT !.pc = "drain", !.at = now]
        /\ UNCHANGED <<auths, queue, dirty, timer, jobs, orphaned, now, phase, proc>>
    BY <1>1 DEF LoopWake, LoopUnchanged, histories
  <2>2. /\ loop'.pc = "drain" /\ loop'.todo = loop.todo /\ loop'.id = loop.id /\ loop'.back = loop.back
        /\ loop.todo = {} /\ loop.id = "none"
    BY <2>1 DEF LoopState
  <2>3. \A x \in Auths : Followed(x) => Followed(x)'
    <3> TAKE x \in Auths
    <3>1. Elsewhere(x) => Elsewhere(x)'
      BY <2>1, <2>2 DEF Elsewhere, Handling
    <3> QED
      BY <2>1, <2>2, <3>1, LoopLeavesAlone
  <2>4. Woken'
    BY <2>2 DEF Woken
  <2> QED
    BY <2>1, <2>2, <2>3, <2>4, LoopWatch
<1>2. CASE LoopTimer
  <2> DEFINE due == {id \in DOMAIN queue : queue[id] <= now}
  <2>1. /\ loop.pc = "idle" /\ queue' = Restrict(queue, DOMAIN queue \ due) /\ timer' = 0
        /\ loop' = [loop EXCEPT !.pc = "due", !.at = now, !.todo = due]
        /\ UNCHANGED <<auths, dirty, wake, jobs, orphaned, now, phase, proc>>
    BY <1>2 DEF LoopTimer, LoopUnchanged, histories
  <2>2. \A x \in DOMAIN queue : x \in due \/ (x \in DOMAIN queue' /\ queue'[x] = queue[x])
    BY <2>1 DEF Restrict
  <2> HIDE DEF due
  <2>3. /\ loop'.pc = "due" /\ loop'.todo = due /\ loop'.id = loop.id /\ loop'.back = loop.back
        /\ loop.todo = {} /\ loop.id = "none"
    BY <2>1 DEF LoopState
  <2>4. \A x \in Auths : Followed(x) => Followed(x)'
    <3> TAKE x \in Auths
    <3>1. Elsewhere(x) => Elsewhere(x)'
      BY <2>1, <2>3 DEF Elsewhere, Handling
    <3>2. x \in due => Elsewhere(x)'
      BY <2>3 DEF Elsewhere
    <3> QED
      BY <2>1, <2>2, <2>3, <3>1, <3>2, LoopLeavesAlone
  <2>5. Woken'
    BY <2>3 DEF Woken
  <2> QED
    BY <2>1, <2>3, <2>4, <2>5, LoopWatch
<1>3. CASE LoopDrain
  <2>1. /\ loop.pc = "drain" \/ (loop.pc = "due" /\ loop.todo = {})
        /\ dirty' = {} /\ loop' = [loop EXCEPT !.pc = "apply", !.todo = dirty]
        /\ UNCHANGED <<auths, queue, wake, timer, jobs, orphaned, now, phase, proc>>
    BY <1>3 DEF LoopDrain, LoopUnchanged, histories
  <2>2. /\ loop'.pc = "apply" /\ loop'.todo = dirty /\ loop'.id = loop.id /\ loop'.back = loop.back
        /\ loop.todo = {} /\ loop.id = "none" /\ loop.back # "due"
    BY <2>1 DEF LoopState
  <2>3. \A x \in Auths : Followed(x) => Followed(x)'
    <3> TAKE x \in Auths
    <3>1. Elsewhere(x) => Elsewhere(x)'
      BY <2>1, <2>2 DEF Elsewhere, Handling
    <3> QED
      BY <2>1, <2>2, <3>1, LoopLeavesAlone
  <2>4. Woken'
    BY <2>1, <2>2 DEF Woken
  <2> QED
    BY <2>1, <2>2, <2>3, <2>4, LoopWatch
<1>4. CASE LoopRest
  <2>1. /\ loop.pc = "apply" /\ loop.todo = {} /\ ResetTimer(loop.at) /\ loop' = LoopIdle
        /\ UNCHANGED <<auths, queue, dirty, wake, jobs, orphaned, now, phase, proc>>
    BY <1>4 DEF LoopRest, LoopUnchanged, histories
  <2>2. /\ loop'.pc = "idle" /\ loop'.todo = {} /\ loop'.id = "none" /\ loop'.back = "none"
        /\ loop.id = "none" /\ loop.back # "due"
    BY <2>1 DEF LoopIdle
  <2>3. \A x \in Auths : Followed(x) => Followed(x)'
    <3> TAKE x \in Auths
    <3>1. Elsewhere(x) => Elsewhere(x)'
      BY <2>1, <2>2 DEF Elsewhere, Handling
    <3> QED
      BY <2>1, <2>2, <3>1, LoopLeavesAlone
  <2>4. timer' \in Nat /\ (DOMAIN queue # {} => timer' # 0)
    BY <2>1, TimerIsSet
  <2>5. Woken'
    BY <2>1, <2>2, <2>4 DEF WatchInv, Woken
  <2> QED
    BY <2>1, <2>2, <2>3, <2>4, <2>5, LoopWatch
<1> QED
  BY <1>1, <1>2, <1>3, <1>4

(* handleDueAuth and applyDirty decide on a credential, or take it up.     *)
LEMMA LoopLooks ==
  ASSUME WatchInv, LoopReread \/ \E id \in Auths : LoopDue(id) \/ LoopApply(id)
  PROVE  Resting' /\ AllFollowed' /\ Woken'
<1> USE LoopFacts
<1>0. ASSUME NEW id, loop.pc # "idle"
      PROVE  /\ NextCheck(id, loop.at) \in Nat
             /\ NextCheck(id, now) # 0 =>
                  NextCheck(id, loop.at) # 0 /\ InTime(id, NextCheck(id, loop.at))
  <2>1. NextCheck(id, loop.at) \in Nat
    BY <1>0, NextCheckTime DEF WatchInv, RefreshInv, RefreshType
  <2> QED
    BY <1>0, <2>1, DecisionIsInTime
<1>1. CASE LoopReread
  <2>1. /\ loop.pc = "reread" /\ Deciding(loop.id, NextCheck(loop.id, loop.at), "due")
        /\ UNCHANGED <<now, auths, phase, proc, queue, dirty, wake, timer, jobs, orphaned>>
    BY <1>1 DEF LoopReread, LoopUnchanged, histories
  <2> QED
    BY <1>0, <2>1, LoopDecides
<1>2. ASSUME NEW id \in Auths, LoopApply(id)
      PROVE  Resting' /\ AllFollowed' /\ Woken'
  <2>1. /\ loop.pc = "apply" /\ Deciding(id, NextCheck(id, loop.at), "apply")
        /\ UNCHANGED <<now, auths, phase, proc, queue, dirty, wake, timer, jobs, orphaned>>
    BY <1>2 DEF LoopApply, LoopUnchanged, histories
  <2> QED
    BY <1>0, <2>1, LoopDecides
<1>3. ASSUME NEW id \in Auths, LoopDue(id)
      PROVE  Resting' /\ AllFollowed' /\ Woken'
  <2>1. /\ loop.pc = "due" /\ id \in loop.todo
        /\ UNCHANGED <<now, auths, phase, proc, queue, dirty, wake, timer, jobs, orphaned>>
    BY <1>3 DEF LoopDue, LoopUnchanged, histories
  <2>2. CASE Deciding(id, NextCheck(id, loop.at), "due")
    BY <1>0, <2>1, <2>2, LoopDecides
  <2>3. CASE Deciding(id, loop.at + CheckInterval, "due") /\ ~auths[id].exec
    <3>1. loop.at + CheckInterval \in Nat /\ loop.at + CheckInterval # 0
      BY <2>1, Backoffs
    <3>2. InTime(id, loop.at + CheckInterval)
      BY <2>3 DEF InTime
    <3> QED
      BY <2>1, <2>3, <3>1, <3>2, LoopDecides
  <2>4. ASSUME loop' = [loop EXCEPT !.todo = @ \ {id}], ~Known(id)
        PROVE  Resting' /\ AllFollowed' /\ Woken'
    <3>1. /\ loop'.pc = "due" /\ loop'.todo = loop.todo \ {id} /\ loop'.id = "none" /\ loop'.back = loop.back
          /\ loop.id = "none"
      BY <2>1, <2>4 DEF LoopState
    <3>2. \A x \in Auths : Followed(x) => Followed(x)'
      <4> TAKE x \in Auths
      <4>1. x # id /\ Elsewhere(x) => Elsewhere(x)'
        BY <2>1, <3>1 DEF Elsewhere, Handling
      <4>2. NextCheck(id, now)' = 0
        BY <2>1, <2>4 DEF NextCheck, Known
      <4>3. Followed(id)'
        BY <4>2 DEF Followed
      <4> QED
        BY <2>1, <3>1, <4>1, <4>3, LoopLeavesAlone
    <3>3. Woken'
      BY <2>1, <3>1 DEF Woken
    <3> QED
      BY <2>1, <3>1, <3>2, <3>3, LoopWatch
  <2>5. CASE loop' = [loop EXCEPT !.pc = "mark", !.id = id, !.todo = @ \ {id}]
    <3>1. /\ loop'.pc = "mark" /\ loop'.todo = loop.todo \ {id} /\ loop'.id = id /\ loop'.back = loop.back
          /\ loop.id = "none"
      BY <2>1, <2>5 DEF LoopState
    <3>2. \A x \in Auths : Followed(x) => Followed(x)'
      <4> TAKE x \in Auths
      <4>1. x # id /\ Elsewhere(x) => Elsewhere(x)'
        BY <2>1, <3>1 DEF Elsewhere, Handling
      <4>2. Followed(id)'
        BY <3>1 DEF Followed
      <4> QED
        BY <2>1, <3>1, <4>1, <4>2, LoopLeavesAlone
    <3>3. Woken'
      BY <2>1, <3>1 DEF Woken
    <3> QED
      BY <2>1, <3>1, <3>2, <3>3, LoopWatch
  <2> QED
    BY <1>3, <2>2, <2>3, <2>4, <2>5 DEF LoopDue
<1> QED
  BY <1>1, <1>2, <1>3

(* markRefreshPending, the job and the filing.                             *)
LEMMA LoopActs ==
  ASSUME WatchInv, LoopMark \/ LoopPending \/ LoopSend \/ LoopPut
  PROVE  Resting' /\ AllFollowed' /\ Woken'
<1> USE LoopFacts
<1>1. CASE LoopMark
  <2> DEFINE id == loop.id
             open == Known(id) /\ auths[id].next <= loop.at
             pc == IF open THEN "pending" ELSE "reread"
  <2>1. /\ loop.pc = "mark" /\ loop' = [loop EXCEPT !.pc = pc]
        /\ auths' = auths \/ (Known(id) /\ auths' = [auths EXCEPT ![id].next = loop.at + PendingBackoff])
        /\ UNCHANGED <<queue, dirty, wake, timer, jobs, orphaned, now, phase, proc>>
    BY <1>1 DEF LoopMark, LoopUnchanged
  <2>2. pc \in {"pending", "reread"}
    OBVIOUS
  <2> HIDE DEF pc
  <2>3. /\ loop'.pc = pc /\ loop'.todo = loop.todo /\ loop'.id = loop.id /\ loop'.back = loop.back
    BY <2>1 DEF LoopState
  <2>4. \A x \in Auths : Followed(x) => Followed(x)'
    <3> TAKE x \in Auths
    <3>1. Elsewhere(x) => Elsewhere(x)'
      BY <2>1, <2>3 DEF Elsewhere, Handling
    <3>2. Followed(id)'
      BY <2>2, <2>3 DEF Followed
    <3>3. x # id => (x \in DOMAIN auths' => x \in DOMAIN auths /\ auths'[x] = auths[x])
      BY <2>1
    <3> QED
      BY <2>1, <2>3, <3>1, <3>2, <3>3, LoopLeavesAlone
  <2>5. Woken'
    BY <2>2, <2>3 DEF Woken
  <2>6. Resting'
    BY <2>1, <2>2, <2>3 DEF WatchInv, Resting
  <2>7. AllFollowed'
    BY <2>1, <2>4 DEF AllFollowed, Filed
  <2> QED
    BY <2>5, <2>6, <2>7
<1>2. CASE LoopPending
  <2>1. /\ loop.pc = "pending" /\ QueueReschedule(loop.id) /\ loop' = [loop EXCEPT !.pc = "send"]
        /\ UNCHANGED <<auths, queue, timer, jobs, now, phase, proc>>
    BY <1>2 DEF LoopPending, LoopUnchanged
  <2>2. /\ loop'.pc = "send" /\ loop'.todo = loop.todo /\ loop'.id = loop.id /\ loop'.back = loop.back
    BY <2>1 DEF LoopState
  <2>3. dirty \subseteq dirty' /\ \A x : x \notin orphaned' => x = loop.id \/ x \notin orphaned
    BY <2>1, RescheduleMarks
  <2>4. ASSUME Filed, NEW x \in Auths \ orphaned'
        PROVE  Followed(x)'
    <3>1. CASE x = loop.id
      BY <2>2, <3>1 DEF Followed
    <3>2. CASE x # loop.id
      <4>1. Followed(x)
        BY <2>3, <2>4, <3>2
      <4>2. Elsewhere(x) => Elsewhere(x)'
        BY <2>1, <2>2, <2>3 DEF Elsewhere, Handling
      <4> QED
        BY <2>1, <2>2, <3>2, <4>1, <4>2, LoopLeavesAlone
    <3> QED
      BY <3>1, <3>2
  <2>5. Woken'
    BY <2>2 DEF Woken
  <2> QED
    BY <2>1, <2>2, <2>4, <2>5, LoopWatch
<1>3. CASE LoopSend
  <2>1. /\ loop.pc = "send" /\ loop' = [loop EXCEPT !.pc = "due", !.id = "none"]
        /\ \/ Len(jobs) < JobBuffer /\ jobs' = Append(jobs, loop.id)
           \/ phase = "stopped" /\ jobs' = jobs
        /\ UNCHANGED <<auths, queue, dirty, wake, timer, orphaned, now, phase, proc>>
    BY <1>3 DEF LoopSend, LoopUnchanged, histories
  <2>2. /\ loop'.pc = "due" /\ loop'.todo = loop.todo /\ loop'.id = "none" /\ loop'.back = loop.back
        /\ loop.id \in Auths
    BY <2>1 DEF LoopState
  <2>3. /\ Range(jobs) \subseteq Range(Append(jobs, loop.id)) /\ loop.id \in Range(Append(jobs, loop.id))
        /\ Len(Append(jobs, loop.id)) = Len(jobs) + 1
    BY <2>2, JobsSent
  <2>4. Range(jobs) \subseteq Range(jobs') /\ (Filed => loop.id \in Range(jobs'))
    BY <2>1, <2>3 DEF Filed
  <2>5. Len(jobs') <= JobBuffer
    <3>1. Len(jobs) \in Nat
      OBVIOUS
    <3> QED
      BY <2>1, <2>3, <3>1
  <2>6. ASSUME Filed, NEW x \in Auths \ orphaned'
        PROVE  Followed(x)'
    <3>1. CASE x = loop.id
      <4>1. Elsewhere(x)'
        BY <2>4, <2>6, <3>1 DEF Elsewhere
      <4> QED
        BY <4>1 DEF Followed
    <3>2. CASE x # loop.id
      <4>1. Elsewhere(x) => Elsewhere(x)'
        BY <2>1, <2>2, <2>4 DEF Elsewhere, Handling
      <4>2. Followed(x)
        BY <2>1, <2>6
      <4> QED
        BY <2>1, <2>2, <3>2, <4>1, <4>2, LoopLeavesAlone
    <3> QED
      BY <3>1, <3>2
  <2>7. Woken'
    BY <2>2 DEF Woken
  <2> QED
    BY <2>1, <2>2, <2>5, <2>6, <2>7, LoopWatch
<1>4. CASE LoopPut
  <2>1. /\ loop.pc = "put" /\ loop.id \in Auths /\ loop.back \in {"due", "apply"}
        /\ queue' = IF loop.next = 0 THEN Without(queue, loop.id) ELSE With(queue, loop.id, loop.next)
        /\ loop' = [loop EXCEPT !.pc = loop.back, !.id = "none", !.next = 0, !.back = "none"]
        /\ UNCHANGED <<auths, dirty, wake, timer, jobs, orphaned, now, phase, proc>>
    BY <1>4 DEF LoopPut, LoopUnchanged, histories
  <2>2. /\ loop'.pc = loop.back /\ loop'.todo = loop.todo /\ loop'.id = "none" /\ loop'.back = "none"
    BY <2>1 DEF LoopState
  <2>3. /\ \A x \in DOMAIN queue \ {loop.id} : x \in DOMAIN queue' /\ queue'[x] = queue[x]
        /\ loop.next # 0 => loop.id \in DOMAIN queue' /\ queue'[loop.id] = loop.next
    <3>1. CASE loop.next = 0
      BY <2>1, <3>1 DEF Without, Restrict
    <3>2. CASE loop.next # 0
      <4>1. queue' = [x \in DOMAIN queue \cup {loop.id} |-> IF x = loop.id THEN loop.next ELSE queue[x]]
        BY <2>1, <3>2 DEF With
      <4> QED
        BY <3>2, <4>1
    <3> QED
      BY <3>1, <3>2
  <2>4. ASSUME Filed, NEW x \in Auths \ orphaned'
        PROVE  Followed(x)'
    <3>0. Followed(x)
      BY <2>1, <2>4
    <3>1. Elsewhere(x) => Elsewhere(x)'
      BY <2>1, <2>2 DEF Elsewhere, Handling
    <3>2. CASE x # loop.id
      BY <2>1, <2>2, <2>3, <3>0, <3>1, <3>2, LoopLeavesAlone
    <3>3. CASE x = loop.id
      <4>1. NextCheck(x, now)' = NextCheck(x, now)
        BY <2>1 DEF NextCheck, Known, NextRefreshCheckAt
      <4>2. \A at : InTime(x, at) => InTime(x, at)'
        BY <2>1, <4>1 DEF InTime
      <4> QED
        BY <2>1, <2>2, <2>3, <3>0, <3>1, <3>3, <4>1, <4>2 DEF Followed
    <3> QED
      BY <3>2, <3>3
  <2>5. Woken'
    BY <2>1, <2>2 DEF WatchInv, Woken
  <2> QED
    BY <2>1, <2>2, <2>4, <2>5, LoopWatch
<1> QED
  BY <1>1, <1>2, <1>3, <1>4

(* The loop is installed, files what it read, is stopped; time passes.     *)
LEMMA PhaseSteps ==
  ASSUME WatchInv, RefreshInv',
         StartAutoRefresh \/ RebuildSnapshot \/ RebuildFile \/ StopAutoRefresh \/ RefreshTick
  PROVE  Resting' /\ AllFollowed' /\ Woken'
<1> USE LoopFacts
<1>0. UNCHANGED <<auths, dirty, wake, jobs, loop, proc, orphaned>>
  BY DEF StartAutoRefresh, RebuildSnapshot, RebuildFile, StopAutoRefresh, RefreshTick, histories
<1>1. CASE StartAutoRefresh \/ StopAutoRefresh
  <2>1. phase' \in {"installed", "stopped"} /\ UNCHANGED <<queue, timer>>
    BY <1>1 DEF StartAutoRefresh, StopAutoRefresh
  <2> QED
    BY <1>0, <2>1 DEF WatchInv, Resting, AllFollowed, Filed, Woken
<1>2. CASE RebuildSnapshot
  <2>1. /\ phase = "installed" /\ phase' = "snapshot" /\ UNCHANGED <<now, timer>>
        /\ queue' = [id \in {x \in DOMAIN auths : NextCheck(x, now) # 0} |-> NextCheck(id, now)]
    BY <1>2 DEF RebuildSnapshot
  <2>2. loop.id = "none"
    BY <2>1 DEF WatchInv, RefreshInv, Marks
  <2>3. ASSUME NEW x \in Auths
        PROVE  Followed(x)'
    <3>1. NextCheck(x, now)' = NextCheck(x, now)
      BY <1>0, <2>1 DEF NextCheck, Known, NextRefreshCheckAt
    <3>2. NextCheck(x, now) # 0 => x \in DOMAIN queue' /\ queue'[x] = NextCheck(x, now)
      BY <2>1 DEF NextCheck, Known
    <3>3. NextCheck(x, now) \in Nat
      BY NextCheckTime DEF WatchInv, RefreshInv, RefreshType
    <3>4. NextCheck(x, now) # 0 => (InTime(x, queue[x]))'
      BY <3>1, <3>2, <3>3 DEF InTime
    <3> QED
      BY <1>0, <2>2, <3>1, <3>2, <3>4 DEF Followed
  <2> QED
    BY <1>0, <2>1, <2>3 DEF WatchInv, Resting, AllFollowed, Woken
<1>3. ASSUME UNCHANGED <<queue, now>>, Filed
      PROVE  \A x \in Auths \ orphaned' : Followed(x)'
  <2> TAKE x \in Auths \ orphaned'
  <2>1. Followed(x)
    BY <1>0, <1>3
  <2>2. NextCheck(x, now)' = NextCheck(x, now)
    BY <1>0, <1>3 DEF NextCheck, Known, NextRefreshCheckAt
  <2>3. \A at : InTime(x, at) => InTime(x, at)'
    BY <1>0, <2>2 DEF InTime
  <2>4. Elsewhere(x) => Elsewhere(x)'
    BY <1>0 DEF Elsewhere, Handling
  <2> QED
    BY <1>0, <1>3, <2>1, <2>2, <2>3, <2>4 DEF Followed
<1>4. CASE RebuildFile
  <2>1. phase = "snapshot" /\ phase' = "running" /\ ResetTimer(now) /\ UNCHANGED <<queue, now>>
    BY <1>4 DEF RebuildFile
  <2>2. timer' \in Nat /\ (DOMAIN queue # {} => timer' # 0)
    BY <2>1, TimerIsSet
  <2> QED
    BY <1>0, <1>3, <2>1, <2>2 DEF WatchInv, Resting, AllFollowed, Filed, Woken
<1>5. CASE RefreshTick
  <2>1. now' = now + 1 /\ UNCHANGED <<phase, queue, timer>>
    BY <1>5 DEF RefreshTick
  <2>2. ASSUME Filed, NEW x \in Auths \ orphaned', NextCheck(x, now)' # 0
        PROVE  NextCheck(x, now) # 0 /\ \A at \in Nat : InTime(x, at) => InTime(x, at)'
    <3>1. Known(x) /\ auths[x] \in AuthType
      BY <1>0, <2>2 DEF NextCheck, Known, WatchInv, RefreshInv, RefreshType, AuthsType
    <3>2. NextCheck(x, now)' = NextRefreshCheckAt(auths[x], now + 1)
      BY <1>0, <2>1, <3>1 DEF NextCheck, Known, NextRefreshCheckAt
    <3>3. NextRefreshCheckAt(auths[x], now) # 0
          /\ NextRefreshCheckAt(auths[x], now) <= NextRefreshCheckAt(auths[x], now + 1)
      BY <2>2, <3>1, <3>2, CheckIsMonotonic
    <3>4. NextRefreshCheckAt(auths[x], now) \in Nat /\ NextRefreshCheckAt(auths[x], now + 1) \in Nat
      <4>1. \A t \in Nat : NextRefreshCheckAt(auths[x], t) \in Nat
        BY <3>1, CheckTime
      <4>2. now \in Nat /\ now + 1 \in Nat
        OBVIOUS
      <4> QED
        BY <4>1, <4>2
    <3>5. NextCheck(x, now) = NextRefreshCheckAt(auths[x], now)
      BY <3>1 DEF NextCheck
    <3> QED
      BY <1>0, <3>2, <3>3, <3>4, <3>5 DEF InTime
  <2>3. ASSUME Filed, NEW x \in Auths \ orphaned'
        PROVE  Followed(x)'
    <3>1. Followed(x)
      BY <1>0, <2>3
    <3>2. Elsewhere(x) => Elsewhere(x)'
      BY <1>0 DEF Elsewhere, Handling
    <3>3. x \in DOMAIN queue => queue[x] \in Nat
      OBVIOUS
    <3> QED
      BY <1>0, <2>1, <2>2, <2>3, <3>1, <3>2, <3>3 DEF Followed
  <2> QED
    BY <1>0, <2>1, <2>3 DEF WatchInv, Resting, AllFollowed, Filed, Woken
<1> QED
  BY <1>1, <1>2, <1>4, <1>5

(* Every step leaves everything watched.                                   *)
LEMMA NextWatchInv == WatchInv /\ [RefreshNext]_refreshVars => WatchInv'
<1> SUFFICES ASSUME WatchInv, [RefreshNext]_refreshVars PROVE WatchInv'
  OBVIOUS
<1>1. RefreshInv'
  BY NextRefreshInv DEF WatchInv
<1> SUFFICES Resting' /\ AllFollowed' /\ Woken'
  BY <1>1 DEF WatchInv
<1>2. CASE UNCHANGED refreshVars
  <2>1. UNCHANGED <<now, auths, phase, queue, dirty, wake, timer, jobs, loop, proc, orphaned>>
    BY <1>2 DEF refreshVars
  <2>2. \A x \in Auths : Followed(x) => Followed(x)'
    BY <2>1 DEF Followed, NextCheck, Known, NextRefreshCheckAt, Elsewhere, Handling, InTime
  <2> QED
    BY <2>1, <2>2 DEF WatchInv, Resting, AllFollowed, Filed, Woken
<1>3. CASE LoopStep
  BY <1>3, LoopRounds, LoopLooks, LoopActs DEF LoopStep
<1>4. CASE StartAutoRefresh \/ RebuildSnapshot \/ RebuildFile \/ StopAutoRefresh \/ RefreshTick
  BY <1>1, <1>4, PhaseSteps
<1>5. Workers \subseteq Procs /\ Callers \subseteq Procs
  BY DEF Procs
<1> QED
  BY <1>2, <1>3, <1>4, <1>5, QuietSteps, StoringSteps, RemovingSteps DEF RefreshNext, TakesCopy

(* The refreshes of TokenRefresh satisfy it.                               *)
LEMMA WatchInvariant == RefreshSpec => []WatchInv
<1>1. RefreshInit => WatchInv
  <2> SUFFICES ASSUME RefreshInit PROVE WatchInv
    OBVIOUS
  <2>1. RefreshInv
    BY InitRefreshInv
  <2>2. phase = "off" /\ timer = 0 /\ jobs = <<>> /\ dirty = {} /\ loop = LoopIdle /\ proc = [p \in Procs |-> Idle]
    BY DEF RefreshInit
  <2>3. Idle.pc = "idle" /\ Idle.id = "none" /\ JobBuffer \in Nat /\ \A p \in Workers : p \in Procs
    BY RefreshAssumption DEF Idle, Procs
  <2>4. Resting
    BY <2>2, <2>3 DEF Resting, LoopIdle, WorkerPC
  <2> QED
    BY <2>1, <2>2, <2>4 DEF WatchInv, AllFollowed, Filed, Woken
<1> QED
  BY <1>1, NextWatchInv, PTL DEF RefreshSpec

(* The loop of auto_refresh_loop.go forgets no credential: whatever        *)
(* refreshes, logins, removals and results do meanwhile, a credential that *)
(* is to be checked is filed in time or on its way to the loop.            *)
THEOREM NothingIsForgotten == RefreshSpec => []NothingForgotten
<1>1. WatchInv => NothingForgotten
  <2> SUFFICES ASSUME WatchInv, phase = "running", NEW id \in Auths \ orphaned, NextCheck(id, now) # 0
               PROVE  \/ id \in DOMAIN queue /\ (queue[id] <= NextCheck(id, now) \/ ~auths[id].exec)
                      \/ OnItsWay(id)
    BY DEF NothingForgotten, Watched, WatchInv, Woken
  <2>1. Followed(id)
    BY DEF WatchInv, AllFollowed, Filed
  <2>2. Elsewhere(id) \/ loop.id = id => OnItsWay(id)
    BY DEF Elsewhere, Handling, OnItsWay
  <2> QED
    BY <2>1, <2>2 DEF Followed, InTime
<1> QED
  BY <1>1, WatchInvariant, PTL

(* The types of the refresh loop's state; a credential's lock is held by   *)
(* who refreshes it, and the jobs fit the channel.                         *)
THEOREM RefreshTypeCorrect == RefreshSpec => []RefreshTypeOK
<1>1. WatchInv => RefreshTypeOK
  <2> SUFFICES ASSUME WatchInv PROVE RefreshTypeOK
    OBVIOUS
  <2>1. AuthsType /\ LoopType /\ ProcType /\ Locking /\ Resting
    BY DEF WatchInv, RefreshInv, RefreshType
  <2>2. loop.todo \subseteq Auths /\ Range(jobs) \subseteq Auths
    BY <2>1 DEF LoopType, LoopState, Range
  <2>3. ASSUME NEW id \in Auths, locks[id] # "none"
        PROVE  proc[locks[id]].id = id /\ proc[locks[id]].pc \in {"call", "answered", "reschedule"}
    BY <2>1, <2>3 DEF ProcType, Locking, Refreshing
  <2> QED
    BY <2>1, <2>2, <2>3 DEF RefreshTypeOK, AuthsType, LoopType, Resting
<1> QED
  BY <1>1, WatchInvariant, PTL

=============================================================================
