---------------------- MODULE CredentialCooldownProofs ----------------------
(***************************************************************************)
(* Proofs about CredentialCooldown, for any models, callers, operations    *)
(* and failures, however the operations overlap and the process restarts.  *)
(***************************************************************************)
EXTENDS CredentialCooldown, SequenceTheorems, FiniteSetTheorems, TLAPS

-----------------------------------------------------------------------------
(* What a goroutine may still have to do: every remainder of an operation. *)

Plans ==
  { <<>>,
    <<"lock", "records", "save", "unlock">>, <<"records", "save", "unlock">>,
    <<"save", "unlock">>, <<"unlock">>,
    <<"upsert">>, <<"upsert", "lock", "records", "save", "unlock">>,
    <<"upsert", "records", "save", "unlock">>,
    <<"clear", "records", "save", "unlock">>,
    <<"merge", "lock", "records", "save", "unlock">>,
    <<"upsertAlias", "lock", "records", "save", "unlock", "register", "reconcile", "refresh">>,
    <<"lock", "records", "save", "unlock", "register", "reconcile", "refresh">>,
    <<"records", "save", "unlock", "register", "reconcile", "refresh">>,
    <<"save", "unlock", "register", "reconcile", "refresh">>,
    <<"unlock", "register", "reconcile", "refresh">>,
    <<"upsertAlias", "register", "reconcile", "refresh">>,
    <<"register", "reconcile", "refresh">>, <<"reconcile", "refresh">>,
    <<"upsert", "refresh">>, <<"refresh">>,
    <<"create">>, <<"update">>, <<"patch">>,
    <<"upsertAlias", "lock", "records", "save", "unlock">>, <<"upsertAlias">>,
    <<"unregister", "delete", "removeEntry", "lock", "records", "save", "unlock">>,
    <<"delete", "removeEntry", "lock", "records", "save", "unlock">>,
    <<"removeEntry", "lock", "records", "save", "unlock">> }

Words == {"lock", "records", "save", "unlock", "upsert", "upsertAlias", "clear", "merge",
          "register", "reconcile", "refresh", "create", "update", "patch",
          "unregister", "delete", "removeEntry"}

(* What a plan still holds. *)
Starts(s, what) == s # <<>> /\ Head(s) = what

Has(s, what) == \E i \in DOMAIN s : s[i] = what

Holds(s) == Has(s, "unlock") /\ ~Has(s, "lock")

Brings(s) == Has(s, "upsert") \/ Has(s, "upsertAlias")

Stores(s) == s # <<>> /\ Head(s) \in {"create", "update", "patch"}

(* A removal saves nothing when the record turns out to be gone. *)
Saves(s) == Has(s, "records") /\ ~Has(s, "delete")

(* A record of the manager. *)
AuthRecords == [there : BOOLEAN, disabled : BOOLEAN, own : Cooldowns,
                states : UNION {[S -> Cooldowns] : S \in SUBSET Models}]

Calls == [steps : Plans, snap : AuthRecords, records : SUBSET CooldownRecords, begun : Nat]

CallsType == calls \in [Callers -> Calls]

Entries == [auth : AuthRecords, bound : BOOLEAN, alias : BOOLEAN]

Picks == [pc : {"idle", "first", "sync", "rebuild", "second", "got", "failed"},
          model : Models \cup {NoModel}, quiet : BOOLEAN, snap : AuthRecords]

DataType ==
  /\ now \in 1 .. MaxTime /\ off \in BOOLEAN /\ bound \in BOOLEAN
  /\ auth \in AuthRecords
  /\ sched \in Entries /\ pick \in Picks
  /\ mu \in Callers \cup {NoModel}
  /\ saved \subseteq CooldownRecords

(* configCooldownMu is held by the caller that is to give it back. *)
Holding == \A c \in Callers : mu = c <=> Holds(calls[c].steps)

(* A cooldown that holds something back has a deadline. *)
Dated(c) == (c.exceeded => c.recover # 0) /\ (c.bad => c.retry # 0 \/ c.recover # 0)

(* What holds of every cooldown of a record. *)
DatedAuth(a) == Dated(a.own) /\ \A m \in DOMAIN a.states : Dated(a.states[m])
ColdAuth(a) == ~Hot(a.own) /\ \A m \in DOMAIN a.states : ~Hot(a.states[m])

(* A removed credential leaves nothing behind. *)
Gone == ~auth.there => auth = NoAuth

(* Nothing is held back once disable-cooling has been applied; an          *)
(* unsupported model is the exception.                                     *)
ColdWhenOff ==
  "unsupported" \notin Failures /\ off /\ (\A c \in Callers : ~Starts(calls[c].steps, "clear"))
    => ColdAuth(auth)

(* The .cds file is up to date, or about to be: somebody is still to take  *)
(* the records, or is about to write what is in force.                     *)
Saving ==
  \/ diskBehind
  \/ \E c \in Callers : Saves(calls[c].steps)
  \/ \E c \in Callers : Starts(calls[c].steps, "save") /\ Live(calls[c].records) = Records(auth)
  \/ /\ \A c \in Callers : ~Starts(calls[c].steps, "save")
     /\ Live(saved) = Records(auth)

(* The copies on their way to the manager or to the scheduler have         *)
(* deadlines, too.                                                         *)
SnapsDated == \A c \in Callers : DatedAuth(calls[c].snap)

(* What is to be stored is a record. *)
Storing == \A c \in Callers : Stores(calls[c].steps) => calls[c].snap.there

(* When a credential is gone its models are unlisted, or nobody carries a  *)
(* copy of it to the scheduler ...                                         *)
Unlisted == ~auth.there /\ ~exposed => ~bound \/ ~Carried

(* ... and the scheduler forgets it after the manager does.                *)
Unrouted ==
  ~auth.there /\ ~exposed /\ (\A c \in Callers : ~Starts(calls[c].steps, "removeEntry"))
    => ~sched.bound

(* A pick that was not disturbed sees what the manager has. *)
PickSees ==
  pick.quiet /\ pick.pc \in {"first", "sync", "rebuild", "second"} =>
    /\ \A c \in Callers : calls[c].steps = <<>>
    /\ pick.pc = "rebuild" => pick.snap = auth
    /\ pick.pc = "second" => sched = Entry(auth, FALSE)

CoolInv ==
  /\ CallsType /\ DataType /\ Holding /\ DatedAuth(auth) /\ Gone /\ ColdWhenOff
  /\ Saving /\ SnapsDated /\ Storing /\ Unlisted /\ Unrouted /\ PickSees

-----------------------------------------------------------------------------
(* Numbers *)

(* The larger of two.                                                      *)
LEMMA LargerOfTwo ==
  ASSUME NEW x \in Int, NEW y \in Int
  PROVE  MaxOf({x, y}) \in {x, y} /\ x <= MaxOf({x, y}) /\ y <= MaxOf({x, y})
<1> DEFINE S == {x, y}
<1>1. \E z \in S : \A w \in S : w <= z
  <2>1. CASE x <= y
    BY <2>1
  <2>2. CASE y <= x
    BY <2>2
  <2> QED
    BY <2>1, <2>2
<1>2. S # {}
  OBVIOUS
<1>3. MaxOf(S) = CHOOSE z \in S : \A w \in S : w <= z
  BY <1>2 DEF MaxOf
<1>4. MaxOf(S) \in S /\ \A w \in S : w <= MaxOf(S)
  BY <1>1, <1>3
<1> QED
  BY <1>4

(* The ranks in a finite set of integers are 1 up to its cardinality.      *)
LEMMA Ranks ==
  ASSUME NEW K \in SUBSET Int, IsFiniteSet(K)
  PROVE  /\ Cardinality(K) \in Nat
         /\ \A n \in 1 .. Cardinality(K) : \E i \in K : Cardinality({j \in K : j <= i}) = n
<1> DEFINE c == Cardinality(K)
           upto(i) == {j \in K : j <= i}
           rank == [i \in K |-> Cardinality(upto(i))]
<1>1. c \in Nat
  BY FS_CardinalityType
<1>2. \A i \in K : IsFiniteSet(upto(i)) /\ Cardinality(upto(i)) \in 1 .. c
  <2> SUFFICES ASSUME NEW i \in K PROVE IsFiniteSet(upto(i)) /\ Cardinality(upto(i)) \in 1 .. c
    OBVIOUS
  <2>1. upto(i) \in SUBSET K /\ i \in upto(i)
    OBVIOUS
  <2> HIDE DEF upto
  <2>2. IsFiniteSet(upto(i)) /\ Cardinality(upto(i)) <= c
    BY <2>1, FS_Subset
  <2>3. Cardinality(upto(i)) \in Nat /\ Cardinality(upto(i)) # 0
    BY <2>1, <2>2, FS_CardinalityType, FS_EmptySet
  <2> HIDE DEF c
  <2> QED
    BY <1>1, <2>2, <2>3
<1>3. ASSUME NEW i \in K, NEW k \in K, i < k
      PROVE  Cardinality(upto(i)) # Cardinality(upto(k))
  <2>1. upto(i) \in SUBSET upto(k) /\ k \in upto(k) /\ k \notin upto(i)
    <3>1. \A j \in K : j <= i => j <= k
      BY <1>3
    <3>2. k <= k /\ ~(k <= i)
      BY <1>3
    <3> QED
      BY <3>1, <3>2
  <2>2. IsFiniteSet(upto(k))
    BY <1>2
  <2> HIDE DEF upto
  <2> QED
    BY <2>1, <2>2, FS_Subset
<1>4. rank \in Injection(K, 1 .. c)
  <2>1. rank \in [K -> 1 .. c]
    BY <1>2
  <2>2. ASSUME NEW i \in K, NEW k \in K, rank[i] = rank[k] PROVE i = k
    <3>1. Cardinality(upto(i)) = Cardinality(upto(k))
      BY <2>2
    <3>2. i \in Int /\ k \in Int
      OBVIOUS
    <3> HIDE DEF upto
    <3> QED
      BY <1>3, <3>1, <3>2
  <2> HIDE DEF rank
  <2> QED
    BY <2>1, <2>2 DEF Injection, IsInjective
<1>5. rank \in Surjection(K, 1 .. c)
  <2>1. IsFiniteSet(1 .. c) /\ Cardinality(1 .. c) = c
    <3> HIDE DEF c
    <3>1. 1 \in Int /\ c \in Int
      BY <1>1
    <3>2. IsFiniteSet(1 .. c) /\ Cardinality(1 .. c) = IF 1 > c THEN 0 ELSE c - 1 + 1
      BY <3>1, FS_Interval
    <3> QED
      BY <1>1, <3>2
  <2> HIDE DEF rank
  <2> QED
    BY <1>4, <2>1, FS_Injection
<1>6. \A n \in 1 .. c : \E i \in K : Cardinality(upto(i)) = n
  <2> SUFFICES ASSUME NEW n \in 1 .. c PROVE \E i \in K : rank[i] = n
    OBVIOUS
  <2> HIDE DEF rank
  <2> QED
    BY <1>5 DEF Surjection
<1> QED
  BY <1>1, <1>6

(* A finite set of numbers has a largest one ...                           *)
LEMMA Largest ==
  ASSUME NEW S \in SUBSET Nat, IsFiniteSet(S)
  PROVE  MaxOf(S) \in Nat
<1>1. CASE S = {}
  BY <1>1 DEF MaxOf
<1>2. CASE S # {}
  <2>1. PICK c \in Nat : c = Cardinality(S) /\ c # 0
    BY <1>2, FS_CardinalityType, FS_EmptySet
  <2>2. S \in SUBSET Int /\ c \in 1 .. c
    BY <2>1
  <2>3. PICK i \in S : Cardinality({j \in S : j <= i}) = c
    BY <2>1, <2>2, Ranks
  <2> DEFINE T == {j \in S : j <= i}
  <2>4. T \in SUBSET S /\ Cardinality(S) = Cardinality(T)
    BY <2>1, <2>3
  <2>5. T = S
    <3> HIDE DEF T
    <3> QED
      BY <2>4, FS_Subset
  <2>6. \A j \in S : j <= i
    BY <2>5
  <2>7. (CHOOSE x \in S : \A y \in S : y <= x) \in S
    BY <2>6
  <2> QED
    BY <1>2, <2>7 DEF MaxOf
<1> QED
  BY <1>1, <1>2

(* ... and any set of numbers has a smallest one.                          *)
LEMMA Smallest ==
  ASSUME NEW S \in SUBSET Nat
  PROVE  MinOf(S) \in Nat /\ (S # {} => MinOf(S) \in S)
<1>1. CASE S = {}
  BY <1>1 DEF MinOf
<1>2. CASE S # {}
  <2>1. PICK n \in S : n \in Nat
    BY <1>2
  <2> DEFINE T == {j \in S : j <= n}
  <2>2. T \in SUBSET Nat /\ n \in T /\ \A t \in T : t <= n
    <3>1. n <= n
      BY <2>1
    <3> QED
      BY <2>1, <3>1
  <2>3. IsFiniteSet(T)
    <3> HIDE DEF T
    <3> QED
      BY <2>1, <2>2, FS_BoundedSetOfNaturals
  <2>4. PICK c \in Nat : c = Cardinality(T) /\ c # 0
    <3> HIDE DEF T
    <3> QED
      BY <2>2, <2>3, FS_CardinalityType, FS_EmptySet
  <2>5. PICK i \in T : Cardinality({j \in T : j <= i}) = 1
    <3>1. T \in SUBSET Int /\ 1 \in 1 .. c
      BY <2>2, <2>4
    <3> HIDE DEF T
    <3> QED
      BY <2>3, <2>4, <3>1, Ranks
  <2>6. \A j \in T : j <= i => j = i
    <3> DEFINE U == {j \in T : j <= i}
    <3>1. i \in U /\ U \in SUBSET T /\ Cardinality(U) = 1
      BY <2>2, <2>5
    <3> HIDE DEF T, U
    <3>2. IsFiniteSet(U)
      BY <2>3, <3>1, FS_Subset
    <3>3. PICK x : U = {x}
      BY <3>1, <3>2, FS_Singleton
    <3>4. \A j \in U : j = i
      BY <3>1, <3>3
    <3> QED
      BY <3>4 DEF U
  <2>7. i \in S /\ \A j \in S : i <= j
    <3>1. i \in S /\ i \in Nat /\ i <= n
      OBVIOUS
    <3>2. ASSUME NEW j \in S PROVE i <= j
      <4>1. j \in Nat
        OBVIOUS
      <4>2. CASE j <= i
        <5>1. j \in T
          BY <2>1, <3>1, <4>1, <4>2
        <5> QED
          BY <2>6, <4>1, <4>2, <5>1
      <4>3. CASE ~(j <= i)
        BY <3>1, <4>1, <4>3
      <4> QED
        BY <4>2, <4>3
    <3> QED
      BY <3>1, <3>2
  <2>8. (CHOOSE x \in S : \A y \in S : x <= y) \in S
    BY <2>7
  <2> QED
    BY <1>2, <2>8 DEF MinOf
<1> QED
  BY <1>1, <1>2

-----------------------------------------------------------------------------
(* Records and their cooldowns *)

(* The states of a record are about models.                                *)
LEMMA AuthElim ==
  ASSUME NEW a \in AuthRecords
  PROVE  /\ a.there \in BOOLEAN /\ a.disabled \in BOOLEAN /\ a.own \in Cooldowns
         /\ DOMAIN a.states \in SUBSET Models
         /\ a.states \in [DOMAIN a.states -> Cooldowns]
         /\ \A m \in DOMAIN a.states : a.states[m] \in Cooldowns
<1>1. a.states \in UNION {[S -> Cooldowns] : S \in SUBSET Models}
  BY DEF AuthRecords
<1>2. PICK S \in SUBSET Models : a.states \in [S -> Cooldowns]
  BY <1>1
<1>3. DOMAIN a.states = S
  BY <1>2
<1> QED
  BY <1>2, <1>3 DEF AuthRecords

(* A record may be given other states, or another cooldown of its own.     *)
LEMMA AuthStates ==
  ASSUME NEW a \in AuthRecords, NEW S \in SUBSET Models, NEW f \in [S -> Cooldowns]
  PROVE  LET b == [a EXCEPT !.states = f] IN
         /\ b \in AuthRecords
         /\ b.there = a.there /\ b.disabled = a.disabled /\ b.own = a.own /\ b.states = f
<1>1. f \in UNION {[T -> Cooldowns] : T \in SUBSET Models}
  OBVIOUS
<1> QED
  BY <1>1 DEF AuthRecords

(* ... or another cooldown of its own.                                     *)
LEMMA AuthOwn ==
  ASSUME NEW a \in AuthRecords, NEW c \in Cooldowns
  PROVE  LET b == [a EXCEPT !.own = c] IN
         /\ b \in AuthRecords
         /\ b.there = a.there /\ b.disabled = a.disabled /\ b.own = c /\ b.states = a.states
  BY DEF AuthRecords

(* Without states the empty tuple is left.                                 *)
LEMMA NoStates ==
  ASSUME NEW a \in AuthRecords
  PROVE  a.states = <<>> <=> DOMAIN a.states = {}
<1>1. ASSUME DOMAIN a.states = {} PROVE a.states = <<>>
  <2>1. a.states \in [{} -> Cooldowns]
    BY <1>1, AuthElim
  <2> QED
    BY <2>1
<1>2. ASSUME a.states = <<>> PROVE DOMAIN a.states = {}
  BY <1>2
<1> QED
  BY <1>1, <1>2

(* The records a new credential starts from.                               *)
LEMMA FreshRecords ==
  /\ Clean \in Cooldowns /\ Dated(Clean) /\ ~Hot(Clean)
  /\ NoAuth \in AuthRecords /\ ~NoAuth.there /\ NoAuth.own = Clean /\ NoAuth.states = <<>>
  /\ DatedAuth(NoAuth)
  /\ \A d \in BOOLEAN : /\ FreshAuth(d) \in AuthRecords /\ FreshAuth(d).there
                        /\ FreshAuth(d).disabled = d
                        /\ FreshAuth(d).own = Clean /\ FreshAuth(d).states = <<>>
<1>1. Clean \in Cooldowns /\ Dated(Clean) /\ ~Hot(Clean)
  BY DEF Clean, Cooldowns, Dated, Hot
<1>2. <<>> \in UNION {[S -> Cooldowns] : S \in SUBSET Models}
  <2>1. <<>> \in [{} -> Cooldowns] /\ {} \in SUBSET Models
    OBVIOUS
  <2> QED
    BY <2>1
<1>3. DatedAuth(NoAuth)
  <2>1. NoAuth.own = Clean /\ DOMAIN NoAuth.states = {}
    BY DEF NoAuth
  <2> QED
    BY <1>1, <2>1 DEF DatedAuth
<1> QED
  BY <1>1, <1>2, <1>3 DEF NoAuth, FreshAuth, AuthRecords

(* An expired cooldown is lifted.                                          *)
LEMMA ExpireKeeps ==
  ASSUME now \in Nat, NEW c \in Cooldowns
  PROVE  /\ Expire(c) \in Cooldowns
         /\ Dated(c) => Dated(Expire(c))
         /\ ~Hot(c) => ~Hot(Expire(c)) /\ ~Expire(c).exceeded /\ ~Expire(c).bad
         /\ Expire(c).recover = c.recover /\ Expire(c).exceeded = c.exceeded
  BY DEF Expire, Cooldowns, Dated, Hot

(* A finite set of models has finitely many levels.                        *)
LEMMA FiniteImage ==
  ASSUME NEW S, IsFiniteSet(S), NEW f, DOMAIN f = S
  PROVE  IsFiniteSet({f[m] : m \in S})
<1> DEFINE T == {f[m] : m \in S}
           g == [m \in S |-> f[m]]
<1>1. g \in Surjection(S, T)
  BY DEF Surjection
<1> HIDE DEF T, g
<1>2. IsFiniteSet(T)
  BY <1>1, FS_Surjection
<1> QED
  BY <1>2 DEF T

(* updateAggregatedAvailability keeps the record's type, its deadlines and *)
(* its silence.                                                            *)
LEMMA AggregateKeeps ==
  ASSUME now \in Nat, NEW a \in AuthRecords
  PROVE  /\ Aggregate(a) \in AuthRecords
         /\ Aggregate(a).there = a.there /\ Aggregate(a).disabled = a.disabled
         /\ DOMAIN Aggregate(a).states = DOMAIN a.states
         /\ (\A m \in DOMAIN a.states : Dated(a.states[m])) => DatedAuth(Aggregate(a))
         /\ (\A m \in DOMAIN a.states : ~Hot(a.states[m])) => ColdAuth(Aggregate(a))
<1> DEFINE D == DOMAIN a.states
           states == [m \in D |-> Expire(a.states[m])]
           over == {m \in D : states[m].exceeded}
           all == \A m \in D : states[m].bad /\ states[m].retry > now
           R == {states[m].retry : m \in D}
           V == {states[m].recover : m \in over} \ {0}
           L == {states[m].level : m \in over}
           own == [bad |-> all, retry |-> IF all THEN MinOf(R) ELSE 0, exceeded |-> over # {},
                   recover |-> MinOf(V), level |-> MaxOf(L)]
<1>1. CASE a.states = <<>>
  <2>1. Aggregate(a) = [a EXCEPT !.own = Clean]
    BY <1>1 DEF Aggregate
  <2>2. D = {}
    BY <1>1
  <2> QED
    BY <2>1, <2>2, AuthOwn, FreshRecords DEF DatedAuth, ColdAuth
<1>2. CASE a.states # <<>>
  <2>1. D # {} /\ D \in SUBSET Models /\ \A m \in D : a.states[m] \in Cooldowns
    BY <1>2, NoStates, AuthElim
  <2>2. \A m \in D : states[m] = Expire(a.states[m]) /\ states[m] \in Cooldowns
    BY <2>1, ExpireKeeps
  <2>3. Aggregate(a) = [a EXCEPT !.states = states, !.own = own]
    BY <1>2 DEF Aggregate
  <2> HIDE DEF states
  <2>4. R \in SUBSET Nat /\ V \in SUBSET Nat /\ L \in SUBSET Nat
    BY <2>2 DEF Cooldowns
  <2>5. R # {}
    BY <2>1
  <2>6. IsFiniteSet(L)
    <3>1. over \in SUBSET Models
      BY <2>1
    <3>2. IsFiniteSet(over)
      BY <3>1, CooldownAssumption, FS_Subset
    <3> DEFINE f == [m \in over |-> states[m].level]
    <3>3. L = {f[m] : m \in over} /\ DOMAIN f = over
      OBVIOUS
    <3> HIDE DEF f, over, L
    <3> QED
      BY <3>2, <3>3, FiniteImage
  <2>7. MaxOf(L) \in Nat /\ MinOf(R) \in R /\ MinOf(V) \in Nat /\ (V # {} => MinOf(V) \in V)
    <3> HIDE DEF L, R, V
    <3> QED
      BY <2>4, <2>5, <2>6, Largest, Smallest
  <2>8. MinOf(R) \in Nat
    BY <2>4, <2>7
  <2>9. all \in BOOLEAN /\ (over # {}) \in BOOLEAN
    OBVIOUS
  <2>10. own \in Cooldowns
    <3> HIDE DEF all, over, R, V, L
    <3> QED
      BY <2>7, <2>8, <2>9 DEF Cooldowns
  <2>11. /\ own.bad = all /\ own.retry = (IF all THEN MinOf(R) ELSE 0)
         /\ own.exceeded = (over # {}) /\ own.recover = MinOf(V)
    OBVIOUS
  <2>12. states \in [D -> Cooldowns]
    BY <2>2 DEF states
  <2> DEFINE b == [a EXCEPT !.states = states]
  <2>13. b \in AuthRecords /\ b.there = a.there /\ b.disabled = a.disabled /\ b.states = states
    BY <2>1, <2>12, AuthStates
  <2>14. Aggregate(a) = [b EXCEPT !.own = own]
    BY <2>3 DEF AuthRecords
  <2> HIDE DEF b
  <2>15. /\ Aggregate(a) \in AuthRecords /\ Aggregate(a).own = own /\ Aggregate(a).states = states
         /\ Aggregate(a).there = a.there /\ Aggregate(a).disabled = a.disabled
    <3> HIDE DEF own
    <3> QED
      BY <2>10, <2>13, <2>14, AuthOwn
  <2>16. DOMAIN states = D
    BY DEF states
  <2>17. ASSUME \A m \in D : Dated(a.states[m]) PROVE DatedAuth(Aggregate(a))
    <3>1. \A m \in D : Dated(states[m])
      BY <2>1, <2>2, <2>17, ExpireKeeps
    <3>2. own.exceeded => own.recover # 0
      <4>1. SUFFICES ASSUME over # {} PROVE V # {}
        <5>1. V # {} => MinOf(V) # 0
          <6>1. 0 \notin V
            OBVIOUS
          <6> HIDE DEF V
          <6> QED
            BY <2>7, <6>1
        <5> QED
          BY <2>11, <4>1, <5>1
      <4>2. PICK m \in over : m \in D /\ states[m].exceeded
        BY <4>1
      <4>3. states[m].recover # 0
        BY <3>1, <4>2 DEF Dated
      <4> QED
        BY <4>2, <4>3
    <3>3. own.bad => own.retry # 0
      <4>1. SUFFICES ASSUME all PROVE MinOf(R) # 0
        BY <2>11, <4>1
      <4>2. PICK m \in D : MinOf(R) = states[m].retry
        BY <2>7
      <4>3. states[m].retry > now /\ states[m].retry \in Nat
        BY <2>2, <4>1 DEF Cooldowns
      <4> QED
        BY <4>2, <4>3
    <3>4. Dated(own)
      BY <3>2, <3>3 DEF Dated
    <3> QED
      BY <2>15, <2>16, <3>1, <3>4 DEF DatedAuth
  <2>18. ASSUME \A m \in D : ~Hot(a.states[m]) PROVE ColdAuth(Aggregate(a))
    <3>1. \A m \in D : ~Hot(states[m]) /\ ~states[m].bad /\ ~states[m].exceeded
      BY <2>1, <2>2, <2>18, ExpireKeeps
    <3>2. over = {} /\ ~all
      BY <2>1, <3>1
    <3>3. V = {}
      BY <3>2
    <3>4. MinOf(V) = 0
      BY <3>3 DEF MinOf
    <3>5. ~Hot(own)
      BY <2>11, <3>2, <3>4 DEF Hot
    <3> QED
      BY <2>15, <2>16, <3>1, <3>5 DEF ColdAuth
  <2> QED
    BY <2>15, <2>16, <2>17, <2>18
<1> QED
  BY <1>1, <1>2

(* A cooldown that holds nothing back needs no deadline.                   *)
LEMMA ColdIsDated ==
  ASSUME NEW c, ~Hot(c)
  PROVE  Dated(c)
  BY DEF Hot, Dated

(* clearCooldownStateForAuth leaves nothing held back.                     *)
LEMMA ClearedKeeps ==
  ASSUME now \in Nat, NEW a \in AuthRecords
  PROVE  /\ Cleared(a) \in AuthRecords
         /\ Cleared(a).there = a.there /\ Cleared(a).disabled = a.disabled
         /\ DatedAuth(Cleared(a)) /\ ColdAuth(Cleared(a))
<1> DEFINE D == DOMAIN a.states
           f == [m \in D |-> Cooled(a.states[m])]
           b == [a EXCEPT !.own = Cooled(a.own)]
           d == [b EXCEPT !.states = f]
<1>1. \A c \in Cooldowns : Cooled(c) \in Cooldowns /\ ~Hot(Cooled(c))
  BY FreshRecords DEF Cooled
<1>2. a.own \in Cooldowns /\ D \in SUBSET Models /\ \A m \in D : a.states[m] \in Cooldowns
  BY AuthElim
<1>3. f \in [D -> Cooldowns] /\ \A m \in D : ~Hot(f[m])
  BY <1>1, <1>2
<1>4. /\ b \in AuthRecords /\ b.there = a.there /\ b.disabled = a.disabled
      /\ b.own = Cooled(a.own)
  BY <1>1, <1>2, AuthOwn
<1>5. Cleared(a) = IF a.states = <<>> THEN d ELSE Aggregate(d)
  BY DEF Cleared, AuthRecords
<1> HIDE DEF f, b
<1>6. /\ d \in AuthRecords /\ d.there = a.there /\ d.disabled = a.disabled
      /\ d.own = Cooled(a.own) /\ d.states = f
  BY <1>2, <1>3, <1>4, AuthStates
<1> HIDE DEF d
<1>7. DOMAIN d.states = D /\ \A m \in D : ~Hot(d.states[m])
  BY <1>3, <1>6
<1>8. ColdAuth(d)
  BY <1>1, <1>2, <1>6, <1>7 DEF ColdAuth
<1>9. /\ Cleared(a) \in AuthRecords /\ Cleared(a).there = a.there
      /\ Cleared(a).disabled = a.disabled /\ ColdAuth(Cleared(a))
  BY <1>5, <1>6, <1>7, <1>8, AggregateKeeps
<1>10. DatedAuth(Cleared(a))
  BY <1>9, ColdIsDated DEF ColdAuth, DatedAuth
<1> QED
  BY <1>9, <1>10

(* The backoff ladder: a cooldown that is not zero, and a level.           *)
LEMMA LadderStep ==
  ASSUME NEW level \in Nat
  PROVE  NextQuotaCooldown(level)[1] \in Nat \ {0} /\ NextQuotaCooldown(level)[2] \in Nat
<1>1. PICK p \in Int : p = 2^level
  OBVIOUS
<1>2. BackoffBase \in Nat \ {0} /\ BackoffMax \in Nat /\ BackoffBase <= BackoffMax
  BY CooldownAssumption
<1>3. BackoffBase * p \in Int
  BY <1>2
<1>4. PICK x \in Int : x = MaxOf({BackoffBase, BackoffBase * p}) /\ BackoffBase <= x
  BY <1>2, <1>3, LargerOfTwo
<1>5. NextQuotaCooldown(level) = IF x >= BackoffMax THEN <<BackoffMax, level>> ELSE <<x, level + 1>>
  BY <1>1, <1>4 DEF NextQuotaCooldown
<1> QED
  BY <1>2, <1>4, <1>5

(* What a failed result leaves of a cooldown: a deadline for whatever it   *)
(* holds back, and nothing held back while cooling is disabled (but for an *)
(* unsupported model).                                                     *)
LEMMA FailedKeeps ==
  ASSUME now \in Nat, off \in BOOLEAN, NEW c \in Cooldowns, NEW ra \in Nat,
         NEW kind \in {"unsupported", "cloudflare", "denied", "missing", "quota", "transient"}
  PROVE  /\ Failed(c, kind, ra) \in Cooldowns
         /\ Dated(c) => Dated(Failed(c, kind, ra))
         /\ off /\ kind # "unsupported" /\ ~Hot(c) => ~Hot(Failed(c, kind, ra))
<1> DEFINE s == Struck(c, kind, ra)
<1>1. /\ c.bad \in BOOLEAN /\ c.retry \in Nat /\ c.exceeded \in BOOLEAN
      /\ c.recover \in Nat /\ c.level \in Nat
  BY DEF Cooldowns
<1>2. Denied \in Nat \ {0} /\ Missing \in Nat \ {0} /\ Transient \in Nat /\ CloudflareMin \in Nat
  BY CooldownAssumption
<1>3. PICK n \in Nat \ {0} : n = NextQuotaCooldown(c.level)[1]
  BY <1>1, LadderStep
<1>4. PICK l \in Nat : l = NextQuotaCooldown(c.level)[2]
  BY <1>1, LadderStep
<1>5. PICK f \in Nat \ {0} : f = MaxOf({CloudflareMin, n})
  BY <1>2, LargerOfTwo
<1>6. /\ s \in Cooldowns
      /\ Dated(c) => Dated(s) \/ (off /\ s.retry = 0 /\ s.recover = 0)
      /\ off /\ kind # "unsupported" /\ ~Hot(c) => s.retry = 0 /\ s.recover = 0
  <2>1. CASE kind = "unsupported"
    <3>1. PICK w \in Nat : w = now + Missing /\ w # 0
      BY <1>2
    <3>2. s = [c EXCEPT !.bad = TRUE, !.retry = w]
      BY <2>1, <3>1 DEF Struck
    <3> HIDE DEF s
    <3>3. s \in Cooldowns
      BY <3>2 DEF Cooldowns
    <3>4. s.bad /\ s.retry = w /\ s.exceeded = c.exceeded /\ s.recover = c.recover
      BY <3>2 DEF Cooldowns
    <3> QED
      BY <1>1, <2>1, <3>1, <3>3, <3>4 DEF Dated, Hot
  <2>2. CASE kind = "cloudflare"
    <3>1. s = IF off THEN WithQuota(c, 0, c.level) ELSE WithQuota(c, now + f, l)
      BY <1>3, <1>4, <1>5, <2>2 DEF Struck, NextCloudflareCooldown
    <3>2. now + f \in Nat /\ now + f # 0
      BY <1>5
    <3> HIDE DEF s
    <3> QED
      BY <1>1, <1>4, <2>2, <3>1, <3>2 DEF Cooldowns, Dated, Hot, WithQuota
  <2>3. CASE kind = "denied"
    <3>1. PICK w \in Nat : w = (IF off THEN 0 ELSE now + Denied) /\ (IF off THEN w = 0 ELSE w # 0)
      BY <1>2
    <3>2. s = [c EXCEPT !.bad = TRUE, !.retry = w]
      BY <2>3, <3>1 DEF Struck
    <3> HIDE DEF s
    <3>3. s \in Cooldowns
      BY <3>2 DEF Cooldowns
    <3>4. s.bad /\ s.retry = w /\ s.exceeded = c.exceeded /\ s.recover = c.recover
      BY <3>2 DEF Cooldowns
    <3> QED
      BY <1>1, <2>3, <3>1, <3>3, <3>4 DEF Dated, Hot
  <2>4. CASE kind = "missing"
    <3>1. PICK w \in Nat : w = (IF off THEN 0 ELSE now + Missing) /\ (IF off THEN w = 0 ELSE w # 0)
      BY <1>2
    <3>2. s = [c EXCEPT !.bad = TRUE, !.retry = w]
      BY <2>4, <3>1 DEF Struck
    <3> HIDE DEF s
    <3>3. s \in Cooldowns
      BY <3>2 DEF Cooldowns
    <3>4. s.bad /\ s.retry = w /\ s.exceeded = c.exceeded /\ s.recover = c.recover
      BY <3>2 DEF Cooldowns
    <3> QED
      BY <1>1, <2>4, <3>1, <3>3, <3>4 DEF Dated, Hot
  <2>5. CASE kind = "quota"
    <3>1. PICK u \in Nat \ {0}, v \in Nat :
            QuotaCooldownAfterFailure(c) = <<u, v>>
      BY <1>1, <1>3, <1>4 DEF QuotaCooldownAfterFailure
    <3>2. s = IF off THEN WithQuota(c, 0, c.level)
              ELSE IF ra # 0 THEN WithQuota(c, now + ra, c.level) ELSE WithQuota(c, u, v)
      BY <2>5, <3>1 DEF Struck
    <3> HIDE DEF s
    <3> QED
      BY <1>1, <2>5, <3>1, <3>2 DEF Cooldowns, Dated, Hot, WithQuota
  <2>6. CASE kind = "transient"
    <3>1. s = [c EXCEPT !.bad = (TransientRetry # 0), !.retry = TransientRetry]
      BY <2>6 DEF Struck
    <3>2. TransientRetry \in Nat /\ (off => TransientRetry = 0)
      BY <1>2 DEF TransientRetry
    <3> HIDE DEF s
    <3> QED
      BY <1>1, <2>6, <3>1, <3>2 DEF Cooldowns, Dated, Hot
  <2> QED
    BY <2>1, <2>2, <2>3, <2>4, <2>5, <2>6
<1>7. Failed(c, kind, ra) = IF off /\ s.retry = 0 /\ s.recover = 0
                            THEN [s EXCEPT !.bad = FALSE, !.exceeded = FALSE] ELSE s
  BY DEF Failed
<1> HIDE DEF s
<1> QED
  BY <1>6, <1>7 DEF Cooldowns, Dated, Hot

(* ensureModelState makes a state for a model that has none; one state is  *)
(* replaced at a time.                                                     *)
LEMMA SetKeeps ==
  ASSUME NEW a \in AuthRecords, NEW m \in Models, NEW c \in Cooldowns
  PROVE  /\ StateOf(a, m) = IF m \in DOMAIN a.states THEN a.states[m] ELSE Clean
         /\ StateOf(a, m) \in Cooldowns
         /\ SetState(a, m, c) \in AuthRecords
         /\ SetState(a, m, c).there = a.there /\ SetState(a, m, c).disabled = a.disabled
         /\ DOMAIN SetState(a, m, c).states = DOMAIN a.states \cup {m}
         /\ \A k \in DOMAIN a.states \cup {m} :
              SetState(a, m, c).states[k] = IF k = m THEN c ELSE a.states[k]
<1> DEFINE D == DOMAIN a.states
           g == [k \in D \cup {m} |-> IF k = m THEN Clean ELSE a.states[k]]
           e == Ensured(a, m)
           h == [e.states EXCEPT ![m] = c]
<1>1. D \in SUBSET Models /\ a.states \in [D -> Cooldowns] /\ Clean \in Cooldowns
  BY AuthElim, FreshRecords
<1>2. /\ e \in AuthRecords /\ e.there = a.there /\ e.disabled = a.disabled
      /\ e.states \in [D \cup {m} -> Cooldowns]
      /\ e.states[m] = (IF m \in D THEN a.states[m] ELSE Clean)
      /\ \A k \in D : e.states[k] = a.states[k]
  <2>1. CASE m \in D
    <3>1. e = a /\ D \cup {m} = D
      BY <2>1 DEF Ensured
    <3> HIDE DEF e
    <3> QED
      BY <1>1, <2>1, <3>1
  <2>2. CASE m \notin D
    <3>1. e = [a EXCEPT !.states = g]
      BY <2>2 DEF Ensured
    <3>2. g \in [D \cup {m} -> Cooldowns] /\ D \cup {m} \in SUBSET Models
      BY <1>1
    <3>3. g[m] = Clean /\ \A k \in D : g[k] = a.states[k]
      BY <2>2
    <3> HIDE DEF g, e
    <3>4. e \in AuthRecords /\ e.there = a.there /\ e.disabled = a.disabled /\ e.states = g
      BY <3>1, <3>2, AuthStates
    <3> QED
      BY <2>2, <3>2, <3>3, <3>4
  <2> QED
    BY <2>1, <2>2
<1>3. StateOf(a, m) = e.states[m]
  BY DEF StateOf
<1>4. SetState(a, m, c) = [e EXCEPT !.states = h]
  BY <1>2 DEF SetState, AuthRecords
<1> HIDE DEF e
<1>5. /\ h \in [D \cup {m} -> Cooldowns] /\ D \cup {m} \in SUBSET Models
      /\ \A k \in D \cup {m} : h[k] = IF k = m THEN c ELSE a.states[k]
  BY <1>1, <1>2
<1> HIDE DEF h
<1>6. /\ SetState(a, m, c) \in AuthRecords /\ SetState(a, m, c).states = h
      /\ SetState(a, m, c).there = a.there /\ SetState(a, m, c).disabled = a.disabled
  BY <1>2, <1>4, <1>5, AuthStates
<1>7. StateOf(a, m) \in Cooldowns
  BY <1>1, <1>2, <1>3
<1>8. DOMAIN h = D \cup {m}
  BY <1>5
<1> QED
  BY <1>2, <1>3, <1>5, <1>6, <1>7, <1>8

(* MarkResult keeps the record's type and its deadlines; while cooling is  *)
(* disabled it holds nothing back, but for an unsupported model.           *)
LEMMA ResultKeeps ==
  ASSUME now \in Nat, off \in BOOLEAN, NEW a \in AuthRecords, NEW m \in Models \cup {NoModel},
         NEW ok \in BOOLEAN, NEW kind \in Failures \cup {"skipped"}, NEW ra \in Nat
  PROVE  LET b == AfterResult(a, m, ok, kind, ra) IN
         /\ b \in AuthRecords /\ b.there = a.there /\ b.disabled = a.disabled
         /\ DatedAuth(a) => DatedAuth(b)
         /\ off /\ (ok \/ kind # "unsupported") /\ ColdAuth(a) => ColdAuth(b)
<1> DEFINE b == AfterResult(a, m, ok, kind, ra)
<1>1. NoModel \notin Models
  BY CooldownAssumption
<1>2. kind # "skipped" => kind \in {"unsupported", "cloudflare", "denied", "missing", "quota",
                                    "transient"}
  BY CooldownAssumption
<1>3. ASSUME m # NoModel, NEW c \in Cooldowns, b = Aggregate(SetState(a, m, c)),
             DatedAuth(a) => Dated(c),
             off /\ (ok \/ kind # "unsupported") /\ ColdAuth(a) => ~Hot(c)
      PROVE  /\ b \in AuthRecords /\ b.there = a.there /\ b.disabled = a.disabled
             /\ DatedAuth(a) => DatedAuth(b)
             /\ off /\ (ok \/ kind # "unsupported") /\ ColdAuth(a) => ColdAuth(b)
  <2> DEFINE e == SetState(a, m, c)
  <2>1. m \in Models
    BY <1>3
  <2>2. /\ e \in AuthRecords /\ e.there = a.there /\ e.disabled = a.disabled
        /\ DOMAIN e.states = DOMAIN a.states \cup {m}
        /\ \A k \in DOMAIN e.states : e.states[k] = IF k = m THEN c ELSE a.states[k]
    BY <2>1, SetKeeps
  <2>3. DatedAuth(a) => \A k \in DOMAIN e.states : Dated(e.states[k])
    BY <1>3, <2>2 DEF DatedAuth
  <2>4. off /\ (ok \/ kind # "unsupported") /\ ColdAuth(a) => \A k \in DOMAIN e.states : ~Hot(e.states[k])
    BY <1>3, <2>2 DEF ColdAuth
  <2> HIDE DEF e, b
  <2>5. b = Aggregate(e)
    BY <1>3 DEF e
  <2> QED
    BY <2>2, <2>3, <2>4, <2>5, AggregateKeeps
<1>4. ASSUME m = NoModel, NEW c \in Cooldowns, b = [a EXCEPT !.own = c],
             DatedAuth(a) => Dated(c),
             off /\ (ok \/ kind # "unsupported") /\ ColdAuth(a) => ~Hot(c)
      PROVE  /\ b \in AuthRecords /\ b.there = a.there /\ b.disabled = a.disabled
             /\ DatedAuth(a) => DatedAuth(b)
             /\ off /\ (ok \/ kind # "unsupported") /\ ColdAuth(a) => ColdAuth(b)
  <2> HIDE DEF b
  <2>1. /\ b \in AuthRecords /\ b.there = a.there /\ b.disabled = a.disabled
        /\ b.own = c /\ b.states = a.states
    BY <1>4, AuthOwn
  <2> QED
    BY <1>4, <2>1 DEF DatedAuth, ColdAuth
<1>5. CASE ok /\ m # NoModel
  <2>1. b = Aggregate(SetState(a, m, Clean))
    BY <1>5 DEF AfterResult
  <2> HIDE DEF b
  <2> QED
    BY <1>3, <1>5, <2>1, FreshRecords DEF b
<1>6. CASE ok /\ m = NoModel
  <2>1. b = [a EXCEPT !.own = Clean]
    BY <1>6 DEF AfterResult
  <2> HIDE DEF b
  <2> QED
    BY <1>4, <1>6, <2>1, FreshRecords DEF b
<1>7. CASE ~ok /\ kind = "skipped"
  <2>1. b = a
    BY <1>7 DEF AfterResult
  <2> HIDE DEF b
  <2> QED
    BY <2>1 DEF b
<1>8. CASE ~ok /\ kind # "skipped" /\ m # NoModel
  <2> DEFINE s == StateOf(a, m)
             c == Failed(s, kind, ra)
  <2>1. b = Aggregate(SetState(a, m, c))
    BY <1>8 DEF AfterResult
  <2>2. m \in Models
    BY <1>8
  <2>3. s \in Cooldowns /\ s = IF m \in DOMAIN a.states THEN a.states[m] ELSE Clean
    BY <2>2, FreshRecords, SetKeeps
  <2>4. (DatedAuth(a) => Dated(s)) /\ (ColdAuth(a) => ~Hot(s))
    BY <2>3, FreshRecords DEF DatedAuth, ColdAuth
  <2> HIDE DEF b, s
  <2>5. /\ c \in Cooldowns /\ (Dated(s) => Dated(c))
        /\ off /\ kind # "unsupported" /\ ~Hot(s) => ~Hot(c)
    BY <1>2, <1>8, <2>3, FailedKeeps
  <2> HIDE DEF c
  <2> QED
    BY <1>3, <1>8, <2>1, <2>4, <2>5 DEF b
<1>9. CASE ~ok /\ kind # "skipped" /\ m = NoModel
  <2> DEFINE kk == IF kind = "unsupported" THEN "transient" ELSE kind
             c == Failed(a.own, kk, ra)
  <2>1. b = [a EXCEPT !.own = c]
    BY <1>9 DEF AfterResult
  <2>2. kk \in {"unsupported", "cloudflare", "denied", "missing", "quota", "transient"}
    BY <1>2, <1>9
  <2>3. kk # "unsupported"
    OBVIOUS
  <2>4. a.own \in Cooldowns
    BY AuthElim
  <2> HIDE DEF b, kk
  <2>5. /\ c \in Cooldowns /\ (Dated(a.own) => Dated(c))
        /\ off /\ ~Hot(a.own) => ~Hot(c)
    BY <2>2, <2>3, <2>4, FailedKeeps
  <2> HIDE DEF c
  <2> QED
    BY <1>4, <1>9, <2>1, <2>5 DEF DatedAuth, ColdAuth, b
<1> QED
  BY <1>5, <1>6, <1>7, <1>8, <1>9

(* ResetQuota holds nothing back.                                          *)
LEMMA ResetKeeps ==
  ASSUME now \in Nat, NEW a \in AuthRecords
  PROVE  /\ AfterReset(a) \in AuthRecords
         /\ AfterReset(a).there = a.there /\ AfterReset(a).disabled = a.disabled
         /\ DatedAuth(AfterReset(a)) /\ ColdAuth(AfterReset(a))
<1> DEFINE f == [m \in DOMAIN a.states |-> Clean]
           b == [a EXCEPT !.states = f]
<1>1. f \in [DOMAIN a.states -> Cooldowns] /\ DOMAIN a.states \in SUBSET Models
  BY AuthElim, FreshRecords
<1>2. AfterReset(a) = Cleared(b)
  BY DEF AfterReset
<1> HIDE DEF f
<1>3. b \in AuthRecords /\ b.there = a.there /\ b.disabled = a.disabled
  BY <1>1, AuthStates
<1> HIDE DEF b
<1> QED
  BY <1>2, <1>3, ClearedKeeps

(* ReconcileRegistryModelStates: the states that are kept are clean.       *)
LEMMA ReconcileKeeps ==
  ASSUME now \in Nat, NEW a \in AuthRecords, NEW S \in SUBSET Models
  PROVE  LET b == Aggregate([a EXCEPT !.states = [m \in S |-> Clean]]) IN
         /\ b \in AuthRecords /\ b.there = a.there /\ b.disabled = a.disabled
         /\ DatedAuth(b) /\ ColdAuth(b)
<1> DEFINE f == [m \in S |-> Clean]
           e == [a EXCEPT !.states = f]
<1>1. f \in [S -> Cooldowns] /\ DOMAIN f = S /\ \A m \in S : f[m] = Clean
  BY FreshRecords
<1> HIDE DEF f
<1>2. e \in AuthRecords /\ e.there = a.there /\ e.disabled = a.disabled /\ e.states = f
  BY <1>1, AuthStates
<1>3. \A m \in DOMAIN e.states : Dated(e.states[m]) /\ ~Hot(e.states[m])
  BY <1>1, <1>2, FreshRecords
<1> HIDE DEF e
<1> QED
  BY <1>2, <1>3, AggregateKeeps DEF e, f

(* A record of the file that has not expired restores a cooldown with a    *)
(* deadline.                                                               *)
LEMMA RestoredKeeps ==
  ASSUME now \in Nat, NEW r \in CooldownRecords, r.retry > now
  PROVE  Restored(r) \in Cooldowns /\ Dated(Restored(r))
<1>1. r.retry \in Nat /\ r.exceeded \in BOOLEAN /\ r.recover \in Nat /\ r.level \in Nat
  BY DEF CooldownRecords
<1> QED
  BY <1>1 DEF Restored, Cooldowns, Dated

(* Merging keeps the later of two deadlines.                               *)
LEMMA MergedKeeps ==
  ASSUME NEW c \in Cooldowns, NEW d \in Cooldowns
  PROVE  Merged(c, d) \in Cooldowns /\ (Dated(c) /\ Dated(d) => Dated(Merged(c, d)))
<1>1. /\ c.bad \in BOOLEAN /\ c.retry \in Nat /\ c.exceeded \in BOOLEAN
      /\ c.recover \in Nat /\ c.level \in Nat
      /\ d.bad \in BOOLEAN /\ d.retry \in Nat /\ d.exceeded \in BOOLEAN
      /\ d.recover \in Nat /\ d.level \in Nat
  BY DEF Cooldowns
<1>2. \A p, q \in Nat : \E x \in Nat : x = MaxOf({p, q}) /\ p <= x /\ q <= x
  <2> SUFFICES ASSUME NEW p \in Nat, NEW q \in Nat
               PROVE  \E x \in Nat : x = MaxOf({p, q}) /\ p <= x /\ q <= x
    OBVIOUS
  <2> QED
    BY LargerOfTwo
<1>3. PICK x \in Nat : x = MaxOf({c.retry, d.retry}) /\ c.retry <= x /\ d.retry <= x
  BY <1>1, <1>2
<1>4. PICK y \in Nat : y = MaxOf({c.recover, d.recover}) /\ c.recover <= y /\ d.recover <= y
  BY <1>1, <1>2
<1>4a. PICK z \in Nat : z = MaxOf({c.level, d.level})
  BY <1>1, <1>2
<1>5. Merged(c, d) = [bad |-> c.bad \/ d.bad, retry |-> x, exceeded |-> c.exceeded \/ d.exceeded,
                      recover |-> y, level |-> z]
  BY <1>3, <1>4, <1>4a DEF Merged
<1>6. Merged(c, d) \in Cooldowns
  BY <1>5 DEF Cooldowns
<1>7. /\ Merged(c, d).bad = (c.bad \/ d.bad) /\ Merged(c, d).exceeded = (c.exceeded \/ d.exceeded)
      /\ Merged(c, d).retry = x /\ Merged(c, d).recover = y
  BY <1>5
<1> QED
  BY <1>1, <1>3, <1>4, <1>6, <1>7 DEF Dated

(* RestoreCooldownStates keeps the record's type and its deadlines, and    *)
(* changes nothing when there is nothing to restore.                       *)
LEMMA RestoreKeeps ==
  ASSUME now \in Nat, NEW a \in AuthRecords, NEW records \in SUBSET CooldownRecords
  PROVE  LET b == WithRecords(a, records) IN
         /\ b \in AuthRecords /\ b.there = a.there /\ b.disabled = a.disabled
         /\ DatedAuth(a) => DatedAuth(b)
         /\ Restorable(a, records) = {} => b = a
<1> DEFINE live == Restorable(a, records)
           models == {m \in Models : \E r \in live : r.model = m}
           Rec(m) == CHOOSE r \in live : r.model = m
           D == DOMAIN a.states
           f == [k \in D \cup models |->
                   IF k \in models THEN Merged(StateOf(a, k), Restored(Rec(k))) ELSE a.states[k]]
           e == [a EXCEPT !.states = f]
           w == IF models = {} THEN a ELSE Aggregate(e)
           b == WithRecords(a, records)
<1>1. b = IF \E r \in live : r.model = NoModel
          THEN [w EXCEPT !.own = Restored(Rec(NoModel))] ELSE w
  BY DEF WithRecords
<1>2. \A r \in live : r \in CooldownRecords /\ r.retry > now
  BY DEF Restorable, Live
<1>3. \A m : (\E r \in live : r.model = m) => Rec(m) \in live
  OBVIOUS
<1>4. ASSUME NEW m, \E r \in live : r.model = m
      PROVE  Restored(Rec(m)) \in Cooldowns /\ Dated(Restored(Rec(m)))
  <2>1. Rec(m) \in CooldownRecords /\ Rec(m).retry > now
    BY <1>2, <1>3, <1>4
  <2> HIDE DEF Rec
  <2> QED
    BY <2>1, RestoredKeeps
<1> HIDE DEF live, Rec
<1>5. D \in SUBSET Models /\ a.states \in [D -> Cooldowns]
  BY AuthElim
<1>6. \A m \in Models : /\ StateOf(a, m) = IF m \in D THEN a.states[m] ELSE Clean
                        /\ StateOf(a, m) \in Cooldowns
  BY FreshRecords, SetKeeps
<1>7. \A m \in Models : DatedAuth(a) => Dated(StateOf(a, m))
  BY <1>6, FreshRecords DEF DatedAuth
<1>8. \A m \in models : /\ m \in Models /\ Restored(Rec(m)) \in Cooldowns
                        /\ Dated(Restored(Rec(m)))
  BY <1>4
<1>9. D \cup models \in SUBSET Models
  BY <1>5
<1> HIDE DEF models
<1>10. f \in [D \cup models -> Cooldowns]
  <2>1. \A k \in models : Merged(StateOf(a, k), Restored(Rec(k))) \in Cooldowns
    BY <1>6, <1>8, MergedKeeps
  <2> QED
    BY <1>5, <2>1
<1>11. DatedAuth(a) => \A k \in D \cup models : Dated(f[k])
  <2>1. DatedAuth(a) => \A k \in models : Dated(Merged(StateOf(a, k), Restored(Rec(k))))
    BY <1>6, <1>7, <1>8, MergedKeeps
  <2> QED
    BY <2>1 DEF DatedAuth
<1>12. DOMAIN f = D \cup models
  OBVIOUS
<1> HIDE DEF f
<1>13. e \in AuthRecords /\ e.there = a.there /\ e.disabled = a.disabled /\ e.states = f
  BY <1>9, <1>10, AuthStates
<1>14. DatedAuth(a) => \A k \in DOMAIN e.states : Dated(e.states[k])
  BY <1>11, <1>12, <1>13
<1> HIDE DEF e
<1>15. /\ w \in AuthRecords /\ w.there = a.there /\ w.disabled = a.disabled
       /\ DatedAuth(a) => DatedAuth(w)
       /\ models = {} => w = a
  BY <1>13, <1>14, AggregateKeeps
<1> HIDE DEF w
<1>16. ASSUME \E r \in live : r.model = NoModel
       PROVE  LET c == [w EXCEPT !.own = Restored(Rec(NoModel))] IN
              /\ c \in AuthRecords /\ c.there = a.there /\ c.disabled = a.disabled
              /\ DatedAuth(a) => DatedAuth(c)
  <2> DEFINE d == Restored(Rec(NoModel))
             c == [w EXCEPT !.own = d]
  <2>1. d \in Cooldowns /\ Dated(d)
    BY <1>4, <1>16
  <2> HIDE DEF d
  <2>2. /\ c \in AuthRecords /\ c.there = w.there /\ c.disabled = w.disabled
        /\ c.own = d /\ c.states = w.states
    BY <1>15, <2>1, AuthOwn
  <2>3. DatedAuth(a) => DatedAuth(c)
    <3> HIDE DEF c
    <3> QED
      BY <1>15, <2>1, <2>2 DEF DatedAuth
  <2> HIDE DEF c
  <2>4. c \in AuthRecords /\ c.there = a.there /\ c.disabled = a.disabled
    BY <1>15, <2>2
  <2> QED
    BY <2>3, <2>4 DEF c, d
<1>17. live = {} => b = a
  <2>1. live = {} => models = {}
    BY DEF models
  <2> HIDE DEF b
  <2> QED
    BY <1>1, <1>15, <2>1
<1>18. /\ b \in AuthRecords /\ b.there = a.there /\ b.disabled = a.disabled
       /\ DatedAuth(a) => DatedAuth(b)
  <2>1. CASE \E r \in live : r.model = NoModel
    BY <1>1, <1>16, <2>1
  <2>2. CASE ~ \E r \in live : r.model = NoModel
    <3>1. b = w
      BY <1>1, <2>2
    <3> HIDE DEF b
    <3> QED
      BY <1>15, <3>1
  <2> QED
    BY <2>1, <2>2
<1> QED
  BY <1>17, <1>18 DEF live

(* The records of a credential are records, and none has expired.          *)
LEMMA RecordsAreLive ==
  ASSUME now \in Nat, NEW a \in AuthRecords
  PROVE  Records(a) \in SUBSET CooldownRecords /\ Live(Records(a)) = Records(a)
<1>1. /\ a.own \in Cooldowns /\ DOMAIN a.states \in SUBSET Models
      /\ \A m \in DOMAIN a.states : a.states[m] \in Cooldowns
  BY AuthElim
<1>2. ASSUME NEW m \in Models \cup {NoModel}, NEW c \in Cooldowns, Recorded(c)
      PROVE  RecordOf(m, c) \in CooldownRecords /\ RecordOf(m, c).retry > now
  BY <1>2 DEF RecordOf, CooldownRecords, Cooldowns, Recorded
<1>3. \A r \in Records(a) : r \in CooldownRecords /\ r.retry > now
  <2> SUFFICES ASSUME NEW r \in Records(a) PROVE r \in CooldownRecords /\ r.retry > now
    OBVIOUS
  <2>1. \/ \E c \in {x \in {a.own} : Recorded(x)} : r = RecordOf(NoModel, c)
        \/ \E m \in {k \in DOMAIN a.states : Recorded(a.states[k])} : r = RecordOf(m, a.states[m])
    BY DEF Records
  <2>2. CASE \E c \in {x \in {a.own} : Recorded(x)} : r = RecordOf(NoModel, c)
    <3>1. r = RecordOf(NoModel, a.own) /\ Recorded(a.own)
      BY <2>2
    <3> QED
      BY <1>1, <1>2, <3>1
  <2>3. CASE \E m \in {k \in DOMAIN a.states : Recorded(a.states[k])} : r = RecordOf(m, a.states[m])
    <3>1. PICK m \in DOMAIN a.states : r = RecordOf(m, a.states[m]) /\ Recorded(a.states[m])
      BY <2>3
    <3> QED
      BY <1>1, <1>2, <3>1
  <2> QED
    BY <2>1, <2>2, <2>3
<1> HIDE DEF Records
<1> QED
  BY <1>3 DEF Live

(* The clock expires records of the file and of the credential alike.      *)
LEMMA RecordsExpire ==
  ASSUME now \in Nat, now' = now + 1, off' = off, auth' = auth, auth \in AuthRecords,
         NEW S \in SUBSET CooldownRecords, NEW T, T = S, Live(S) = Records(auth)
  PROVE  {r \in T : r.retry > now'} = Records(auth)'
<1>1. /\ auth.own \in Cooldowns /\ DOMAIN auth.states \in SUBSET Models
      /\ \A m \in DOMAIN auth.states : auth.states[m] \in Cooldowns
  BY AuthElim
<1>2. {r \in T : r.retry > now'} = {r \in Records(auth) : r.retry > now + 1}
  <2>1. \A r \in S : r.retry > now + 1 => r.retry > now
    BY DEF CooldownRecords
  <2> QED
    BY <2>1 DEF Live
<1>3. \A c \in Cooldowns : Recorded(c)' <=> Recorded(c) /\ c.retry > now + 1
  BY DEF Recorded, Cooldowns
<1>4. \A m, c : RecordOf(m, c).retry = c.retry
  BY DEF RecordOf
<1>5. CASE ~auth.there \/ auth.disabled \/ off
  BY <1>2, <1>5 DEF Records
<1>6. CASE ~(~auth.there \/ auth.disabled \/ off)
  <2> DEFINE A == {RecordOf(NoModel, c) : c \in {x \in {auth.own} : Recorded(x)}}
             B == {RecordOf(m, auth.states[m]) : m \in {k \in DOMAIN auth.states : Recorded(auth.states[k])}}
             C == {RecordOf(NoModel, c) : c \in {x \in {auth.own} : Recorded(x) /\ x.retry > now + 1}}
             E == {RecordOf(m, auth.states[m]) :
                     m \in {k \in DOMAIN auth.states : Recorded(auth.states[k]) /\ auth.states[k].retry > now + 1}}
  <2>1. Records(auth) = A \cup B
    BY <1>6 DEF Records
  <2>2. Records(auth)' = C \cup E
    BY <1>1, <1>3, <1>6 DEF Records, RecordOf
  <2>3. {r \in A : r.retry > now + 1} = C
    BY <1>4
  <2>4. {r \in B : r.retry > now + 1} = E
    BY <1>4
  <2> HIDE DEF A, B, C, E
  <2> QED
    BY <1>2, <2>1, <2>2, <2>3, <2>4
<1> QED
  BY <1>5, <1>6

-----------------------------------------------------------------------------
(* Plans *)

(* The order of the steps within a plan s, and what is left of it after    *)
(* the first.                                                              *)
Orderly(s, t) ==
  /\ t \in Plans
  /\ Head(s) \in {"clear", "merge", "reconcile", "refresh"} => <<"upsert">> \o t \in Plans
  /\ \A what : Has(s, what) <=> Head(s) = what \/ Has(t, what)
  /\ Head(s) = "lock" => Holds(t) /\ Saves(t)
  /\ Head(s) = "unlock" => ~Holds(t) /\ Holds(s)
  /\ Head(s) \notin {"lock", "unlock"} => (Holds(s) <=> Holds(t))
  /\ Head(s) = "records" => t # <<>> /\ Head(t) = "save" /\ Holds(s)
  /\ t # <<>> /\ Head(t) = "save" => Head(s) = "records"
  /\ Head(s) = "save" => Holds(s) /\ ~Has(s, "records")
  /\ t # <<>> => Head(t) # "clear"
  /\ Head(s) \in {"clear", "merge", "delete"} => Saves(t)
  /\ Head(s) = "delete" => t # <<>> /\ Head(t) = "removeEntry" /\ ~Holds(s) /\ ~Brings(t)
  /\ Head(s) = "register" => ~Brings(t)
  /\ Head(s) \in {"create", "update", "patch"} => ~Holds(s) /\ ~Saves(s)
  /\ ~Stores(t)

(* A first step put before the rest of a plan.                             *)
LEMMA Cons ==
  ASSUME NEW S, NEW u \in Seq(S), u # <<>>
  PROVE  <<Head(u)>> \o Tail(u) = u
<1>1. Tail(u) \in Seq(S) /\ Len(Tail(u)) = Len(u) - 1 /\ Len(u) # 0
  OBVIOUS
<1>2. \A i \in 1 .. Len(u) - 1 : Tail(u)[i] = u[i + 1]
  OBVIOUS
<1>3. <<Head(u)>> \in Seq(S) /\ Len(<<Head(u)>>) = 1 /\ <<Head(u)>>[1] = u[1]
  OBVIOUS
<1> DEFINE v == <<Head(u)>>
           w == Tail(u)
<1> HIDE DEF v, w
<1>4. /\ v \o w \in Seq(S) /\ Len(v \o w) = Len(v) + Len(w)
      /\ \A i \in 1 .. Len(v) + Len(w) : (v \o w)[i] = IF i <= Len(v) THEN v[i] ELSE w[i - Len(v)]
  BY <1>1, <1>3, ConcatProperties DEF v, w
<1>5. Len(v \o w) = Len(u)
  BY <1>1, <1>3, <1>4 DEF v, w
<1>6. ASSUME NEW i \in 1 .. Len(u) PROVE (v \o w)[i] = u[i]
  <2>1. CASE i = 1
    BY <1>1, <1>3, <1>4, <2>1 DEF v, w
  <2>2. CASE i # 1
    <3>1. i - 1 \in 1 .. Len(u) - 1 /\ i = (i - 1) + 1
      BY <2>2
    <3> QED
      BY <1>1, <1>2, <1>3, <1>4, <2>2, <3>1 DEF v, w
  <2> QED
    BY <2>1, <2>2
<1>7. v \o w = u
  BY <1>4, <1>5, <1>6, SeqEqual
<1> QED
  BY <1>7 DEF v, w

(* Which steps each plan holds.                                            *)
LEMMA PlanSteps ==
  ASSUME NEW what
  PROVE
    /\ ~Has(<<>>, what)
    /\ Has(<<"lock", "records", "save", "unlock">>, what) <=> what \in
         {"lock", "records", "save", "unlock"}
    /\ Has(<<"records", "save", "unlock">>, what) <=> what \in
         {"records", "save", "unlock"}
    /\ Has(<<"save", "unlock">>, what) <=> what \in
         {"save", "unlock"}
    /\ Has(<<"unlock">>, what) <=> what \in
         {"unlock"}
    /\ Has(<<"upsert">>, what) <=> what \in
         {"upsert"}
    /\ Has(<<"upsert", "lock", "records", "save", "unlock">>, what) <=> what \in
         {"upsert", "lock", "records", "save", "unlock"}
    /\ Has(<<"upsert", "records", "save", "unlock">>, what) <=> what \in
         {"upsert", "records", "save", "unlock"}
    /\ Has(<<"clear", "records", "save", "unlock">>, what) <=> what \in
         {"clear", "records", "save", "unlock"}
    /\ Has(<<"merge", "lock", "records", "save", "unlock">>, what) <=> what \in
         {"merge", "lock", "records", "save", "unlock"}
    /\ Has(<<"upsertAlias", "lock", "records", "save", "unlock", "register", "reconcile", "refresh">>, what) <=> what \in
         {"upsertAlias", "lock", "records", "save", "unlock", "register", "reconcile", "refresh"}
    /\ Has(<<"lock", "records", "save", "unlock", "register", "reconcile", "refresh">>, what) <=> what \in
         {"lock", "records", "save", "unlock", "register", "reconcile", "refresh"}
    /\ Has(<<"records", "save", "unlock", "register", "reconcile", "refresh">>, what) <=> what \in
         {"records", "save", "unlock", "register", "reconcile", "refresh"}
    /\ Has(<<"save", "unlock", "register", "reconcile", "refresh">>, what) <=> what \in
         {"save", "unlock", "register", "reconcile", "refresh"}
    /\ Has(<<"unlock", "register", "reconcile", "refresh">>, what) <=> what \in
         {"unlock", "register", "reconcile", "refresh"}
    /\ Has(<<"upsertAlias", "register", "reconcile", "refresh">>, what) <=> what \in
         {"upsertAlias", "register", "reconcile", "refresh"}
    /\ Has(<<"register", "reconcile", "refresh">>, what) <=> what \in
         {"register", "reconcile", "refresh"}
    /\ Has(<<"reconcile", "refresh">>, what) <=> what \in
         {"reconcile", "refresh"}
    /\ Has(<<"upsert", "refresh">>, what) <=> what \in
         {"upsert", "refresh"}
    /\ Has(<<"refresh">>, what) <=> what \in
         {"refresh"}
    /\ Has(<<"create">>, what) <=> what \in
         {"create"}
    /\ Has(<<"update">>, what) <=> what \in
         {"update"}
    /\ Has(<<"patch">>, what) <=> what \in
         {"patch"}
    /\ Has(<<"upsertAlias", "lock", "records", "save", "unlock">>, what) <=> what \in
         {"upsertAlias", "lock", "records", "save", "unlock"}
    /\ Has(<<"upsertAlias">>, what) <=> what \in
         {"upsertAlias"}
    /\ Has(<<"unregister", "delete", "removeEntry", "lock", "records", "save", "unlock">>, what) <=> what \in
         {"unregister", "delete", "removeEntry", "lock", "records", "save", "unlock"}
    /\ Has(<<"delete", "removeEntry", "lock", "records", "save", "unlock">>, what) <=> what \in
         {"delete", "removeEntry", "lock", "records", "save", "unlock"}
    /\ Has(<<"removeEntry", "lock", "records", "save", "unlock">>, what) <=> what \in
         {"removeEntry", "lock", "records", "save", "unlock"}
  BY DEF Has

(* Every plan is orderly.                                                  *)
LEMMA PlansAreOrderly ==
  ASSUME NEW s \in Plans, s # <<>>, NEW t, t = Tail(s)
  PROVE  Orderly(s, t)
<1>1. ASSUME NEW u \in Seq(Words), u \in Plans, Head(u) = "upsert", u # <<>>, Tail(u) = t
      PROVE  <<"upsert">> \o t \in Plans
  BY <1>1, Cons
<1>2. CASE s = <<"lock", "records", "save", "unlock">>
  <2>1. Head(s) = "lock" /\ t = <<"records", "save", "unlock">>
    BY <1>2
  <2>2. \A what : Has(s, what) <=> what \in {"lock", "records", "save", "unlock"}
    BY ONLY <1>2, PlanSteps
  <2>3. \A what : Has(t, what) <=> what \in {"records", "save", "unlock"}
    BY ONLY <2>1, PlanSteps
  <2>4. t \in Plans /\ t # <<>> /\ Head(t) = "records"
    BY ONLY <2>1 DEF Plans
  <2>6. Head(s) = "lock"
    BY <2>1
  <2> QED
    BY ONLY <2>2, <2>3, <2>4, <2>6 DEF Orderly, Holds, Brings, Saves, Stores
<1>3. CASE s = <<"records", "save", "unlock">>
  <2>1. Head(s) = "records" /\ t = <<"save", "unlock">>
    BY <1>3
  <2>2. \A what : Has(s, what) <=> what \in {"records", "save", "unlock"}
    BY ONLY <1>3, PlanSteps
  <2>3. \A what : Has(t, what) <=> what \in {"save", "unlock"}
    BY ONLY <2>1, PlanSteps
  <2>4. t \in Plans /\ t # <<>> /\ Head(t) = "save"
    BY ONLY <2>1 DEF Plans
  <2>6. Head(s) = "records"
    BY <2>1
  <2> QED
    BY ONLY <2>2, <2>3, <2>4, <2>6 DEF Orderly, Holds, Brings, Saves, Stores
<1>4. CASE s = <<"save", "unlock">>
  <2>1. Head(s) = "save" /\ t = <<"unlock">>
    BY <1>4
  <2>2. \A what : Has(s, what) <=> what \in {"save", "unlock"}
    BY ONLY <1>4, PlanSteps
  <2>3. \A what : Has(t, what) <=> what \in {"unlock"}
    BY ONLY <2>1, PlanSteps
  <2>4. t \in Plans /\ t # <<>> /\ Head(t) = "unlock"
    BY ONLY <2>1 DEF Plans
  <2>6. Head(s) = "save"
    BY <2>1
  <2> QED
    BY ONLY <2>2, <2>3, <2>4, <2>6 DEF Orderly, Holds, Brings, Saves, Stores
<1>5. CASE s = <<"unlock">>
  <2>1. Head(s) = "unlock" /\ t = <<>>
    BY <1>5
  <2>2. \A what : Has(s, what) <=> what \in {"unlock"}
    BY ONLY <1>5, PlanSteps
  <2>3. \A what : Has(t, what) <=> what \in {}
    BY ONLY <2>1, PlanSteps
  <2>4. t \in Plans /\ t = <<>>
    BY ONLY <2>1 DEF Plans
  <2>6. Head(s) = "unlock"
    BY <2>1
  <2> QED
    BY ONLY <2>2, <2>3, <2>4, <2>6 DEF Orderly, Holds, Brings, Saves, Stores
<1>6. CASE s = <<"upsert">>
  <2>1. Head(s) = "upsert" /\ t = <<>>
    BY <1>6
  <2>2. \A what : Has(s, what) <=> what \in {"upsert"}
    BY ONLY <1>6, PlanSteps
  <2>3. \A what : Has(t, what) <=> what \in {}
    BY ONLY <2>1, PlanSteps
  <2>4. t \in Plans /\ t = <<>>
    BY ONLY <2>1 DEF Plans
  <2>6. Head(s) = "upsert"
    BY <2>1
  <2> QED
    BY ONLY <2>2, <2>3, <2>4, <2>6 DEF Orderly, Holds, Brings, Saves, Stores
<1>7. CASE s = <<"upsert", "lock", "records", "save", "unlock">>
  <2>1. Head(s) = "upsert" /\ t = <<"lock", "records", "save", "unlock">>
    BY <1>7
  <2>2. \A what : Has(s, what) <=> what \in {"upsert", "lock", "records", "save", "unlock"}
    BY ONLY <1>7, PlanSteps
  <2>3. \A what : Has(t, what) <=> what \in {"lock", "records", "save", "unlock"}
    BY ONLY <2>1, PlanSteps
  <2>4. t \in Plans /\ t # <<>> /\ Head(t) = "lock"
    BY ONLY <2>1 DEF Plans
  <2>6. Head(s) = "upsert"
    BY <2>1
  <2> QED
    BY ONLY <2>2, <2>3, <2>4, <2>6 DEF Orderly, Holds, Brings, Saves, Stores
<1>8. CASE s = <<"upsert", "records", "save", "unlock">>
  <2>1. Head(s) = "upsert" /\ t = <<"records", "save", "unlock">>
    BY <1>8
  <2>2. \A what : Has(s, what) <=> what \in {"upsert", "records", "save", "unlock"}
    BY ONLY <1>8, PlanSteps
  <2>3. \A what : Has(t, what) <=> what \in {"records", "save", "unlock"}
    BY ONLY <2>1, PlanSteps
  <2>4. t \in Plans /\ t # <<>> /\ Head(t) = "records"
    BY ONLY <2>1 DEF Plans
  <2>6. Head(s) = "upsert"
    BY <2>1
  <2> QED
    BY ONLY <2>2, <2>3, <2>4, <2>6 DEF Orderly, Holds, Brings, Saves, Stores
<1>9. CASE s = <<"clear", "records", "save", "unlock">>
  <2>1. Head(s) = "clear" /\ t = <<"records", "save", "unlock">>
    BY <1>9
  <2>2. \A what : Has(s, what) <=> what \in {"clear", "records", "save", "unlock"}
    BY ONLY <1>9, PlanSteps
  <2>3. \A what : Has(t, what) <=> what \in {"records", "save", "unlock"}
    BY ONLY <2>1, PlanSteps
  <2>4. t \in Plans /\ t # <<>> /\ Head(t) = "records"
    BY ONLY <2>1 DEF Plans
  <2>5. <<"upsert">> \o t \in Plans
    <3>1. PICK u : u = <<"upsert", "records", "save", "unlock">>
      OBVIOUS
    <3>2. u \in Seq(Words) /\ u \in Plans /\ Head(u) = "upsert" /\ u # <<>> /\ Tail(u) = t
      BY ONLY <2>1, <3>1 DEF Plans, Words
    <3> QED
      BY ONLY <1>1, <3>1, <3>2
  <2>6. Head(s) = "clear"
    BY <2>1
  <2> QED
    BY ONLY <2>2, <2>3, <2>4, <2>6, <2>5 DEF Orderly, Holds, Brings, Saves, Stores
<1>10. CASE s = <<"merge", "lock", "records", "save", "unlock">>
  <2>1. Head(s) = "merge" /\ t = <<"lock", "records", "save", "unlock">>
    BY <1>10
  <2>2. \A what : Has(s, what) <=> what \in {"merge", "lock", "records", "save", "unlock"}
    BY ONLY <1>10, PlanSteps
  <2>3. \A what : Has(t, what) <=> what \in {"lock", "records", "save", "unlock"}
    BY ONLY <2>1, PlanSteps
  <2>4. t \in Plans /\ t # <<>> /\ Head(t) = "lock"
    BY ONLY <2>1 DEF Plans
  <2>5. <<"upsert">> \o t \in Plans
    <3>1. PICK u : u = <<"upsert", "lock", "records", "save", "unlock">>
      OBVIOUS
    <3>2. u \in Seq(Words) /\ u \in Plans /\ Head(u) = "upsert" /\ u # <<>> /\ Tail(u) = t
      BY ONLY <2>1, <3>1 DEF Plans, Words
    <3> QED
      BY ONLY <1>1, <3>1, <3>2
  <2>6. Head(s) = "merge"
    BY <2>1
  <2> QED
    BY ONLY <2>2, <2>3, <2>4, <2>6, <2>5 DEF Orderly, Holds, Brings, Saves, Stores
<1>11. CASE s = <<"upsertAlias", "lock", "records", "save", "unlock", "register", "reconcile", "refresh">>
  <2>1. Head(s) = "upsertAlias" /\ t = <<"lock", "records", "save", "unlock", "register", "reconcile", "refresh">>
    BY <1>11
  <2>2. \A what : Has(s, what) <=> what \in {"upsertAlias", "lock", "records", "save", "unlock", "register", "reconcile", "refresh"}
    BY ONLY <1>11, PlanSteps
  <2>3. \A what : Has(t, what) <=> what \in {"lock", "records", "save", "unlock", "register", "reconcile", "refresh"}
    BY ONLY <2>1, PlanSteps
  <2>4. t \in Plans /\ t # <<>> /\ Head(t) = "lock"
    BY ONLY <2>1 DEF Plans
  <2>6. Head(s) = "upsertAlias"
    BY <2>1
  <2> QED
    BY ONLY <2>2, <2>3, <2>4, <2>6 DEF Orderly, Holds, Brings, Saves, Stores
<1>12. CASE s = <<"lock", "records", "save", "unlock", "register", "reconcile", "refresh">>
  <2>1. Head(s) = "lock" /\ t = <<"records", "save", "unlock", "register", "reconcile", "refresh">>
    BY <1>12
  <2>2. \A what : Has(s, what) <=> what \in {"lock", "records", "save", "unlock", "register", "reconcile", "refresh"}
    BY ONLY <1>12, PlanSteps
  <2>3. \A what : Has(t, what) <=> what \in {"records", "save", "unlock", "register", "reconcile", "refresh"}
    BY ONLY <2>1, PlanSteps
  <2>4. t \in Plans /\ t # <<>> /\ Head(t) = "records"
    BY ONLY <2>1 DEF Plans
  <2>6. Head(s) = "lock"
    BY <2>1
  <2> QED
    BY ONLY <2>2, <2>3, <2>4, <2>6 DEF Orderly, Holds, Brings, Saves, Stores
<1>13. CASE s = <<"records", "save", "unlock", "register", "reconcile", "refresh">>
  <2>1. Head(s) = "records" /\ t = <<"save", "unlock", "register", "reconcile", "refresh">>
    BY <1>13
  <2>2. \A what : Has(s, what) <=> what \in {"records", "save", "unlock", "register", "reconcile", "refresh"}
    BY ONLY <1>13, PlanSteps
  <2>3. \A what : Has(t, what) <=> what \in {"save", "unlock", "register", "reconcile", "refresh"}
    BY ONLY <2>1, PlanSteps
  <2>4. t \in Plans /\ t # <<>> /\ Head(t) = "save"
    BY ONLY <2>1 DEF Plans
  <2>6. Head(s) = "records"
    BY <2>1
  <2> QED
    BY ONLY <2>2, <2>3, <2>4, <2>6 DEF Orderly, Holds, Brings, Saves, Stores
<1>14. CASE s = <<"save", "unlock", "register", "reconcile", "refresh">>
  <2>1. Head(s) = "save" /\ t = <<"unlock", "register", "reconcile", "refresh">>
    BY <1>14
  <2>2. \A what : Has(s, what) <=> what \in {"save", "unlock", "register", "reconcile", "refresh"}
    BY ONLY <1>14, PlanSteps
  <2>3. \A what : Has(t, what) <=> what \in {"unlock", "register", "reconcile", "refresh"}
    BY ONLY <2>1, PlanSteps
  <2>4. t \in Plans /\ t # <<>> /\ Head(t) = "unlock"
    BY ONLY <2>1 DEF Plans
  <2>6. Head(s) = "save"
    BY <2>1
  <2> QED
    BY ONLY <2>2, <2>3, <2>4, <2>6 DEF Orderly, Holds, Brings, Saves, Stores
<1>15. CASE s = <<"unlock", "register", "reconcile", "refresh">>
  <2>1. Head(s) = "unlock" /\ t = <<"register", "reconcile", "refresh">>
    BY <1>15
  <2>2. \A what : Has(s, what) <=> what \in {"unlock", "register", "reconcile", "refresh"}
    BY ONLY <1>15, PlanSteps
  <2>3. \A what : Has(t, what) <=> what \in {"register", "reconcile", "refresh"}
    BY ONLY <2>1, PlanSteps
  <2>4. t \in Plans /\ t # <<>> /\ Head(t) = "register"
    BY ONLY <2>1 DEF Plans
  <2>6. Head(s) = "unlock"
    BY <2>1
  <2> QED
    BY ONLY <2>2, <2>3, <2>4, <2>6 DEF Orderly, Holds, Brings, Saves, Stores
<1>16. CASE s = <<"upsertAlias", "register", "reconcile", "refresh">>
  <2>1. Head(s) = "upsertAlias" /\ t = <<"register", "reconcile", "refresh">>
    BY <1>16
  <2>2. \A what : Has(s, what) <=> what \in {"upsertAlias", "register", "reconcile", "refresh"}
    BY ONLY <1>16, PlanSteps
  <2>3. \A what : Has(t, what) <=> what \in {"register", "reconcile", "refresh"}
    BY ONLY <2>1, PlanSteps
  <2>4. t \in Plans /\ t # <<>> /\ Head(t) = "register"
    BY ONLY <2>1 DEF Plans
  <2>6. Head(s) = "upsertAlias"
    BY <2>1
  <2> QED
    BY ONLY <2>2, <2>3, <2>4, <2>6 DEF Orderly, Holds, Brings, Saves, Stores
<1>17. CASE s = <<"register", "reconcile", "refresh">>
  <2>1. Head(s) = "register" /\ t = <<"reconcile", "refresh">>
    BY <1>17
  <2>2. \A what : Has(s, what) <=> what \in {"register", "reconcile", "refresh"}
    BY ONLY <1>17, PlanSteps
  <2>3. \A what : Has(t, what) <=> what \in {"reconcile", "refresh"}
    BY ONLY <2>1, PlanSteps
  <2>4. t \in Plans /\ t # <<>> /\ Head(t) = "reconcile"
    BY ONLY <2>1 DEF Plans
  <2>6. Head(s) = "register"
    BY <2>1
  <2> QED
    BY ONLY <2>2, <2>3, <2>4, <2>6 DEF Orderly, Holds, Brings, Saves, Stores
<1>18. CASE s = <<"reconcile", "refresh">>
  <2>1. Head(s) = "reconcile" /\ t = <<"refresh">>
    BY <1>18
  <2>2. \A what : Has(s, what) <=> what \in {"reconcile", "refresh"}
    BY ONLY <1>18, PlanSteps
  <2>3. \A what : Has(t, what) <=> what \in {"refresh"}
    BY ONLY <2>1, PlanSteps
  <2>4. t \in Plans /\ t # <<>> /\ Head(t) = "refresh"
    BY ONLY <2>1 DEF Plans
  <2>5. <<"upsert">> \o t \in Plans
    <3>1. PICK u : u = <<"upsert", "refresh">>
      OBVIOUS
    <3>2. u \in Seq(Words) /\ u \in Plans /\ Head(u) = "upsert" /\ u # <<>> /\ Tail(u) = t
      BY ONLY <2>1, <3>1 DEF Plans, Words
    <3> QED
      BY ONLY <1>1, <3>1, <3>2
  <2>6. Head(s) = "reconcile"
    BY <2>1
  <2> QED
    BY ONLY <2>2, <2>3, <2>4, <2>6, <2>5 DEF Orderly, Holds, Brings, Saves, Stores
<1>19. CASE s = <<"upsert", "refresh">>
  <2>1. Head(s) = "upsert" /\ t = <<"refresh">>
    BY <1>19
  <2>2. \A what : Has(s, what) <=> what \in {"upsert", "refresh"}
    BY ONLY <1>19, PlanSteps
  <2>3. \A what : Has(t, what) <=> what \in {"refresh"}
    BY ONLY <2>1, PlanSteps
  <2>4. t \in Plans /\ t # <<>> /\ Head(t) = "refresh"
    BY ONLY <2>1 DEF Plans
  <2>6. Head(s) = "upsert"
    BY <2>1
  <2> QED
    BY ONLY <2>2, <2>3, <2>4, <2>6 DEF Orderly, Holds, Brings, Saves, Stores
<1>20. CASE s = <<"refresh">>
  <2>1. Head(s) = "refresh" /\ t = <<>>
    BY <1>20
  <2>2. \A what : Has(s, what) <=> what \in {"refresh"}
    BY ONLY <1>20, PlanSteps
  <2>3. \A what : Has(t, what) <=> what \in {}
    BY ONLY <2>1, PlanSteps
  <2>4. t \in Plans /\ t = <<>>
    BY ONLY <2>1 DEF Plans
  <2>5. <<"upsert">> \o t \in Plans
    <3>1. PICK u : u = <<"upsert">>
      OBVIOUS
    <3>2. u \in Seq(Words) /\ u \in Plans /\ Head(u) = "upsert" /\ u # <<>> /\ Tail(u) = t
      BY ONLY <2>1, <3>1 DEF Plans, Words
    <3> QED
      BY ONLY <1>1, <3>1, <3>2
  <2>6. Head(s) = "refresh"
    BY <2>1
  <2> QED
    BY ONLY <2>2, <2>3, <2>4, <2>6, <2>5 DEF Orderly, Holds, Brings, Saves, Stores
<1>21. CASE s = <<"create">>
  <2>1. Head(s) = "create" /\ t = <<>>
    BY <1>21
  <2>2. \A what : Has(s, what) <=> what \in {"create"}
    BY ONLY <1>21, PlanSteps
  <2>3. \A what : Has(t, what) <=> what \in {}
    BY ONLY <2>1, PlanSteps
  <2>4. t \in Plans /\ t = <<>>
    BY ONLY <2>1 DEF Plans
  <2>6. Head(s) = "create"
    BY <2>1
  <2> QED
    BY ONLY <2>2, <2>3, <2>4, <2>6 DEF Orderly, Holds, Brings, Saves, Stores
<1>22. CASE s = <<"update">>
  <2>1. Head(s) = "update" /\ t = <<>>
    BY <1>22
  <2>2. \A what : Has(s, what) <=> what \in {"update"}
    BY ONLY <1>22, PlanSteps
  <2>3. \A what : Has(t, what) <=> what \in {}
    BY ONLY <2>1, PlanSteps
  <2>4. t \in Plans /\ t = <<>>
    BY ONLY <2>1 DEF Plans
  <2>6. Head(s) = "update"
    BY <2>1
  <2> QED
    BY ONLY <2>2, <2>3, <2>4, <2>6 DEF Orderly, Holds, Brings, Saves, Stores
<1>23. CASE s = <<"patch">>
  <2>1. Head(s) = "patch" /\ t = <<>>
    BY <1>23
  <2>2. \A what : Has(s, what) <=> what \in {"patch"}
    BY ONLY <1>23, PlanSteps
  <2>3. \A what : Has(t, what) <=> what \in {}
    BY ONLY <2>1, PlanSteps
  <2>4. t \in Plans /\ t = <<>>
    BY ONLY <2>1 DEF Plans
  <2>6. Head(s) = "patch"
    BY <2>1
  <2> QED
    BY ONLY <2>2, <2>3, <2>4, <2>6 DEF Orderly, Holds, Brings, Saves, Stores
<1>24. CASE s = <<"upsertAlias", "lock", "records", "save", "unlock">>
  <2>1. Head(s) = "upsertAlias" /\ t = <<"lock", "records", "save", "unlock">>
    BY <1>24
  <2>2. \A what : Has(s, what) <=> what \in {"upsertAlias", "lock", "records", "save", "unlock"}
    BY ONLY <1>24, PlanSteps
  <2>3. \A what : Has(t, what) <=> what \in {"lock", "records", "save", "unlock"}
    BY ONLY <2>1, PlanSteps
  <2>4. t \in Plans /\ t # <<>> /\ Head(t) = "lock"
    BY ONLY <2>1 DEF Plans
  <2>6. Head(s) = "upsertAlias"
    BY <2>1
  <2> QED
    BY ONLY <2>2, <2>3, <2>4, <2>6 DEF Orderly, Holds, Brings, Saves, Stores
<1>25. CASE s = <<"upsertAlias">>
  <2>1. Head(s) = "upsertAlias" /\ t = <<>>
    BY <1>25
  <2>2. \A what : Has(s, what) <=> what \in {"upsertAlias"}
    BY ONLY <1>25, PlanSteps
  <2>3. \A what : Has(t, what) <=> what \in {}
    BY ONLY <2>1, PlanSteps
  <2>4. t \in Plans /\ t = <<>>
    BY ONLY <2>1 DEF Plans
  <2>6. Head(s) = "upsertAlias"
    BY <2>1
  <2> QED
    BY ONLY <2>2, <2>3, <2>4, <2>6 DEF Orderly, Holds, Brings, Saves, Stores
<1>26. CASE s = <<"unregister", "delete", "removeEntry", "lock", "records", "save", "unlock">>
  <2>1. Head(s) = "unregister" /\ t = <<"delete", "removeEntry", "lock", "records", "save", "unlock">>
    BY <1>26
  <2>2. \A what : Has(s, what) <=> what \in {"unregister", "delete", "removeEntry", "lock", "records", "save", "unlock"}
    BY ONLY <1>26, PlanSteps
  <2>3. \A what : Has(t, what) <=> what \in {"delete", "removeEntry", "lock", "records", "save", "unlock"}
    BY ONLY <2>1, PlanSteps
  <2>4. t \in Plans /\ t # <<>> /\ Head(t) = "delete"
    BY ONLY <2>1 DEF Plans
  <2>6. Head(s) = "unregister"
    BY <2>1
  <2> QED
    BY ONLY <2>2, <2>3, <2>4, <2>6 DEF Orderly, Holds, Brings, Saves, Stores
<1>27. CASE s = <<"delete", "removeEntry", "lock", "records", "save", "unlock">>
  <2>1. Head(s) = "delete" /\ t = <<"removeEntry", "lock", "records", "save", "unlock">>
    BY <1>27
  <2>2. \A what : Has(s, what) <=> what \in {"delete", "removeEntry", "lock", "records", "save", "unlock"}
    BY ONLY <1>27, PlanSteps
  <2>3. \A what : Has(t, what) <=> what \in {"removeEntry", "lock", "records", "save", "unlock"}
    BY ONLY <2>1, PlanSteps
  <2>4. t \in Plans /\ t # <<>> /\ Head(t) = "removeEntry"
    BY ONLY <2>1 DEF Plans
  <2>6. Head(s) = "delete"
    BY <2>1
  <2> QED
    BY ONLY <2>2, <2>3, <2>4, <2>6 DEF Orderly, Holds, Brings, Saves, Stores
<1>28. CASE s = <<"removeEntry", "lock", "records", "save", "unlock">>
  <2>1. Head(s) = "removeEntry" /\ t = <<"lock", "records", "save", "unlock">>
    BY <1>28
  <2>2. \A what : Has(s, what) <=> what \in {"removeEntry", "lock", "records", "save", "unlock"}
    BY ONLY <1>28, PlanSteps
  <2>3. \A what : Has(t, what) <=> what \in {"lock", "records", "save", "unlock"}
    BY ONLY <2>1, PlanSteps
  <2>4. t \in Plans /\ t # <<>> /\ Head(t) = "lock"
    BY ONLY <2>1 DEF Plans
  <2>6. Head(s) = "removeEntry"
    BY <2>1
  <2> QED
    BY ONLY <2>2, <2>3, <2>4, <2>6 DEF Orderly, Holds, Brings, Saves, Stores
<1> QED
  BY <1>2, <1>3, <1>4, <1>5, <1>6, <1>7, <1>8, <1>9, <1>10, <1>11, <1>12, <1>13, <1>14, <1>15, <1>16, <1>17, <1>18, <1>19, <1>20, <1>21, <1>22, <1>23, <1>24, <1>25, <1>26, <1>27, <1>28 DEF Plans

(* A concatenation is known by its length and its elements.                *)
LEMMA Joined ==
  ASSUME NEW u \in Seq(Words), NEW v \in Seq(Words), NEW w \in Seq(Words),
         Len(w) = Len(u) + Len(v),
         \A i \in 1 .. Len(w) : w[i] = IF i <= Len(u) THEN u[i] ELSE v[i - Len(u)]
  PROVE  u \o v = w
<1>1. /\ u \o v \in Seq(Words) /\ Len(u \o v) = Len(u) + Len(v)
      /\ \A i \in 1 .. Len(u) + Len(v) : (u \o v)[i] = IF i <= Len(u) THEN u[i] ELSE v[i - Len(u)]
  BY ConcatProperties
<1>2. \A i \in 1 .. Len(u \o v) : (u \o v)[i] = w[i]
  BY <1>1
<1> QED
  BY <1>1, <1>2, SeqEqual

(* The plans operations start with.                                        *)
LEMMA FirstPlans ==
  /\ <<"upsert">> \o Persist = <<"upsert", "lock", "records", "save", "unlock">>
  /\ <<"merge">> \o Persist = <<"merge", "lock", "records", "save", "unlock">>
  /\ <<"upsertAlias">> \o Persist = <<"upsertAlias", "lock", "records", "save", "unlock">>
  /\ RemoveSteps = <<"delete", "removeEntry", "lock", "records", "save", "unlock">>
  /\ <<"unregister">> \o RemoveSteps
       = <<"unregister", "delete", "removeEntry", "lock", "records", "save", "unlock">>
  /\ <<"upsertAlias">> \o <<"register", "reconcile", "refresh">>
       = <<"upsertAlias", "register", "reconcile", "refresh">>
  /\ <<"upsertAlias", "lock", "records", "save", "unlock">> \o <<"register", "reconcile", "refresh">>
       = <<"upsertAlias", "lock", "records", "save", "unlock", "register", "reconcile", "refresh">>
<1>1. ASSUME NEW u \in Seq(Words), NEW v \in Seq(Words), NEW w \in Seq(Words), NEW a,
             Len(v) + 1 = Len(w), u = <<a>>, w[1] = a, \A i \in 1 .. Len(v) : w[i + 1] = v[i]
      PROVE  u \o v = w
  <2>1. Len(u) = 1 /\ u[1] = a
    BY <1>1
  <2>2. ASSUME NEW i \in 1 .. Len(w) PROVE w[i] = IF i <= Len(u) THEN u[i] ELSE v[i - Len(u)]
    <3>1. CASE i = 1
      BY <1>1, <2>1, <3>1
    <3>2. CASE i # 1
      <4>1. i - 1 \in 1 .. Len(v) /\ (i - 1) + 1 = i
        BY <1>1, <3>2
      <4> QED
        BY <1>1, <2>1, <3>2, <4>1
    <3> QED
      BY <3>1, <3>2
  <2> QED
    BY <1>1, <2>1, <2>2, Joined
<1>2. Persist \in Seq(Words) /\ Persist = <<"lock", "records", "save", "unlock">>
  BY DEF Persist, Words
<1>3. <<"upsert">> \o Persist = <<"upsert", "lock", "records", "save", "unlock">>
  <2>1. PICK u : u = <<"upsert">>
    OBVIOUS
  <2>2. PICK w : w = <<"upsert", "lock", "records", "save", "unlock">>
    OBVIOUS
  <2>3. u \in Seq(Words) /\ w \in Seq(Words)
    BY ONLY <2>1, <2>2 DEF Words
  <2>4. Len(Persist) + 1 = Len(w) /\ w[1] = "upsert" /\ \A i \in 1 .. Len(Persist) : w[i + 1] = Persist[i]
    BY ONLY <1>2, <2>2
  <2>5. u \o Persist = w
    BY <1>1, <1>2, <2>1, <2>3, <2>4
  <2> QED
    BY <2>1, <2>2, <2>5
<1>4. <<"merge">> \o Persist = <<"merge", "lock", "records", "save", "unlock">>
  <2>1. PICK u : u = <<"merge">>
    OBVIOUS
  <2>2. PICK w : w = <<"merge", "lock", "records", "save", "unlock">>
    OBVIOUS
  <2>3. u \in Seq(Words) /\ w \in Seq(Words)
    BY ONLY <2>1, <2>2 DEF Words
  <2>4. Len(Persist) + 1 = Len(w) /\ w[1] = "merge" /\ \A i \in 1 .. Len(Persist) : w[i + 1] = Persist[i]
    BY ONLY <1>2, <2>2
  <2>5. u \o Persist = w
    BY <1>1, <1>2, <2>1, <2>3, <2>4
  <2> QED
    BY <2>1, <2>2, <2>5
<1>5. <<"upsertAlias">> \o Persist = <<"upsertAlias", "lock", "records", "save", "unlock">>
  <2>1. PICK u : u = <<"upsertAlias">>
    OBVIOUS
  <2>2. PICK w : w = <<"upsertAlias", "lock", "records", "save", "unlock">>
    OBVIOUS
  <2>3. u \in Seq(Words) /\ w \in Seq(Words)
    BY ONLY <2>1, <2>2 DEF Words
  <2>4. Len(Persist) + 1 = Len(w) /\ w[1] = "upsertAlias" /\ \A i \in 1 .. Len(Persist) : w[i + 1] = Persist[i]
    BY ONLY <1>2, <2>2
  <2>5. u \o Persist = w
    BY <1>1, <1>2, <2>1, <2>3, <2>4
  <2> QED
    BY <2>1, <2>2, <2>5
<1>6. RemoveSteps = <<"delete", "removeEntry", "lock", "records", "save", "unlock">>
  <2>1. PICK u : u = <<"delete", "removeEntry">>
    OBVIOUS
  <2>2. PICK w : w = <<"delete", "removeEntry", "lock", "records", "save", "unlock">>
    OBVIOUS
  <2>3. u \in Seq(Words) /\ w \in Seq(Words)
    BY ONLY <2>1, <2>2 DEF Words
  <2>4. /\ Len(w) = Len(u) + Len(Persist)
        /\ \A i \in 1 .. Len(w) : w[i] = IF i <= Len(u) THEN u[i] ELSE Persist[i - Len(u)]
    BY ONLY <1>2, <2>1, <2>2
  <2>5. u \o Persist = w
    BY ONLY <1>2, <2>3, <2>4, Joined
  <2> QED
    BY <2>1, <2>2, <2>5 DEF RemoveSteps
<1>7. RemoveSteps \in Seq(Words)
  BY ONLY <1>6 DEF Words
<1>8. <<"unregister">> \o RemoveSteps = <<"unregister", "delete", "removeEntry", "lock", "records", "save", "unlock">>
  <2>1. PICK u : u = <<"unregister">>
    OBVIOUS
  <2>2. PICK w : w = <<"unregister", "delete", "removeEntry", "lock", "records", "save", "unlock">>
    OBVIOUS
  <2>3. u \in Seq(Words) /\ w \in Seq(Words)
    BY ONLY <2>1, <2>2 DEF Words
  <2>4. Len(RemoveSteps) + 1 = Len(w) /\ w[1] = "unregister" /\ \A i \in 1 .. Len(RemoveSteps) : w[i + 1] = RemoveSteps[i]
    BY ONLY <1>6, <1>7, <2>2
  <2>5. u \o RemoveSteps = w
    BY <1>1, <1>6, <1>7, <2>1, <2>3, <2>4
  <2> QED
    BY <2>1, <2>2, <2>5
<1>9. PICK r : r = <<"register", "reconcile", "refresh">>
  OBVIOUS
<1>10. r \in Seq(Words)
  BY ONLY <1>9 DEF Words
<1>11. <<"upsertAlias">> \o r = <<"upsertAlias", "register", "reconcile", "refresh">>
  <2>1. PICK u : u = <<"upsertAlias">>
    OBVIOUS
  <2>2. PICK w : w = <<"upsertAlias", "register", "reconcile", "refresh">>
    OBVIOUS
  <2>3. u \in Seq(Words) /\ w \in Seq(Words)
    BY ONLY <2>1, <2>2 DEF Words
  <2>4. Len(r) + 1 = Len(w) /\ w[1] = "upsertAlias" /\ \A i \in 1 .. Len(r) : w[i + 1] = r[i]
    BY ONLY <1>9, <1>10, <2>2
  <2>5. u \o r = w
    BY <1>1, <1>9, <1>10, <2>1, <2>3, <2>4
  <2> QED
    BY <2>1, <2>2, <2>5
<1>12. <<"upsertAlias", "lock", "records", "save", "unlock">> \o r
         = <<"upsertAlias", "lock", "records", "save", "unlock", "register", "reconcile", "refresh">>
  <2>1. PICK w : w = <<"upsertAlias", "lock", "records", "save", "unlock">>
    OBVIOUS
  <2>2. PICK x : x = <<"upsertAlias", "lock", "records", "save", "unlock", "register", "reconcile", "refresh">>
    OBVIOUS
  <2>3. w \in Seq(Words) /\ x \in Seq(Words)
    BY ONLY <2>1, <2>2 DEF Words
  <2>4. /\ Len(x) = Len(w) + Len(r)
        /\ \A i \in 1 .. Len(x) : x[i] = IF i <= Len(w) THEN w[i] ELSE r[i - Len(w)]
    BY ONLY <1>9, <2>1, <2>2
  <2>5. w \o r = x
    BY ONLY <1>10, <2>3, <2>4, Joined
  <2> QED
    BY <2>1, <2>2, <2>5
<1> QED
  BY <1>3, <1>4, <1>5, <1>6, <1>8, <1>9, <1>11, <1>12

(* A plan an operation starts with does not begin with a save.             *)
Fresh(t, head, holds, brings) ==
  /\ t \in Plans /\ t # <<>> /\ Head(t) = head
  /\ Holds(t) = holds /\ Brings(t) = brings

(* What remains once a record is stored.                                   *)
Rest(y) == If(y, <<"register", "reconcile", "refresh">>)

(* ... for each of the operations.                                         *)
LEMMA StartPlans ==
  ASSUME NEW x \in BOOLEAN, NEW y \in BOOLEAN
  PROVE  /\ Fresh(<<"upsert">> \o If(x, Persist), "upsert", FALSE, TRUE)
         /\ x => Saves(<<"upsert">> \o If(x, Persist))
         /\ Fresh(<<"merge">> \o Persist, "merge", FALSE, FALSE)
         /\ Saves(<<"merge">> \o Persist)
         /\ Fresh(<<"clear", "records", "save", "unlock">>, "clear", TRUE, FALSE)
         /\ Saves(<<"clear", "records", "save", "unlock">>)
         /\ Fresh(<<"unregister">> \o RemoveSteps, "unregister", FALSE, FALSE)
         /\ Fresh(RemoveSteps, "delete", FALSE, FALSE)
         /\ Fresh(<<"create">>, "create", FALSE, FALSE)
         /\ Fresh(<<"update">>, "update", FALSE, FALSE)
         /\ Fresh(<<"patch">>, "patch", FALSE, FALSE)
         /\ Fresh(<<"upsertAlias">> \o If(x, Persist) \o Rest(y), "upsertAlias", FALSE, TRUE)
         /\ Rest(y) \in Plans /\ ~Holds(Rest(y)) /\ ~Brings(Rest(y))
         /\ \A what : what # "register" => ~Starts(Rest(y), what)
         /\ <<>> \in Plans /\ ~Holds(<<>>) /\ ~Brings(<<>>) /\ ~Saves(<<>>)
         /\ \A what : ~Has(<<>>, what) /\ ~Starts(<<>>, what)
<1>1. ASSUME NEW t, t = <<"upsert">>
      PROVE  Fresh(t, "upsert", FALSE, TRUE)
  <2>1. t \in Plans /\ t # <<>> /\ Head(t) = "upsert"
    BY <1>1 DEF Plans
  <2>2. \A what : Has(t, what) <=> what \in {"upsert"}
    BY ONLY <1>1, PlanSteps
  <2> QED
    BY ONLY <2>1, <2>2 DEF Fresh, Holds, Brings, Saves
<1>2. ASSUME NEW t, t = <<"upsert", "lock", "records", "save", "unlock">>
      PROVE  Fresh(t, "upsert", FALSE, TRUE) /\ Saves(t)
  <2>1. t \in Plans /\ t # <<>> /\ Head(t) = "upsert"
    BY <1>2 DEF Plans
  <2>2. \A what : Has(t, what) <=> what \in {"upsert", "lock", "records", "save", "unlock"}
    BY ONLY <1>2, PlanSteps
  <2> QED
    BY ONLY <2>1, <2>2 DEF Fresh, Holds, Brings, Saves
<1>3. ASSUME NEW t, t = <<"merge", "lock", "records", "save", "unlock">>
      PROVE  Fresh(t, "merge", FALSE, FALSE) /\ Saves(t)
  <2>1. t \in Plans /\ t # <<>> /\ Head(t) = "merge"
    BY <1>3 DEF Plans
  <2>2. \A what : Has(t, what) <=> what \in {"merge", "lock", "records", "save", "unlock"}
    BY ONLY <1>3, PlanSteps
  <2> QED
    BY ONLY <2>1, <2>2 DEF Fresh, Holds, Brings, Saves
<1>4. ASSUME NEW t, t = <<"clear", "records", "save", "unlock">>
      PROVE  Fresh(t, "clear", TRUE, FALSE) /\ Saves(t)
  <2>1. t \in Plans /\ t # <<>> /\ Head(t) = "clear"
    BY <1>4 DEF Plans
  <2>2. \A what : Has(t, what) <=> what \in {"clear", "records", "save", "unlock"}
    BY ONLY <1>4, PlanSteps
  <2> QED
    BY ONLY <2>1, <2>2 DEF Fresh, Holds, Brings, Saves
<1>5. ASSUME NEW t, t = <<"unregister", "delete", "removeEntry", "lock", "records", "save", "unlock">>
      PROVE  Fresh(t, "unregister", FALSE, FALSE)
  <2>1. t \in Plans /\ t # <<>> /\ Head(t) = "unregister"
    BY <1>5 DEF Plans
  <2>2. \A what : Has(t, what) <=> what \in {"unregister", "delete", "removeEntry", "lock", "records", "save", "unlock"}
    BY ONLY <1>5, PlanSteps
  <2> QED
    BY ONLY <2>1, <2>2 DEF Fresh, Holds, Brings, Saves
<1>6. ASSUME NEW t, t = <<"delete", "removeEntry", "lock", "records", "save", "unlock">>
      PROVE  Fresh(t, "delete", FALSE, FALSE)
  <2>1. t \in Plans /\ t # <<>> /\ Head(t) = "delete"
    BY <1>6 DEF Plans
  <2>2. \A what : Has(t, what) <=> what \in {"delete", "removeEntry", "lock", "records", "save", "unlock"}
    BY ONLY <1>6, PlanSteps
  <2> QED
    BY ONLY <2>1, <2>2 DEF Fresh, Holds, Brings, Saves
<1>7. ASSUME NEW t, t = <<"create">>
      PROVE  Fresh(t, "create", FALSE, FALSE)
  <2>1. t \in Plans /\ t # <<>> /\ Head(t) = "create"
    BY <1>7 DEF Plans
  <2>2. \A what : Has(t, what) <=> what \in {"create"}
    BY ONLY <1>7, PlanSteps
  <2> QED
    BY ONLY <2>1, <2>2 DEF Fresh, Holds, Brings, Saves
<1>8. ASSUME NEW t, t = <<"update">>
      PROVE  Fresh(t, "update", FALSE, FALSE)
  <2>1. t \in Plans /\ t # <<>> /\ Head(t) = "update"
    BY <1>8 DEF Plans
  <2>2. \A what : Has(t, what) <=> what \in {"update"}
    BY ONLY <1>8, PlanSteps
  <2> QED
    BY ONLY <2>1, <2>2 DEF Fresh, Holds, Brings, Saves
<1>9. ASSUME NEW t, t = <<"patch">>
      PROVE  Fresh(t, "patch", FALSE, FALSE)
  <2>1. t \in Plans /\ t # <<>> /\ Head(t) = "patch"
    BY <1>9 DEF Plans
  <2>2. \A what : Has(t, what) <=> what \in {"patch"}
    BY ONLY <1>9, PlanSteps
  <2> QED
    BY ONLY <2>1, <2>2 DEF Fresh, Holds, Brings, Saves
<1>10. ASSUME NEW t, t = <<"upsertAlias">>
      PROVE  Fresh(t, "upsertAlias", FALSE, TRUE)
  <2>1. t \in Plans /\ t # <<>> /\ Head(t) = "upsertAlias"
    BY <1>10 DEF Plans
  <2>2. \A what : Has(t, what) <=> what \in {"upsertAlias"}
    BY ONLY <1>10, PlanSteps
  <2> QED
    BY ONLY <2>1, <2>2 DEF Fresh, Holds, Brings, Saves
<1>11. ASSUME NEW t, t = <<"upsertAlias", "lock", "records", "save", "unlock">>
      PROVE  Fresh(t, "upsertAlias", FALSE, TRUE)
  <2>1. t \in Plans /\ t # <<>> /\ Head(t) = "upsertAlias"
    BY <1>11 DEF Plans
  <2>2. \A what : Has(t, what) <=> what \in {"upsertAlias", "lock", "records", "save", "unlock"}
    BY ONLY <1>11, PlanSteps
  <2> QED
    BY ONLY <2>1, <2>2 DEF Fresh, Holds, Brings, Saves
<1>12. ASSUME NEW t, t = <<"upsertAlias", "register", "reconcile", "refresh">>
      PROVE  Fresh(t, "upsertAlias", FALSE, TRUE)
  <2>1. t \in Plans /\ t # <<>> /\ Head(t) = "upsertAlias"
    BY <1>12 DEF Plans
  <2>2. \A what : Has(t, what) <=> what \in {"upsertAlias", "register", "reconcile", "refresh"}
    BY ONLY <1>12, PlanSteps
  <2> QED
    BY ONLY <2>1, <2>2 DEF Fresh, Holds, Brings, Saves
<1>13. ASSUME NEW t, t = <<"upsertAlias", "lock", "records", "save", "unlock", "register", "reconcile", "refresh">>
      PROVE  Fresh(t, "upsertAlias", FALSE, TRUE)
  <2>1. t \in Plans /\ t # <<>> /\ Head(t) = "upsertAlias"
    BY <1>13 DEF Plans
  <2>2. \A what : Has(t, what) <=> what \in {"upsertAlias", "lock", "records", "save", "unlock", "register", "reconcile", "refresh"}
    BY ONLY <1>13, PlanSteps
  <2> QED
    BY ONLY <2>1, <2>2 DEF Fresh, Holds, Brings, Saves
<1>14. ASSUME NEW t, t = <<"register", "reconcile", "refresh">>
      PROVE  Fresh(t, "register", FALSE, FALSE)
  <2>1. t \in Plans /\ t # <<>> /\ Head(t) = "register"
    BY <1>14 DEF Plans
  <2>2. \A what : Has(t, what) <=> what \in {"register", "reconcile", "refresh"}
    BY ONLY <1>14, PlanSteps
  <2> QED
    BY ONLY <2>1, <2>2 DEF Fresh, Holds, Brings, Saves
<1>15. \A what : ~Has(<<>>, what) /\ ~Starts(<<>>, what)
  BY PlanSteps DEF Starts
<1>16. <<>> \in Plans /\ ~Holds(<<>>) /\ ~Brings(<<>>) /\ ~Saves(<<>>)
  BY <1>15 DEF Plans, Holds, Brings, Saves
<1>17. /\ <<"upsert">> \o <<>> = <<"upsert">> /\ <<"upsertAlias">> \o <<>> = <<"upsertAlias">>
       /\ <<"upsertAlias", "lock", "records", "save", "unlock">> \o <<>>
            = <<"upsertAlias", "lock", "records", "save", "unlock">>
  <2>1. PICK u, v, w : /\ u = <<"upsert">> /\ v = <<"upsertAlias">>
                       /\ w = <<"upsertAlias", "lock", "records", "save", "unlock">>
    OBVIOUS
  <2>2. u \in Seq(Words) /\ v \in Seq(Words) /\ w \in Seq(Words)
    BY ONLY <2>1 DEF Words
  <2>3. u \o <<>> = u /\ v \o <<>> = v /\ w \o <<>> = w
    BY ONLY <2>2, ConcatEmptySeq
  <2> QED
    BY ONLY <2>1, <2>3
<1>18. /\ Fresh(<<"upsert">> \o If(x, Persist), "upsert", FALSE, TRUE)
       /\ x => Saves(<<"upsert">> \o If(x, Persist))
  <2>1. CASE x = TRUE
    <3>1. If(x, Persist) = Persist
      BY <2>1 DEF If
    <3> QED
      BY ONLY <1>2, <3>1, FirstPlans
  <2>2. CASE x = FALSE
    <3>1. If(x, Persist) = <<>>
      BY <2>2 DEF If
    <3> QED
      BY ONLY <1>1, <1>17, <2>2, <3>1
  <2> QED
    BY <2>1, <2>2
<1>19. Fresh(<<"upsertAlias">> \o If(x, Persist) \o Rest(y), "upsertAlias", FALSE, TRUE)
  <2>1. PICK v : v = <<"upsertAlias">> \o If(x, Persist)
    OBVIOUS
  <2>2. v = IF x THEN <<"upsertAlias", "lock", "records", "save", "unlock">> ELSE <<"upsertAlias">>
    <3>1. CASE x = TRUE
      <4>1. If(x, Persist) = Persist
        BY <3>1 DEF If
      <4> QED
        BY ONLY <2>1, <3>1, <4>1, FirstPlans
    <3>2. CASE x = FALSE
      <4>1. If(x, Persist) = <<>>
        BY <3>2 DEF If
      <4> QED
        BY ONLY <1>17, <2>1, <3>2, <4>1
    <3> QED
      BY <3>1, <3>2
  <2>3. CASE y = TRUE
    <3>1. Rest(y) = <<"register", "reconcile", "refresh">>
      BY <2>3 DEF If, Rest
    <3>2. Fresh(v \o <<"register", "reconcile", "refresh">>, "upsertAlias", FALSE, TRUE)
      BY ONLY <1>12, <1>13, <2>2, FirstPlans
    <3> QED
      BY ONLY <2>1, <3>1, <3>2
  <2>4. CASE y = FALSE
    <3>1. Rest(y) = <<>>
      BY <2>4 DEF If, Rest
    <3>2. Fresh(v \o <<>>, "upsertAlias", FALSE, TRUE)
      BY ONLY <1>10, <1>11, <1>17, <2>2
    <3> QED
      BY ONLY <2>1, <3>1, <3>2
  <2> QED
    BY <2>3, <2>4
<1>20. /\ Rest(y) \in Plans /\ ~Holds(Rest(y)) /\ ~Brings(Rest(y))
       /\ \A what : what # "register" => ~Starts(Rest(y), what)
  <2>1. CASE y = TRUE
    <3>1. Rest(y) = <<"register", "reconcile", "refresh">>
      BY <2>1 DEF If, Rest
    <3>2. Fresh(Rest(y), "register", FALSE, FALSE)
      BY ONLY <1>14, <3>1
    <3> QED
      BY ONLY <3>2 DEF Fresh, Starts
  <2>2. CASE y = FALSE
    <3>1. Rest(y) = <<>>
      BY <2>2 DEF If, Rest
    <3> QED
      BY ONLY <1>15, <1>16, <3>1
  <2> QED
    BY <2>1, <2>2
<1>21. /\ Fresh(<<"merge">> \o Persist, "merge", FALSE, FALSE)
       /\ Saves(<<"merge">> \o Persist)
       /\ Fresh(<<"unregister">> \o RemoveSteps, "unregister", FALSE, FALSE)
       /\ Fresh(RemoveSteps, "delete", FALSE, FALSE)
  BY ONLY <1>3, <1>5, <1>6, FirstPlans
<1>22. /\ Fresh(<<"create">>, "create", FALSE, FALSE)
       /\ Fresh(<<"update">>, "update", FALSE, FALSE)
       /\ Fresh(<<"patch">>, "patch", FALSE, FALSE)
       /\ Fresh(<<"clear", "records", "save", "unlock">>, "clear", TRUE, FALSE)
       /\ Saves(<<"clear", "records", "save", "unlock">>)
  BY ONLY <1>4, <1>7, <1>8, <1>9
<1> QED
  BY ONLY <1>15, <1>16, <1>18, <1>19, <1>20, <1>21, <1>22

-----------------------------------------------------------------------------
(* What a step of one caller may do *)

(* c goes from plan s to plan t; nobody else moves. *)
Moves(c, s, t) ==
  /\ calls' \in [Callers -> Calls]
  /\ calls[c].steps = s /\ calls'[c].steps = t
  /\ DatedAuth(calls'[c].snap)
  /\ Stores(t) => calls'[c].snap.there
  /\ \A d \in Callers \ {c} : calls'[d] = calls[d]

LockMove(c, s, t) ==
  \/ mu' = mu /\ (Holds(t) <=> Holds(s))
  \/ mu = NoModel /\ mu' = c /\ Holds(t)
  \/ Holds(s) /\ mu' = NoModel /\ ~Holds(t)

ListingMove(s, t) ==
  \/ auth'.there \/ exposed' \/ ~bound'
  \/ /\ bound' = bound /\ ~auth.there /\ (exposed => exposed')
     /\ Brings(t) => Brings(s)
     /\ pick'.snap = pick.snap
  \/ ~Carried /\ ~Brings(t) /\ pick'.snap = pick.snap

EntryMove(s, t) ==
  \/ auth'.there \/ exposed' \/ ~sched'.bound \/ Starts(t, "removeEntry")
  \/ /\ sched'.bound = sched.bound /\ ~auth.there /\ (exposed => exposed')
     /\ ~Starts(s, "removeEntry")
  \/ sched'.bound = bound /\ ~auth.there /\ (exposed => exposed') /\ Brings(s)

DiskMove(c, s, t) ==
  \/ diskBehind' \/ Saves(t)
  \/ /\ diskBehind' = diskBehind /\ saved' = saved /\ Records(auth)' = Records(auth)
     /\ now' = now
     /\ Saves(s) => Saves(t)
     /\ ~Starts(s, "save") /\ ~Starts(t, "save")
  \/ Starts(t, "save") /\ Live(calls[c].records)' = Records(auth)'
  \/ /\ Starts(s, "save") /\ Holds(s) /\ ~Saves(s) /\ ~Starts(t, "save")
     /\ diskBehind' = diskBehind /\ saved' = calls[c].records
     /\ Records(auth)' = Records(auth) /\ now' = now

ColdMove(s, t) ==
  \/ Starts(t, "clear")
  \/ off' => ColdAuth(auth')
  \/ /\ off' = off /\ ~Starts(s, "clear")
     /\ "unsupported" \notin Failures /\ off /\ ColdAuth(auth) => ColdAuth(auth')

PickMove(s) == ~pick'.quiet \/ (s # <<>> /\ pick' = pick)

(* The lock stays with its holder.                                         *)
LEMMA LockMoves ==
  ASSUME NEW c \in Callers, NEW s, NEW t, Moves(c, s, t), Holding, LockMove(c, s, t)
  PROVE  Holding'
<1>1. NoModel \notin Callers
  BY CooldownAssumption
<1>2. SUFFICES ASSUME NEW d \in Callers PROVE mu' = d <=> Holds(calls'[d].steps)
  BY DEF Holding, Holds, Has
<1>3. mu = d <=> Holds(calls[d].steps)
  BY DEF Holding
<1>4. mu = c <=> Holds(s)
  BY DEF Holding, Moves
<1>5. CASE d = c
  <2>1. calls'[d].steps = t
    BY <1>5 DEF Moves
  <2> QED
    BY ONLY <1>1, <1>4, <1>5, <2>1, LockMove(c, s, t), c \in Callers DEF LockMove
<1>6. CASE d # c
  <2>1. calls'[d] = calls[d]
    BY <1>6 DEF Moves
  <2> QED
    BY ONLY <1>1, <1>3, <1>4, <1>6, <2>1, LockMove(c, s, t), c \in Callers, d \in Callers DEF LockMove
<1> QED
  BY <1>5, <1>6

(* Who carries a copy.                                                     *)
LEMMA CarriedBy ==
  Carried <=> pick.snap.there \/ \E d \in Callers : Brings(calls[d].steps)
  BY DEF Carried, Awaits, Brings, Has

(* A credential that is gone is unlisted, or nobody carries a copy of it.  *)
LEMMA ListingMoves ==
  ASSUME NEW c \in Callers, NEW s, NEW t, Moves(c, s, t), Unlisted, ListingMove(s, t)
  PROVE  Unlisted'
<1>1. SUFFICES ASSUME ~auth'.there, ~exposed', bound' PROVE ~Carried'
  BY DEF Unlisted
<1>2. Carried' <=> pick'.snap.there \/ \E d \in Callers : Brings(calls'[d].steps)
  BY DEF Carried, Awaits, Brings, Has
<1>3. Carried <=> pick.snap.there \/ \E d \in Callers : Brings(calls[d].steps)
  BY CarriedBy
<1>4. \A x \in Callers : x # c => calls'[x].steps = calls[x].steps
  BY DEF Moves
<1>5. calls'[c].steps = t /\ calls[c].steps = s
  BY DEF Moves
<1>6. ~auth.there /\ ~exposed => ~bound \/ ~Carried
  BY DEF Unlisted
<1> QED
  BY ONLY <1>1, <1>2, <1>3, <1>4, <1>5, <1>6, ListingMove(s, t), c \in Callers DEF ListingMove

(* The scheduler does not route to a credential that is gone.              *)
LEMMA EntryMoves ==
  ASSUME NEW c \in Callers, NEW s, NEW t, Moves(c, s, t), Unlisted, Unrouted, EntryMove(s, t)
  PROVE  Unrouted'
<1>1. SUFFICES ASSUME ~auth'.there, ~exposed',
                      \A d \in Callers : ~Starts(calls'[d].steps, "removeEntry")
               PROVE  ~sched'.bound
  BY DEF Unrouted, Starts
<1>2. \A x \in Callers : x # c => calls'[x].steps = calls[x].steps
  BY DEF Moves
<1>3. calls'[c].steps = t /\ calls[c].steps = s
  BY DEF Moves
<1>4. ~auth.there /\ ~exposed => ~bound \/ ~Carried
  BY DEF Unlisted
<1>5. /\ ~auth.there /\ ~exposed /\ (\A d \in Callers : ~Starts(calls[d].steps, "removeEntry"))
           => ~sched.bound
  BY DEF Unrouted
<1>6. Brings(s) => Carried
  BY <1>3, CarriedBy
<1> QED
  BY ONLY <1>1, <1>2, <1>3, <1>4, <1>5, <1>6, EntryMove(s, t), c \in Callers DEF EntryMove

(* The .cds file stays up to date, or about to be.                         *)
LEMMA DiskMoves ==
  ASSUME NEW c \in Callers, NEW s, NEW t, Moves(c, s, t), Holding, Saving, DiskMove(c, s, t),
         \A d \in Callers : Starts(calls[d].steps, "save") => Holds(calls[d].steps)
  PROVE  Saving'
<1>1. Saving' <=>
        \/ diskBehind'
        \/ \E d \in Callers : Saves(calls'[d].steps)
        \/ \E d \in Callers : Starts(calls'[d].steps, "save") /\ Live(calls[d].records)' = Records(auth)'
        \/ /\ \A d \in Callers : ~Starts(calls'[d].steps, "save")
           /\ Live(saved)' = Records(auth)'
  BY DEF Saving, Saves, Has, Starts
<1>2. \A x \in Callers : x # c => calls'[x] = calls[x]
  BY DEF Moves
<1>3. calls'[c].steps = t /\ calls[c].steps = s
  BY DEF Moves
<1>4. CASE diskBehind' \/ Saves(t)
  BY <1>1, <1>3, <1>4
<1>5. CASE /\ diskBehind' = diskBehind /\ saved' = saved /\ Records(auth)' = Records(auth)
           /\ now' = now
           /\ Saves(s) => Saves(t)
           /\ ~Starts(s, "save") /\ ~Starts(t, "save")
  <2>1. Live(saved)' = Live(saved)
    BY <1>5 DEF Live
  <2>2. \A d \in Callers : d # c => Live(calls[d].records)' = Live(calls[d].records)
    <3> SUFFICES ASSUME NEW d \in Callers, d # c
                 PROVE  {r \in calls'[d].records : r.retry > now'} = {r \in calls[d].records : r.retry > now}
      BY DEF Live
    <3> QED
      BY <1>2, <1>5
  <2>3. CASE diskBehind
    BY <1>1, <1>5, <2>3
  <2>4. CASE \E d \in Callers : Saves(calls[d].steps)
    BY ONLY <1>1, <1>2, <1>3, <1>5, <2>4, c \in Callers
  <2>5. CASE \E d \in Callers : Starts(calls[d].steps, "save") /\ Live(calls[d].records) = Records(auth)
    <3>1. PICK d \in Callers : Starts(calls[d].steps, "save") /\ Live(calls[d].records) = Records(auth)
      BY <2>5
    <3>2. d # c
      BY <1>3, <1>5, <3>1
    <3>3. Starts(calls'[d].steps, "save")
      BY <1>2, <3>1, <3>2
    <3>4. Live(calls[d].records)' = Records(auth)'
      BY <1>5, <2>2, <3>1, <3>2
    <3> QED
      BY <1>1, <3>3, <3>4
  <2>6. CASE (\A d \in Callers : ~Starts(calls[d].steps, "save")) /\ Live(saved) = Records(auth)
    <3>1. \A d \in Callers : ~Starts(calls'[d].steps, "save")
      BY ONLY <1>2, <1>3, <1>5, <2>6, c \in Callers
    <3>2. Live(saved)' = Records(auth)'
      BY <1>5, <2>1, <2>6
    <3> QED
      BY <1>1, <3>1, <3>2
  <2> QED
    BY <2>3, <2>4, <2>5, <2>6 DEF Saving
<1>6. CASE Starts(t, "save") /\ Live(calls[c].records)' = Records(auth)'
  BY <1>1, <1>3, <1>6
<1>7. CASE /\ Starts(s, "save") /\ Holds(s) /\ ~Saves(s) /\ ~Starts(t, "save")
           /\ diskBehind' = diskBehind /\ saved' = calls[c].records
           /\ Records(auth)' = Records(auth) /\ now' = now
  <2>1. \A d \in Callers : d # c => ~Starts(calls[d].steps, "save")
    BY <1>3, <1>7 DEF Holding
  <2>2. CASE diskBehind
    BY <1>1, <1>7, <2>2
  <2>3. CASE \E d \in Callers : Saves(calls[d].steps)
    BY ONLY <1>1, <1>2, <1>3, <1>7, <2>3, c \in Callers
  <2>4. CASE \E d \in Callers : Starts(calls[d].steps, "save") /\ Live(calls[d].records) = Records(auth)
    <3>1. Live(calls[c].records) = Records(auth)
      BY <2>1, <2>4
    <3>2. Live(saved)' = Live(calls[c].records)
      <4> SUFFICES {r \in saved' : r.retry > now'} = {r \in calls[c].records : r.retry > now}
        BY DEF Live
      <4> QED
        BY <1>7
    <3>3. \A d \in Callers : ~Starts(calls'[d].steps, "save")
      BY ONLY <1>2, <1>3, <1>7, <2>1, c \in Callers
    <3> QED
      BY <1>1, <1>7, <3>1, <3>2, <3>3
  <2>5. CASE (\A d \in Callers : ~Starts(calls[d].steps, "save")) /\ Live(saved) = Records(auth)
    BY <1>3, <1>7, <2>5
  <2> QED
    BY <2>2, <2>3, <2>4, <2>5 DEF Saving
<1> QED
  BY <1>4, <1>5, <1>6, <1>7 DEF DiskMove

(* Nothing is held back once disable-cooling has been applied.             *)
LEMMA ColdMoves ==
  ASSUME NEW c \in Callers, NEW s, NEW t, Moves(c, s, t), ColdWhenOff, ColdMove(s, t)
  PROVE  ColdWhenOff'
<1>1. SUFFICES ASSUME "unsupported" \notin Failures, off',
                      \A d \in Callers : ~Starts(calls'[d].steps, "clear")
               PROVE  ColdAuth(auth')
  BY DEF ColdWhenOff, Starts, ColdAuth, Hot
<1>2. \A x \in Callers : x # c => calls'[x].steps = calls[x].steps
  BY DEF Moves
<1>3. calls'[c].steps = t /\ calls[c].steps = s
  BY DEF Moves
<1>4. off /\ (\A d \in Callers : ~Starts(calls[d].steps, "clear")) => ColdAuth(auth)
  BY <1>1 DEF ColdWhenOff
<1> QED
  BY ONLY <1>1, <1>2, <1>3, <1>4, ColdMove(s, t), c \in Callers DEF ColdMove

(* A pick that goes on undisturbed saw nobody move.                        *)
LEMMA PickMoves ==
  ASSUME NEW c \in Callers, NEW s, NEW t, Moves(c, s, t), PickSees, PickMove(s)
  PROVE  PickSees'
<1>1. CASE ~pick'.quiet
  BY <1>1 DEF PickSees
<1>2. CASE s # <<>> /\ pick' = pick
  <2>1. calls[c].steps # <<>>
    BY <1>2 DEF Moves
  <2>2. ~(pick.quiet /\ pick.pc \in {"first", "sync", "rebuild", "second"})
    BY <2>1 DEF PickSees
  <2> QED
    BY <1>2, <2>2 DEF PickSees
<1> QED
  BY <1>1, <1>2 DEF PickMove

(* Plans in which a save stands.                                           *)
LEMMA StandingPlans ==
  ASSUME CallsType
  PROVE  \A d \in Callers : /\ calls[d].steps \in Plans
                            /\ Starts(calls[d].steps, "save") => Holds(calls[d].steps)
<1> SUFFICES ASSUME NEW d \in Callers, NEW s, s = calls[d].steps
             PROVE  s \in Plans /\ (Starts(s, "save") => Holds(s))
  OBVIOUS
<1>1. s \in Plans
  BY DEF CallsType, Calls
<1>2. CASE s = <<>>
  <2>1. ~Starts(s, "save")
    BY <1>2 DEF Starts
  <2> QED
    BY <1>1, <2>1
<1>3. CASE s # <<>>
  <2>1. PICK t : t = Tail(s)
    OBVIOUS
  <2>2. Orderly(s, t)
    BY <1>1, <1>3, <2>1, PlansAreOrderly
  <2> QED
    BY <1>1, <2>2 DEF Orderly, Starts
<1> QED
  BY <1>2, <1>3

(* A step of one caller that keeps to these moves keeps the invariant.     *)
LEMMA CallStep ==
  ASSUME CoolInv, NEW c \in Callers, NEW s, NEW t, Moves(c, s, t),
         DataType', DatedAuth(auth'), Gone',
         LockMove(c, s, t), ListingMove(s, t), EntryMove(s, t),
         DiskMove(c, s, t), ColdMove(s, t), PickMove(s)
  PROVE  CoolInv'
<1>1. \A d \in Callers : Starts(calls[d].steps, "save") => Holds(calls[d].steps)
  BY StandingPlans DEF CoolInv
<1>2. CallsType'
  BY DEF Moves, CallsType
<1>3. Holding'
  BY LockMoves DEF CoolInv
<1>4. SnapsDated'
  <2> SUFFICES ASSUME NEW d \in Callers PROVE DatedAuth(calls'[d].snap)
    BY DEF SnapsDated, DatedAuth, Dated
  <2>1. CASE d = c
    BY <2>1 DEF Moves
  <2>2. CASE d # c
    BY <2>2 DEF Moves, CoolInv, SnapsDated
  <2> QED
    BY <2>1, <2>2
<1>11. Storing'
  <2> SUFFICES ASSUME NEW d \in Callers, Stores(calls'[d].steps) PROVE calls'[d].snap.there
    BY DEF Storing, Stores
  <2>1. CASE d = c
    BY <2>1 DEF Moves
  <2>2. CASE d # c
    BY <2>2 DEF Moves, CoolInv, Storing
  <2> QED
    BY <2>1, <2>2
<1>5. Unlisted'
  BY ListingMoves DEF CoolInv
<1>6. Unrouted'
  BY EntryMoves DEF CoolInv
<1>7. Saving'
  BY <1>1, DiskMoves DEF CoolInv
<1>8. ColdWhenOff'
  BY ColdMoves DEF CoolInv
<1>9. PickSees'
  BY PickMoves DEF CoolInv
<1>10. DatedAuth(auth)'
  BY DEF DatedAuth, Dated
<1> QED
  BY <1>2, <1>3, <1>4, <1>5, <1>6, <1>7, <1>8, <1>9, <1>10, <1>11 DEF CoolInv

-----------------------------------------------------------------------------
(* The steps *)

(* What the actions need of the types.                                     *)
LEMMA Types ==
  ASSUME CoolInv
  PROVE  /\ now \in Nat /\ now > 0 /\ off \in BOOLEAN /\ auth \in AuthRecords /\ sched \in Entries
         /\ pick \in Picks /\ saved \in SUBSET CooldownRecords /\ bound \in BOOLEAN
         /\ mu \in Callers \cup {NoModel}
         /\ \A c \in Callers : /\ calls[c] \in Calls /\ calls[c].snap \in AuthRecords
                               /\ calls[c].records \in SUBSET CooldownRecords
                               /\ DatedAuth(calls[c].snap)
  BY CooldownAssumption DEF CoolInv, DataType, CallsType, Calls, SnapsDated

(* An operation starts.                                                    *)
LEMMA Begins ==
  ASSUME CoolInv, NEW c \in Callers, NEW t \in Plans, NEW a \in AuthRecords,
         DatedAuth(a), Stores(t) => a.there, NEW R \in SUBSET CooldownRecords, Begin(c, t, a, R)
  PROVE  Moves(c, <<>>, t) /\ calls'[c].records = R
<1>1. calls[c] \in Calls /\ calls \in [Callers -> Calls]
  BY DEF CoolInv, CallsType
<1>2. calls[c].begun \in Nat
  BY <1>1 DEF Calls
<1> DEFINE r == [steps |-> t, snap |-> a, records |-> R, begun |-> calls[c].begun + 1]
<1>3. r \in Calls /\ r.steps = t /\ r.records = R /\ r.snap = a
  BY <1>2 DEF Calls
<1>4. calls' = [calls EXCEPT ![c] = r] /\ calls[c].steps = <<>>
  BY DEF Begin, Idle
<1> HIDE DEF r
<1> QED
  BY <1>1, <1>3, <1>4 DEF Moves

(* A caller goes on.                                                       *)
LEMMA GoesOn ==
  ASSUME CoolInv, NEW c \in Callers, NEW r \in Calls, DatedAuth(r.snap), ~Stores(r.steps),
         calls' = [calls EXCEPT ![c] = r]
  PROVE  Moves(c, calls[c].steps, r.steps) /\ calls'[c] = r
  BY DEF Moves, CoolInv, CallsType

(* ... with a new plan,                                                    *)
LEMMA NewSteps ==
  ASSUME NEW q \in Calls, NEW t \in Plans
  PROVE  /\ [q EXCEPT !.steps = t] \in Calls /\ [q EXCEPT !.steps = t].steps = t
         /\ [q EXCEPT !.steps = t].snap = q.snap
  BY DEF Calls

(* The plan of a caller that is about to do something.                     *)
LEMMA Ahead ==
  ASSUME CoolInv, NEW c \in Callers, NEW what, At(c, what)
  PROVE  /\ calls[c].steps \in Plans /\ calls[c].steps # <<>> /\ Head(calls[c].steps) = what
         /\ Orderly(calls[c].steps, Tail(calls[c].steps)) /\ Tail(calls[c].steps) \in Plans
<1>1. calls[c].steps \in Plans
  BY StandingPlans DEF CoolInv
<1>2. calls[c].steps # <<>> /\ Head(calls[c].steps) = what
  BY DEF At, Idle
<1>3. Orderly(calls[c].steps, Tail(calls[c].steps))
  BY <1>1, <1>2, PlansAreOrderly
<1> QED
  BY <1>1, <1>2, <1>3 DEF Orderly

(* The records follow from the clock, the configuration and the record.    *)
LEMMA SameRecords ==
  ASSUME now' = now, off' = off
  PROVE  Records(auth)' = Records(auth')
  BY DEF Records, Recorded, RecordOf

(* A pick is disturbed.                                                    *)
LEMMA Disturbed ==
  ASSUME CoolInv, PickDisturbed
  PROVE  pick' \in Picks /\ ~pick'.quiet /\ pick'.snap = pick.snap
<1>1. pick \in Picks
  BY Types
<1> QED
  BY <1>1 DEF PickDisturbed, Picks

(* MarkResult                                                              *)
LEMMA ResultStep ==
  ASSUME CoolInv, NEW c \in Callers, NEW m \in Models \cup {NoModel}, NEW ok \in BOOLEAN,
         NEW kind \in Failures \cup {"skipped"}, NEW ra \in Nat, ok \/ kind \in Failures,
         MarkResultAs(c, m, ok, kind, ra)
  PROVE  CoolInv'
<1> DEFINE x == Records(auth) # Records(auth')
           t == <<"upsert">> \o If(x, Persist)
<1>1. /\ auth.there /\ auth' = AfterResult(auth, m, ok, kind, ra) /\ Begin(c, t, auth', {})
      /\ PickDisturbed
      /\ now' = now /\ off' = off /\ mu' = mu /\ bound' = bound /\ sched' = sched
      /\ saved' = saved /\ diskBehind' = diskBehind /\ exposed' = exposed
  BY DEF MarkResultAs
<1>2. /\ auth' \in AuthRecords /\ auth'.there = auth.there
      /\ DatedAuth(auth) => DatedAuth(auth')
      /\ off /\ (ok \/ kind # "unsupported") /\ ColdAuth(auth) => ColdAuth(auth')
  BY <1>1, Types, ResultKeeps
<1>3. x \in BOOLEAN
  OBVIOUS
<1>4. Fresh(t, "upsert", FALSE, TRUE) /\ (x => Saves(t))
  BY <1>3, StartPlans
<1> HIDE DEF t
<1>5. Moves(c, <<>>, t)
  <2>1. DatedAuth(auth')
    BY <1>2 DEF CoolInv
  <2>2. t \in Plans /\ ~Stores(t)
    BY <1>4 DEF Fresh, Stores
  <2> QED
    BY <1>1, <1>2, <2>1, <2>2, Begins
<1>6. pick' \in Picks /\ ~pick'.quiet /\ pick'.snap = pick.snap
  BY <1>1, Disturbed
<1>7. DataType' /\ DatedAuth(auth') /\ Gone'
  BY <1>1, <1>2, <1>6 DEF CoolInv, DataType, Gone
<1>8. DiskMove(c, <<>>, t)
  <2>1. Records(auth)' = Records(auth')
    BY <1>1, SameRecords
  <2>2. ~Starts(<<>>, "save") /\ ~Starts(t, "save") /\ ~Saves(<<>>)
    BY <1>3, <1>4, StartPlans DEF Starts, Fresh
  <2> HIDE DEF x
  <2> QED
    BY <1>1, <1>4, <2>1, <2>2 DEF DiskMove, x
<1>9. /\ LockMove(c, <<>>, t) /\ ListingMove(<<>>, t)
      /\ EntryMove(<<>>, t) /\ PickMove(<<>>)
  <2>1. ~Holds(<<>>) /\ ~Brings(<<>>) /\ ~Starts(<<>>, "removeEntry")
    BY <1>3, StartPlans
  <2> QED
    BY ONLY <1>1, <1>2, <1>4, <1>6, <2>1
    DEF LockMove, ListingMove, EntryMove, PickMove, Fresh
<1>10. ColdMove(<<>>, t)
  <2>1. ~Starts(<<>>, "clear")
    BY DEF Starts
  <2> QED
    BY <1>1, <1>2, <2>1 DEF ColdMove
<1> QED
  BY <1>5, <1>7, <1>8, <1>9, <1>10, CallStep

(* ResetQuota                                                              *)
LEMMA ResetStep ==
  ASSUME CoolInv, NEW c \in Callers, ResetQuota(c)
  PROVE  CoolInv'
<1> DEFINE x == Records(auth) # Records(auth')
           u == <<"upsert">> \o If(x, Persist)
<1>1. /\ auth.there /\ auth' = AfterReset(auth) /\ PickDisturbed
      /\ \/ Begin(c, u, auth', {}) /\ diskBehind' = diskBehind
         \/ Begin(c, <<>>, NoAuth, {}) /\ diskBehind'
      /\ now' = now /\ off' = off /\ mu' = mu /\ bound' = bound /\ sched' = sched
      /\ saved' = saved /\ exposed' = exposed
  BY DEF ResetQuota
<1>2. /\ auth' \in AuthRecords /\ auth'.there = auth.there
      /\ DatedAuth(auth') /\ ColdAuth(auth')
  BY <1>1, Types, ResetKeeps
<1>3. x \in BOOLEAN
  OBVIOUS
<1>4. Fresh(u, "upsert", FALSE, TRUE) /\ (x => Saves(u))
  BY <1>3, StartPlans
<1>5. /\ <<>> \in Plans /\ ~Holds(<<>>) /\ ~Brings(<<>>)
      /\ ~Starts(<<>>, "removeEntry") /\ ~Saves(<<>>)
  BY <1>3, StartPlans
<1> HIDE DEF u
<1>6. pick' \in Picks /\ ~pick'.quiet /\ pick'.snap = pick.snap
  BY <1>1, Disturbed
<1>7. DataType' /\ DatedAuth(auth') /\ Gone'
  BY <1>1, <1>2, <1>6 DEF CoolInv, DataType, Gone
<1>8. PICK t : Moves(c, <<>>, t) /\ ((t = u /\ diskBehind' = diskBehind) \/ (t = <<>> /\ diskBehind'))
  <2>1. CASE Begin(c, u, auth', {}) /\ diskBehind' = diskBehind
    <3>1. Moves(c, <<>>, u)
      BY <1>2, <1>4, <2>1, Begins DEF Fresh, Stores
    <3> QED
      BY ONLY <2>1, <3>1
  <2>2. CASE Begin(c, <<>>, NoAuth, {}) /\ diskBehind'
    <3>1. Moves(c, <<>>, <<>>)
      BY <1>5, <2>2, FreshRecords, Begins DEF Stores
    <3> QED
      BY ONLY <2>2, <3>1
  <2> QED
    BY <1>1, <2>1, <2>2
<1>9. DiskMove(c, <<>>, t)
  <2>1. Records(auth)' = Records(auth')
    BY <1>1, SameRecords
  <2>2. ~Starts(<<>>, "save") /\ ~Starts(u, "save")
    BY <1>4 DEF Starts, Fresh
  <2> HIDE DEF x
  <2> QED
    BY <1>1, <1>4, <1>5, <1>8, <2>1, <2>2 DEF DiskMove, x
<1>10. /\ LockMove(c, <<>>, t) /\ ListingMove(<<>>, t)
       /\ EntryMove(<<>>, t) /\ PickMove(<<>>)
  BY ONLY <1>1, <1>2, <1>4, <1>5, <1>6, <1>8
  DEF LockMove, ListingMove, EntryMove, PickMove, Fresh
<1>11. ColdMove(<<>>, t)
  BY <1>2 DEF ColdMove
<1> QED
  BY <1>7, <1>8, <1>9, <1>10, <1>11, CallStep

(* ApplyConfigWithCooldownStateStore                                       *)
LEMMA ConfigStep ==
  ASSUME CoolInv, NEW c \in Callers, ApplyConfig(c)
  PROVE  CoolInv'
<1> DEFINE t == <<"clear", "records", "save", "unlock">>
<1>1. /\ mu = NoModel /\ mu' = c /\ off' = ~off /\ Begin(c, t, NoAuth, {}) /\ PickDisturbed
      /\ now' = now /\ auth' = auth /\ bound' = bound /\ sched' = sched
      /\ saved' = saved /\ diskBehind' = diskBehind /\ exposed' = exposed
  BY DEF ApplyConfig
<1>2. Fresh(t, "clear", TRUE, FALSE) /\ Saves(t)
  BY StartPlans
<1>3. ~Holds(<<>>) /\ ~Brings(<<>>) /\ ~Starts(<<>>, "removeEntry")
  BY StartPlans
<1> HIDE DEF t
<1>4. pick' \in Picks /\ ~pick'.quiet /\ pick'.snap = pick.snap
  BY <1>1, Disturbed
<1>5. DataType' /\ DatedAuth(auth') /\ Gone'
  BY <1>1, <1>4 DEF CoolInv, DataType, Gone
<1>6. Moves(c, <<>>, t)
  BY <1>1, <1>2, FreshRecords, Begins DEF Fresh, Stores
<1>7. DiskMove(c, <<>>, t) /\ ColdMove(<<>>, t)
  BY <1>2 DEF DiskMove, ColdMove, Starts, Fresh
<1>8. /\ LockMove(c, <<>>, t) /\ ListingMove(<<>>, t)
      /\ EntryMove(<<>>, t) /\ PickMove(<<>>)
  BY ONLY <1>1, <1>2, <1>3, <1>4
  DEF LockMove, ListingMove, EntryMove, PickMove, Fresh
<1> QED
  BY <1>5, <1>6, <1>7, <1>8, CallStep

(* The scheduler's entry is no longer the manager's record.                *)
LEMMA UnaliasedKeeps ==
  ASSUME CoolInv
  PROVE  Unaliased \in Entries /\ Unaliased.bound = sched.bound
<1>1. sched \in Entries /\ auth \in AuthRecords
  BY Types
<1> QED
  BY <1>1 DEF Unaliased, Entries

(* What is left of a copy that was handed over.                            *)
LEMMA PartedKeeps ==
  ASSUME NEW a \in AuthRecords
  PROVE  /\ Parted(a) \in AuthRecords /\ DatedAuth(Parted(a)) /\ ~Parted(a).there
         /\ Parted(a).disabled = a.disabled /\ Parted(a).states = <<>>
<1>1. a.disabled \in BOOLEAN
  BY AuthElim
<1>2. /\ Parted(a) \in AuthRecords /\ ~Parted(a).there /\ Parted(a).own = NoAuth.own
      /\ Parted(a).states = NoAuth.states /\ Parted(a).disabled = a.disabled
  BY <1>1, FreshRecords DEF Parted, AuthRecords
<1> QED
  BY <1>2, FreshRecords DEF DatedAuth

(* A begun operation that leaves the record, the scheduler and the file alone. *)
LEMMA BeginStep ==
  ASSUME CoolInv, NEW c \in Callers, NEW t \in Plans, NEW a \in AuthRecords, DatedAuth(a),
         Stores(t) => a.there,
         t # <<>>, ~Holds(t), ~Brings(t), Head(t) \notin {"save", "clear"},
         Begin(c, t, a, {}), PickDisturbed,
         now' = now, off' = off, auth' = auth, mu' = mu, bound' = bound, sched' = sched,
         saved' = saved, diskBehind' = diskBehind, exposed' = exposed
  PROVE  CoolInv'
<1>1. /\ ~Holds(<<>>) /\ ~Brings(<<>>) /\ ~Starts(<<>>, "removeEntry") /\ ~Saves(<<>>)
      /\ ~Starts(<<>>, "save") /\ ~Starts(<<>>, "clear") /\ ~Starts(t, "save")
  BY StartPlans DEF Starts
<1>2. pick' \in Picks /\ ~pick'.quiet /\ pick'.snap = pick.snap
  BY Disturbed
<1>3. DataType' /\ DatedAuth(auth') /\ Gone'
  BY <1>2 DEF CoolInv, DataType, Gone
<1>4. Moves(c, <<>>, t)
  BY Begins
<1>5. DiskMove(c, <<>>, t)
  <2>1. Records(auth)' = Records(auth)
    BY SameRecords
  <2> QED
    BY <1>1, <2>1 DEF DiskMove
<1>6. ColdMove(<<>>, t)
  BY <1>1 DEF ColdMove
<1>7. LockMove(c, <<>>, t) /\ ListingMove(<<>>, t) /\ EntryMove(<<>>, t) /\ PickMove(<<>>)
  BY <1>1, <1>2 DEF LockMove, ListingMove, EntryMove, PickMove
<1> QED
  BY <1>3, <1>4, <1>5, <1>6, <1>7, CallStep

(* A record that inherits the states of another.                           *)
LEMMA InheritKeeps ==
  ASSUME NEW a \in AuthRecords, NEW b \in AuthRecords, DatedAuth(a), DatedAuth(b),
         NEW x \in BOOLEAN
  PROVE  LET g == [a EXCEPT !.states = IF x THEN b.states ELSE <<>>]
             h == [a EXCEPT !.states = b.states]
         IN  /\ g \in AuthRecords /\ DatedAuth(g) /\ g.there = a.there
             /\ g.disabled = a.disabled /\ g.own = a.own
             /\ h \in AuthRecords /\ DatedAuth(h) /\ h.there = a.there
             /\ h.disabled = a.disabled /\ h.own = a.own
<1> DEFINE g == [a EXCEPT !.states = IF x THEN b.states ELSE <<>>]
           h == [a EXCEPT !.states = b.states]
           e == [a EXCEPT !.states = <<>>]
<1>1. DOMAIN b.states \in SUBSET Models /\ b.states \in [DOMAIN b.states -> Cooldowns]
  BY AuthElim
<1>2. h \in AuthRecords /\ h.there = a.there /\ h.disabled = a.disabled /\ h.own = a.own /\ h.states = b.states
  BY <1>1, AuthStates
<1>3. e \in AuthRecords /\ e.there = a.there /\ e.disabled = a.disabled /\ e.own = a.own /\ e.states = <<>>
  <2>1. <<>> \in [{} -> Cooldowns] /\ {} \in SUBSET Models
    OBVIOUS
  <2> QED
    BY <2>1, AuthStates
<1>4. DatedAuth(h)
  <2> HIDE DEF h
  <2> QED
    BY <1>2 DEF DatedAuth
<1>5. DatedAuth(e)
  <2> HIDE DEF e
  <2>1. DOMAIN e.states = {}
    BY <1>3
  <2> QED
    BY <1>3, <2>1 DEF DatedAuth
<1>6. g = IF x THEN h ELSE e
  OBVIOUS
<1> HIDE DEF g, h, e
<1>7. /\ g \in AuthRecords /\ DatedAuth(g) /\ g.there = a.there /\ g.disabled = a.disabled
      /\ g.own = a.own
  BY <1>2, <1>3, <1>4, <1>5, <1>6
<1> QED
  BY <1>2, <1>4, <1>7 DEF g, h

(* prepareCoreAuthForModelRegistration                                     *)
LEMMA UpdateStep ==
  ASSUME CoolInv, NEW c \in Callers, NEW disabled \in BOOLEAN, UpdateAuth(c, disabled)
  PROVE  CoolInv'
<1> DEFINE inherits == auth.there /\ ~auth.disabled /\ ~disabled
           given == [FreshAuth(disabled) EXCEPT !.states = IF inherits THEN auth.states ELSE <<>>]
           t == IF auth.there THEN <<"update">> ELSE <<"create">>
<1>1. /\ Begin(c, <<IF auth.there THEN "update" ELSE "create">>, given, {}) /\ PickDisturbed
      /\ now' = now /\ off' = off /\ auth' = auth /\ mu' = mu /\ bound' = bound
      /\ sched' = sched /\ saved' = saved /\ diskBehind' = diskBehind /\ exposed' = exposed
  BY DEF UpdateAuth
<1>2. auth \in AuthRecords /\ DatedAuth(auth)
  BY Types DEF CoolInv
<1>3. /\ FreshAuth(disabled) \in AuthRecords /\ FreshAuth(disabled).there
      /\ FreshAuth(disabled).own = Clean /\ FreshAuth(disabled).states = <<>> /\ Dated(Clean)
  BY FreshRecords
<1>4. DatedAuth(FreshAuth(disabled)) /\ inherits \in BOOLEAN
  <2>1. DOMAIN FreshAuth(disabled).states = {}
    BY <1>3
  <2>2. auth.there \in BOOLEAN /\ auth.disabled \in BOOLEAN
    BY <1>2, AuthElim
  <2> QED
    BY <1>3, <2>1, <2>2 DEF DatedAuth
<1>5. given \in AuthRecords /\ DatedAuth(given) /\ given.there
  <2> DEFINE b == FreshAuth(disabled)
  <2> HIDE DEF inherits, b
  <2> QED
    BY <1>2, <1>3, <1>4, InheritKeeps DEF b
<1>6. t = <<IF auth.there THEN "update" ELSE "create">>
  OBVIOUS
<1>7. t \in Plans /\ t # <<>> /\ ~Holds(t) /\ ~Brings(t) /\ Head(t) \notin {"save", "clear"}
  <2>1. Fresh(t, "update", FALSE, FALSE) \/ Fresh(t, "create", FALSE, FALSE)
    BY StartPlans
  <2> HIDE DEF t
  <2> QED
    BY <2>1 DEF Fresh
<1>8. Begin(c, t, given, {})
  BY <1>1, <1>6
<1> HIDE DEF t, given
<1> QED
  BY <1>1, <1>5, <1>7, <1>8, BeginStep

(* A copy of the record is taken to be changed.                            *)
LEMMA PatchStep ==
  ASSUME CoolInv, NEW c \in Callers, NEW disabled \in BOOLEAN, PatchAuth(c, disabled)
  PROVE  CoolInv'
<1> DEFINE a == [auth EXCEPT !.disabled = disabled]
           t == <<"patch">>
<1>1. /\ auth.there /\ Begin(c, t, a, {}) /\ PickDisturbed
      /\ now' = now /\ off' = off /\ auth' = auth /\ mu' = mu /\ bound' = bound
      /\ sched' = sched /\ saved' = saved /\ diskBehind' = diskBehind /\ exposed' = exposed
  BY DEF PatchAuth
<1>2. auth \in AuthRecords /\ DatedAuth(auth)
  BY Types DEF CoolInv
<1>3. a \in AuthRecords /\ a.own = auth.own /\ a.states = auth.states /\ a.there = auth.there
  BY <1>2 DEF AuthRecords
<1>4. DatedAuth(a)
  <2> HIDE DEF a
  <2> QED
    BY <1>2, <1>3 DEF DatedAuth
<1>5. Fresh(t, "patch", FALSE, FALSE)
  BY StartPlans
<1> HIDE DEF a, t
<1> QED
  BY <1>1, <1>3, <1>4, <1>5, BeginStep DEF Fresh

(* applyCoreAuthRemoval, and the management API's removal                  *)
LEMMA RemoveStep ==
  ASSUME CoolInv, NEW c \in Callers, RemoveAuth(c) \/ DeleteAuthFile(c)
  PROVE  CoolInv'
<1>1. PICK t \in {<<"unregister">> \o RemoveSteps, RemoveSteps} :
        /\ Begin(c, t, NoAuth, {}) /\ PickDisturbed
        /\ now' = now /\ off' = off /\ auth' = auth /\ mu' = mu /\ bound' = bound
        /\ sched' = sched /\ saved' = saved /\ diskBehind' = diskBehind /\ exposed' = exposed
  BY DEF RemoveAuth, DeleteAuthFile
<1>2. Fresh(t, "unregister", FALSE, FALSE) \/ Fresh(t, "delete", FALSE, FALSE)
  BY StartPlans
<1>3. NoAuth \in AuthRecords /\ DatedAuth(NoAuth)
  BY FreshRecords
<1> QED
  BY <1>1, <1>2, <1>3, BeginStep DEF Fresh, Stores

(* RestoreCooldownStates reads the file.                                   *)
LEMMA LoadStep ==
  ASSUME CoolInv, NEW c \in Callers, RestoreLoad(c)
  PROVE  CoolInv'
<1> DEFINE t == <<"merge">> \o Persist
<1>1. /\ Begin(c, t, NoAuth, saved) /\ PickDisturbed
      /\ now' = now /\ off' = off /\ auth' = auth /\ mu' = mu /\ bound' = bound
      /\ sched' = sched /\ saved' = saved /\ diskBehind' = diskBehind /\ exposed' = exposed
  BY DEF RestoreLoad
<1>2. Fresh(t, "merge", FALSE, FALSE) /\ Saves(t)
  BY StartPlans
<1>3. ~Holds(<<>>) /\ ~Brings(<<>>) /\ ~Starts(<<>>, "removeEntry")
  BY StartPlans
<1> HIDE DEF t
<1>4. pick' \in Picks /\ ~pick'.quiet /\ pick'.snap = pick.snap
  BY <1>1, Disturbed
<1>5. DataType' /\ DatedAuth(auth') /\ Gone'
  BY <1>1, <1>4 DEF CoolInv, DataType, Gone
<1>6. Moves(c, <<>>, t)
  BY <1>1, <1>2, Types, FreshRecords, Begins DEF Fresh, Stores
<1>7. DiskMove(c, <<>>, t)
  BY <1>2 DEF DiskMove
<1>8. ColdMove(<<>>, t)
  <2>1. ~Starts(<<>>, "clear")
    BY DEF Starts
  <2> QED
    BY <1>1, <2>1 DEF ColdMove
<1>9. /\ LockMove(c, <<>>, t) /\ ListingMove(<<>>, t)
      /\ EntryMove(<<>>, t) /\ PickMove(<<>>)
  BY ONLY <1>1, <1>2, <1>3, <1>4
  DEF LockMove, ListingMove, EntryMove, PickMove, Fresh
<1> QED
  BY <1>5, <1>6, <1>7, <1>8, <1>9, CallStep

(* The words of a plan.                                                    *)
LEMMA PlansAreWords ==
  ASSUME NEW s \in Plans
  PROVE  s \in Seq(Words)
<1>1. CASE s = <<>>
  BY <1>1
<1>2. CASE s = <<"lock", "records", "save", "unlock">>
  BY ONLY <1>2 DEF Words
<1>3. CASE s = <<"records", "save", "unlock">>
  BY ONLY <1>3 DEF Words
<1>4. CASE s = <<"save", "unlock">>
  BY ONLY <1>4 DEF Words
<1>5. CASE s = <<"unlock">>
  BY ONLY <1>5 DEF Words
<1>6. CASE s = <<"upsert">>
  BY ONLY <1>6 DEF Words
<1>7. CASE s = <<"upsert", "lock", "records", "save", "unlock">>
  BY ONLY <1>7 DEF Words
<1>8. CASE s = <<"upsert", "records", "save", "unlock">>
  BY ONLY <1>8 DEF Words
<1>9. CASE s = <<"clear", "records", "save", "unlock">>
  BY ONLY <1>9 DEF Words
<1>10. CASE s = <<"merge", "lock", "records", "save", "unlock">>
  BY ONLY <1>10 DEF Words
<1>11. CASE s = <<"upsertAlias", "lock", "records", "save", "unlock", "register", "reconcile", "refresh">>
  BY ONLY <1>11 DEF Words
<1>12. CASE s = <<"lock", "records", "save", "unlock", "register", "reconcile", "refresh">>
  BY ONLY <1>12 DEF Words
<1>13. CASE s = <<"records", "save", "unlock", "register", "reconcile", "refresh">>
  BY ONLY <1>13 DEF Words
<1>14. CASE s = <<"save", "unlock", "register", "reconcile", "refresh">>
  BY ONLY <1>14 DEF Words
<1>15. CASE s = <<"unlock", "register", "reconcile", "refresh">>
  BY ONLY <1>15 DEF Words
<1>16. CASE s = <<"upsertAlias", "register", "reconcile", "refresh">>
  BY ONLY <1>16 DEF Words
<1>17. CASE s = <<"register", "reconcile", "refresh">>
  BY ONLY <1>17 DEF Words
<1>18. CASE s = <<"reconcile", "refresh">>
  BY ONLY <1>18 DEF Words
<1>19. CASE s = <<"upsert", "refresh">>
  BY ONLY <1>19 DEF Words
<1>20. CASE s = <<"refresh">>
  BY ONLY <1>20 DEF Words
<1>21. CASE s = <<"create">>
  BY ONLY <1>21 DEF Words
<1>22. CASE s = <<"update">>
  BY ONLY <1>22 DEF Words
<1>23. CASE s = <<"patch">>
  BY ONLY <1>23 DEF Words
<1>24. CASE s = <<"upsertAlias", "lock", "records", "save", "unlock">>
  BY ONLY <1>24 DEF Words
<1>25. CASE s = <<"upsertAlias">>
  BY ONLY <1>25 DEF Words
<1>26. CASE s = <<"unregister", "delete", "removeEntry", "lock", "records", "save", "unlock">>
  BY ONLY <1>26 DEF Words
<1>27. CASE s = <<"delete", "removeEntry", "lock", "records", "save", "unlock">>
  BY ONLY <1>27 DEF Words
<1>28. CASE s = <<"removeEntry", "lock", "records", "save", "unlock">>
  BY ONLY <1>28 DEF Words
<1> QED
  BY <1>1, <1>2, <1>3, <1>4, <1>5, <1>6, <1>7, <1>8, <1>9, <1>10, <1>11, <1>12, <1>13, <1>14, <1>15, <1>16, <1>17, <1>18, <1>19, <1>20, <1>21, <1>22, <1>23, <1>24, <1>25, <1>26, <1>27, <1>28 DEF Plans

(* What is left of a plan when its next step is neither about the lock nor *)
(* about the file.                                                         *)
Onward(s, t) ==
  /\ s # <<>> /\ (Holds(t) <=> Holds(s))
  /\ Saves(s) => Saves(t)
  /\ ~Starts(s, "save") /\ ~Starts(t, "save") /\ ~Starts(t, "clear") /\ ~Stores(t)

(* ... also when the scheduler is to be told first.                        *)
LEMMA OnwardPlans ==
  ASSUME NEW s \in Plans, s # <<>>, NEW u, u = Tail(s), NEW t, NEW x \in BOOLEAN,
         Head(s) \notin {"lock", "unlock", "records", "save"},
         t = u \/ (t = If(x, <<"upsert">>) \o u /\ Head(s) \in {"clear", "merge", "reconcile", "refresh"})
  PROVE  /\ t \in Plans /\ Onward(s, t)
         /\ Brings(t) => Brings(s) \/ (x /\ t # u)
<1>1. Orderly(s, u)
  BY PlansAreOrderly
<1>2. u \in Plans
  BY <1>1 DEF Orderly
<1>3. u \in Seq(Words)
  BY <1>2, PlansAreWords
<1>4. Onward(s, u) /\ (Brings(u) => Brings(s))
  BY ONLY <1>1, s # <<>>, Head(s) \notin {"lock", "unlock", "records", "save"}
  DEF Orderly, Onward, Starts, Saves, Brings
<1>5. CASE t = u
  BY <1>2, <1>4, <1>5
<1>6. CASE t = If(x, <<"upsert">>) \o u /\ Head(s) \in {"clear", "merge", "reconcile", "refresh"}
  <2>1. CASE x = FALSE
    <3>1. t = <<>> \o u
      BY <1>6, <2>1 DEF If
    <3>2. t = u
      BY <1>3, <3>1, ConcatEmptySeq
    <3> QED
      BY <1>5, <3>2
  <2>2. CASE x = TRUE
    <3>1. t = <<"upsert">> \o u /\ t \in Plans
      BY <1>1, <1>6, <2>2 DEF If, Orderly
    <3>2. PICK v : v = <<"upsert">>
      OBVIOUS
    <3>3. v \in Seq(Words) /\ Len(v) = 1 /\ v[1] = "upsert"
      BY ONLY <3>2 DEF Words
    <3>4. t \in Seq(Words) /\ Len(t) = 1 + Len(u) /\ t[1] = "upsert"
      <4>1. /\ v \o u \in Seq(Words) /\ Len(v \o u) = Len(v) + Len(u)
            /\ \A i \in 1 .. Len(v) + Len(u) : (v \o u)[i] = IF i <= Len(v) THEN v[i] ELSE u[i - Len(v)]
        BY <1>3, <3>3, ConcatProperties
      <4>2. t = v \o u
        BY <3>1, <3>2
      <4> QED
        BY ONLY <1>3, <3>3, <4>1, <4>2
    <3>5. Head(t) = "upsert" /\ t # <<>>
      BY ONLY <1>3, <3>4
    <3>6. Tail(t) = u
      <4>1. Tail(t) \in Seq(Words) /\ Len(Tail(t)) = Len(u)
        BY ONLY <1>3, <3>4, <3>5
      <4>2. \A i \in 1 .. Len(u) : Tail(t)[i] = u[i]
        <5> SUFFICES ASSUME NEW i \in 1 .. Len(u) PROVE Tail(t)[i] = u[i]
          OBVIOUS
        <5>1. Tail(t)[i] = t[i + 1]
          BY ONLY <1>3, <3>4, <3>5, i \in 1 .. Len(u)
        <5>2. t[i + 1] = u[i]
          <6>1. \A j \in 1 .. Len(v) + Len(u) : (v \o u)[j] = IF j <= Len(v) THEN v[j] ELSE u[j - Len(v)]
            BY <1>3, <3>3, ConcatProperties
          <6>2. t = v \o u
            BY <3>1, <3>2
          <6>3. i + 1 \in 1 .. Len(v) + Len(u) /\ ~(i + 1 <= Len(v)) /\ i + 1 - Len(v) = i
            BY ONLY <1>3, <3>3, i \in 1 .. Len(u)
          <6> QED
            BY ONLY <6>1, <6>2, <6>3
        <5> QED
          BY <5>1, <5>2
      <4> QED
        BY ONLY <1>3, <4>1, <4>2, SeqEqual
    <3>7. Orderly(t, u)
      BY <3>1, <3>5, <3>6, PlansAreOrderly
    <3>8. Onward(s, t)
      BY ONLY <1>4, <3>5, <3>7 DEF Orderly, Onward, Starts, Saves, Stores
    <3>9. t # u
      BY ONLY <1>3, <3>4
    <3> QED
      BY <2>2, <3>1, <3>8, <3>9
  <2> QED
    BY <2>1, <2>2
<1> QED
  BY <1>5, <1>6

(* A caller goes on in its plan; the lock and the picks are left alone.    *)
LEMMA OnwardStep ==
  ASSUME CoolInv, NEW c \in Callers, NEW s, NEW t, Onward(s, t), Moves(c, s, t),
         DataType', DatedAuth(auth'), Gone', now' = now, off' = off, mu' = mu, pick' = pick,
         saved' = saved,
         \/ diskBehind' \/ Saves(t)
         \/ diskBehind' = diskBehind /\ auth' = auth,
         ListingMove(s, t), EntryMove(s, t), ColdMove(s, t)
  PROVE  CoolInv'
<1>1. LockMove(c, s, t) /\ PickMove(s)
  BY DEF Onward, LockMove, PickMove
<1>2. DiskMove(c, s, t)
  <2>1. CASE diskBehind' \/ Saves(t)
    BY <2>1 DEF DiskMove
  <2>2. CASE diskBehind' = diskBehind /\ auth' = auth
    <3>1. Records(auth)' = Records(auth)
      BY <2>2, SameRecords
    <3> QED
      BY <2>2, <3>1 DEF DiskMove, Onward
  <2> QED
    BY <2>1, <2>2
<1> QED
  BY <1>1, <1>2, CallStep

(* The next step of a caller, with its plan.                               *)
LEMMA NextPlan ==
  ASSUME CoolInv, NEW c \in Callers, NEW what, what \notin {"lock", "unlock", "records", "save"},
         At(c, what), NEW x \in BOOLEAN
  PROVE  /\ Head(calls[c].steps) = what /\ Tail(calls[c].steps) \in Plans
         /\ Onward(calls[c].steps, Tail(calls[c].steps))
         /\ Brings(Tail(calls[c].steps)) => Brings(calls[c].steps)
         /\ what \in {"clear", "merge", "reconcile", "refresh"} =>
              /\ If(x, <<"upsert">>) \o Tail(calls[c].steps) \in Plans
              /\ Onward(calls[c].steps, If(x, <<"upsert">>) \o Tail(calls[c].steps))
              /\ Brings(If(x, <<"upsert">>) \o Tail(calls[c].steps)) => Brings(calls[c].steps) \/ x
<1>1. PICK s : s = calls[c].steps
  OBVIOUS
<1>2. s \in Plans /\ s # <<>> /\ Head(s) = what
  BY <1>1, Ahead
<1>3. Tail(s) \in Plans /\ Onward(s, Tail(s)) /\ (Brings(Tail(s)) => Brings(s))
  BY <1>2, OnwardPlans
<1>4. what \in {"clear", "merge", "reconcile", "refresh"} =>
        /\ If(x, <<"upsert">>) \o Tail(s) \in Plans /\ Onward(s, If(x, <<"upsert">>) \o Tail(s))
        /\ Brings(If(x, <<"upsert">>) \o Tail(s)) => Brings(s) \/ x
  BY <1>2, OnwardPlans
<1> QED
  BY <1>1, <1>2, <1>3, <1>4

(* The scheduler's new entry.                                              *)
LEMMA EntryKeeps ==
  ASSUME CoolInv, NEW a \in AuthRecords, NEW alias \in BOOLEAN
  PROVE  Entry(a, alias) \in Entries /\ Entry(a, alias).bound \in {FALSE, bound}
<1>1. NoEntry \in Entries /\ NoEntry.bound = FALSE
  BY FreshRecords DEF NoEntry, Entries
<1>2. bound \in BOOLEAN
  BY Types
<1> QED
  BY <1>1, <1>2 DEF Entry, Entries

(* clearDisabledCooldownStates                                             *)
LEMMA ClearStep ==
  ASSUME CoolInv, NEW c \in Callers, ClearDisabled(c)
  PROVE  CoolInv'
<1> DEFINE s == calls[c].steps
           x == auth.there /\ (off \/ auth.disabled) /\ AnyHot(auth)
           t == If(x, <<"upsert">>) \o Tail(s)
           r == [calls[c] EXCEPT !.steps = t, !.snap = auth']
<1>1. auth \in AuthRecords /\ off \in BOOLEAN /\ now \in Nat /\ calls[c] \in Calls
  BY Types
<1>2. /\ At(c, "clear")
      /\ auth' = (IF auth.there /\ (off \/ auth.disabled) THEN Cleared(auth) ELSE auth)
      /\ now' = now /\ off' = off /\ mu' = mu /\ bound' = bound /\ sched' = sched
      /\ saved' = saved /\ pick' = pick /\ diskBehind' = diskBehind /\ exposed' = exposed
  BY DEF ClearDisabled
<1>3. calls' = [calls EXCEPT ![c] = r]
  BY DEF ClearDisabled
<1>4. x \in BOOLEAN
  BY <1>1, AuthElim DEF AnyHot, Hot
<1>5. /\ t \in Plans /\ Onward(s, t) /\ Head(s) = "clear"
      /\ Brings(t) => Brings(s) \/ auth.there
  BY <1>2, <1>4, NextPlan
<1>6. Saves(t)
  <2>1. Orderly(s, Tail(s)) /\ Head(s) = "clear"
    BY <1>2, Ahead
  <2>2. Saves(s)
    BY ONLY <2>1 DEF Orderly, Saves
  <2> QED
    BY ONLY <1>5, <2>2 DEF Onward
<1> HIDE DEF x, t
<1>7. /\ auth' \in AuthRecords /\ auth'.there = auth.there /\ DatedAuth(auth')
      /\ auth'.there /\ off => ColdAuth(auth')
      /\ ~auth'.there => auth' = auth
  BY <1>1, <1>2, ClearedKeeps DEF CoolInv
<1>8. r \in Calls /\ r.steps = t /\ DatedAuth(r.snap) /\ ~Stores(t)
  <2>1. t \in Plans /\ ~Stores(t)
    BY <1>1, <1>5, <1>7 DEF Onward, Fresh, Stores
  <2>2. r \in Calls /\ r.steps = t /\ r.snap = auth'
    BY <1>1, <1>5, <1>7, <2>1 DEF Calls
  <2> HIDE DEF r
  <2> QED
    BY <1>1, <1>5, <1>7, <2>1, <2>2
<1> HIDE DEF r
<1>9. Moves(c, s, t)
  BY <1>3, <1>8, GoesOn
<1>10. Gone' /\ (~auth'.there => auth' = NoAuth)
  BY <1>7 DEF CoolInv, Gone
<1>11. DataType'
  BY <1>2, <1>7 DEF CoolInv, DataType
<1>12. ColdMove(s, t)
  <2>1. ColdAuth(NoAuth)
    BY FreshRecords DEF ColdAuth
  <2>2. off' => ColdAuth(auth')
    BY <1>2, <1>7, <1>10, <2>1
  <2> QED
    BY <2>2 DEF ColdMove
<1>13. ListingMove(s, t) /\ EntryMove(s, t)
  BY ONLY <1>2, <1>5, <1>7 DEF ListingMove, EntryMove, Starts
<1> HIDE DEF s
<1> QED
  BY <1>2, <1>5, <1>6, <1>7, <1>9, <1>10, <1>11, <1>12, <1>13, OnwardStep

(* registerModelsForAuth                                                   *)
LEMMA RegisterStep ==
  ASSUME CoolInv, NEW c \in Callers, RegisterModels(c)
  PROVE  CoolInv'
<1> DEFINE s == calls[c].steps
           t == Tail(s)
           r == [calls[c] EXCEPT !.steps = t, !.snap = NoAuth]
<1>1. auth \in AuthRecords /\ calls[c] \in Calls /\ NoAuth \in AuthRecords /\ DatedAuth(NoAuth)
  BY Types, FreshRecords
<1>2. /\ At(c, "register") /\ bound' = ~calls[c].snap.disabled
      /\ exposed' = (exposed \/ (~auth.there /\ bound' /\ Carried))
      /\ now' = now /\ off' = off /\ auth' = auth /\ mu' = mu /\ sched' = sched
      /\ saved' = saved /\ pick' = pick /\ diskBehind' = diskBehind
  BY DEF RegisterModels
<1>3. calls' = [calls EXCEPT ![c] = r]
  BY DEF RegisterModels
<1>4. t \in Plans /\ Onward(s, t) /\ Head(s) = "register"
  BY <1>2, NextPlan
<1>5. ~Brings(t)
  <2>1. Orderly(s, t)
    BY <1>2, Ahead
  <2> QED
    BY ONLY <1>4, <2>1 DEF Orderly
<1> HIDE DEF t
<1>6. r \in Calls /\ r.steps = t /\ DatedAuth(r.snap) /\ ~Stores(t)
  <2>1. t \in Plans /\ ~Stores(t)
    BY <1>1, <1>4 DEF Onward, Fresh, Stores
  <2>2. r \in Calls /\ r.steps = t /\ r.snap = NoAuth
    BY <1>1, <1>4, <2>1 DEF Calls
  <2> HIDE DEF r
  <2> QED
    BY <1>1, <1>4, <2>1, <2>2
<1> HIDE DEF r
<1>7. Moves(c, s, t)
  BY <1>3, <1>6, GoesOn
<1>8. bound' \in BOOLEAN
  BY <1>2
<1>9. DataType' /\ Gone' /\ DatedAuth(auth')
  BY <1>2, <1>8 DEF CoolInv, DataType, Gone
<1>10. ListingMove(s, t)
  BY ONLY <1>2, <1>5 DEF ListingMove
<1>11. EntryMove(s, t)
  BY ONLY <1>2, <1>4 DEF EntryMove, Starts
<1>12. ColdMove(s, t)
  BY <1>2, <1>4 DEF ColdMove, Starts
<1> HIDE DEF s
<1> QED
  BY <1>2, <1>4, <1>7, <1>9, <1>10, <1>11, <1>12, OnwardStep

(* ReconcileRegistryModelStates                                            *)
LEMMA ReconcileStep ==
  ASSUME CoolInv, NEW c \in Callers, ReconcileRegistryModelStates(c)
  PROVE  CoolInv'
<1> DEFINE kept == IF bound THEN DOMAIN auth.states ELSE {}
           after == Aggregate([auth EXCEPT !.states = [m \in kept |-> Clean]])
           s == calls[c].steps
<1>1. auth \in AuthRecords /\ now \in Nat /\ calls[c] \in Calls
  BY Types
<1>2. /\ At(c, "reconcile")
      /\ now' = now /\ off' = off /\ mu' = mu /\ bound' = bound /\ sched' = sched
      /\ saved' = saved /\ pick' = pick /\ exposed' = exposed
      /\ \/ /\ auth.there /\ auth' = after /\ diskBehind'
            /\ calls' = [calls EXCEPT ![c] = [calls[c] EXCEPT !.steps = <<"upsert">> \o Tail(s),
                                                              !.snap = auth']]
         \/ /\ auth' = auth /\ diskBehind' = diskBehind
            /\ calls' = [calls EXCEPT ![c] = [calls[c] EXCEPT !.steps = Tail(s)]]
  BY DEF ReconcileRegistryModelStates, Proceed
<1>3. kept \in SUBSET Models
  BY <1>1, AuthElim
<1>4. after \in AuthRecords /\ after.there = auth.there /\ DatedAuth(after) /\ ColdAuth(after)
  BY <1>1, <1>3, ReconcileKeeps
<1> HIDE DEF after, kept
<1>5. /\ Tail(s) \in Plans /\ Onward(s, Tail(s)) /\ Head(s) = "reconcile"
      /\ Brings(Tail(s)) => Brings(s)
      /\ If(TRUE, <<"upsert">>) \o Tail(s) \in Plans
      /\ Onward(s, If(TRUE, <<"upsert">>) \o Tail(s))
  BY <1>2, NextPlan
<1>6. If(TRUE, <<"upsert">>) = <<"upsert">>
  BY DEF If
<1>7. /\ DataType' /\ Gone' /\ DatedAuth(auth') /\ auth' \in AuthRecords
      /\ auth'.there = auth.there /\ (ColdAuth(auth) => ColdAuth(auth'))
  <2>1. CASE auth.there /\ auth' = after
    BY <1>2, <1>4, <2>1 DEF CoolInv, DataType, Gone
  <2>2. CASE auth' = auth
    BY <1>1, <1>2, <2>2 DEF CoolInv, DataType, Gone
  <2> QED
    BY <1>2, <2>1, <2>2
<1>8. PICK t : Moves(c, s, t) /\ Onward(s, t) /\ (auth.there \/ (Brings(t) => Brings(s)))
  <2>1. CASE /\ auth.there
             /\ calls' = [calls EXCEPT ![c] = [calls[c] EXCEPT !.steps = <<"upsert">> \o Tail(s), !.snap = auth']]
    <3> DEFINE t == <<"upsert">> \o Tail(s)
               r == [calls[c] EXCEPT !.steps = t, !.snap = auth']
    <3>1. t \in Plans /\ Onward(s, t)
      BY <1>5, <1>6
    <3>2. calls' = [calls EXCEPT ![c] = r]
      BY <2>1
    <3> HIDE DEF t
    <3>3. r \in Calls /\ r.steps = t /\ DatedAuth(r.snap) /\ ~Stores(t)
      <4>1. t \in Plans /\ ~Stores(t)
        BY <1>1, <1>7, <3>1 DEF Onward, Fresh, Stores
      <4>2. r \in Calls /\ r.steps = t /\ r.snap = auth'
        BY <1>1, <1>7, <3>1, <4>1 DEF Calls
      <4> HIDE DEF r
      <4> QED
        BY <1>1, <1>7, <3>1, <4>1, <4>2
    <3> HIDE DEF r
    <3>4. Moves(c, s, t)
      BY <3>2, <3>3, GoesOn
    <3> QED
      BY <2>1, <3>1, <3>4
  <2>2. CASE calls' = [calls EXCEPT ![c] = [calls[c] EXCEPT !.steps = Tail(s)]]
    <3> DEFINE t == Tail(s)
               r == [calls[c] EXCEPT !.steps = t]
    <3>1. t \in Plans /\ Onward(s, t) /\ (Brings(t) => Brings(s))
      BY <1>5
    <3>2. calls' = [calls EXCEPT ![c] = r]
      BY <2>2
    <3> HIDE DEF t
    <3>3. r \in Calls /\ r.steps = t /\ DatedAuth(r.snap) /\ ~Stores(t)
      BY <1>1, <3>1, Types, NewSteps DEF Onward
    <3> HIDE DEF r
    <3>4. Moves(c, s, t)
      BY <3>2, <3>3, GoesOn
    <3> QED
      BY <3>1, <3>4
  <2> QED
    BY <1>2, <2>1, <2>2
<1>9. ListingMove(s, t) /\ EntryMove(s, t)
  BY ONLY <1>2, <1>5, <1>7, <1>8 DEF ListingMove, EntryMove, Starts
<1>10. ColdMove(s, t)
  BY <1>2, <1>5, <1>7 DEF ColdMove, Starts
<1> HIDE DEF s
<1> QED
  BY <1>2, <1>7, <1>8, <1>9, <1>10, OnwardStep

(* RefreshSchedulerEntry                                                   *)
LEMMA RefreshStep ==
  ASSUME CoolInv, NEW c \in Callers, RefreshSchedulerEntry(c)
  PROVE  CoolInv'
<1> DEFINE s == calls[c].steps
           t == If(auth.there, <<"upsert">>) \o Tail(s)
           r == [calls[c] EXCEPT !.steps = t, !.snap = auth]
<1>1. auth \in AuthRecords /\ calls[c] \in Calls /\ DatedAuth(auth)
  BY Types DEF CoolInv
<1>2. /\ At(c, "refresh")
      /\ now' = now /\ off' = off /\ auth' = auth /\ mu' = mu /\ bound' = bound
      /\ sched' = sched /\ saved' = saved /\ pick' = pick /\ diskBehind' = diskBehind /\ exposed' = exposed
  BY DEF RefreshSchedulerEntry
<1>3. calls' = [calls EXCEPT ![c] = r]
  BY DEF RefreshSchedulerEntry
<1>4. auth.there \in BOOLEAN
  BY <1>1, AuthElim
<1>5. /\ t \in Plans /\ Onward(s, t) /\ Head(s) = "refresh"
      /\ Brings(t) => Brings(s) \/ auth.there
  BY <1>2, <1>4, NextPlan
<1> HIDE DEF t
<1>6. r \in Calls /\ r.steps = t /\ DatedAuth(r.snap) /\ ~Stores(t)
  <2>1. t \in Plans /\ ~Stores(t)
    BY <1>1, <1>5 DEF Onward, Fresh, Stores
  <2>2. r \in Calls /\ r.steps = t /\ r.snap = auth
    BY <1>1, <1>5, <2>1 DEF Calls
  <2> HIDE DEF r
  <2> QED
    BY <1>1, <1>5, <2>1, <2>2
<1> HIDE DEF r
<1>7. Moves(c, s, t)
  BY <1>3, <1>6, GoesOn
<1>8. DataType' /\ Gone' /\ DatedAuth(auth')
  BY <1>2 DEF CoolInv, DataType, Gone
<1>9. ListingMove(s, t) /\ EntryMove(s, t)
  BY ONLY <1>2, <1>5 DEF ListingMove, EntryMove, Starts
<1>10. ColdMove(s, t)
  BY <1>2, <1>5 DEF ColdMove, Starts
<1> HIDE DEF s
<1> QED
  BY <1>2, <1>5, <1>7, <1>8, <1>9, <1>10, OnwardStep

(* The registry forgets the credential's models.                           *)
LEMMA UnregisterStep ==
  ASSUME CoolInv, NEW c \in Callers, UnregisterModels(c)
  PROVE  CoolInv'
<1> DEFINE s == calls[c].steps
           t == Tail(s)
           r == [calls[c] EXCEPT !.steps = t]
<1>1. calls[c] \in Calls
  BY Types
<1>2. /\ At(c, "unregister") /\ bound' = FALSE
      /\ now' = now /\ off' = off /\ auth' = auth /\ mu' = mu /\ sched' = sched
      /\ saved' = saved /\ pick' = pick /\ diskBehind' = diskBehind /\ exposed' = exposed
  BY DEF UnregisterModels
<1>3. calls' = [calls EXCEPT ![c] = r]
  BY DEF UnregisterModels, Proceed
<1>4. t \in Plans /\ Onward(s, t) /\ Head(s) = "unregister"
  BY <1>2, NextPlan
<1> HIDE DEF t
<1>5. r \in Calls /\ r.steps = t /\ DatedAuth(r.snap) /\ ~Stores(t)
  BY <1>1, <1>4, Types, NewSteps DEF Onward
<1> HIDE DEF r
<1>6. Moves(c, s, t)
  BY <1>3, <1>5, GoesOn
<1>7. DataType' /\ Gone' /\ DatedAuth(auth')
  BY <1>2 DEF CoolInv, DataType, Gone
<1>8. ListingMove(s, t) /\ EntryMove(s, t)
  BY ONLY <1>2, <1>4 DEF ListingMove, EntryMove, Starts
<1>9. ColdMove(s, t)
  BY <1>2, <1>4 DEF ColdMove, Starts
<1> HIDE DEF s
<1> QED
  BY <1>2, <1>4, <1>6, <1>7, <1>8, <1>9, OnwardStep

(* Manager.Remove                                                          *)
LEMMA DeleteStep ==
  ASSUME CoolInv, NEW c \in Callers, DeleteAuth(c)
  PROVE  CoolInv'
<1> DEFINE s == calls[c].steps
           t == IF auth.there THEN Tail(s) ELSE <<>>
           r == [calls[c] EXCEPT !.steps = t]
<1>1. calls[c] \in Calls /\ auth \in AuthRecords /\ sched \in Entries
  BY Types
<1>2. /\ At(c, "delete")
      /\ now' = now /\ off' = off /\ mu' = mu /\ bound' = bound
      /\ saved' = saved /\ pick' = pick /\ diskBehind' = diskBehind
  BY DEF DeleteAuth
<1>3. calls' = [calls EXCEPT ![c] = r]
  BY DEF DeleteAuth, Proceed
<1>4. IF auth.there
      THEN auth' = NoAuth /\ sched' = Unaliased /\ exposed' = (bound /\ Carried)
      ELSE auth' = auth /\ sched' = sched /\ exposed' = exposed
  BY DEF DeleteAuth
<1>5. /\ s # <<>> /\ Head(s) = "delete" /\ Tail(s) \in Plans /\ Onward(s, Tail(s))
      /\ Brings(Tail(s)) => Brings(s)
  BY <1>2, Ahead, NextPlan
<1>6. /\ Starts(Tail(s), "removeEntry") /\ Saves(Tail(s)) /\ ~Holds(s) /\ ~Brings(Tail(s)) /\ ~Saves(s)
      /\ ~Starts(s, "clear")
  <2>1. Orderly(s, Tail(s))
    BY <1>2, Ahead
  <2> QED
    BY ONLY <1>5, <2>1 DEF Orderly, Starts, Saves
<1>7. /\ <<>> \in Plans /\ ~Holds(<<>>) /\ ~Brings(<<>>)
      /\ ~Starts(<<>>, "save") /\ ~Starts(<<>>, "clear")
  BY StartPlans
<1>8. t \in Plans /\ Onward(s, t) /\ ~Brings(t)
  <2>1. CASE auth.there
    BY <1>5, <1>6, <2>1
  <2>2. CASE ~auth.there
    <3>1. ~Starts(s, "save") /\ ~Stores(<<>>)
      BY ONLY <1>5 DEF Starts, Stores
    <3>2. Onward(s, <<>>)
      BY ONLY <1>5, <1>6, <1>7, <3>1 DEF Onward
    <3> QED
      BY <1>7, <2>2, <3>2
  <2> QED
    BY <2>1, <2>2
<1>9. auth.there => Starts(t, "removeEntry") /\ Saves(t)
  BY <1>6
<1> HIDE DEF t
<1>10. r \in Calls /\ r.steps = t /\ DatedAuth(r.snap) /\ ~Stores(t)
  BY <1>1, <1>8, Types, NewSteps DEF Onward
<1> HIDE DEF r
<1>11. Moves(c, s, t)
  BY <1>3, <1>10, GoesOn
<1>12. NoAuth \in AuthRecords /\ DatedAuth(NoAuth) /\ ColdAuth(NoAuth)
  BY FreshRecords DEF ColdAuth
<1>13. sched' \in Entries
  BY <1>1, <1>4, UnaliasedKeeps
<1>14. DataType' /\ Gone' /\ DatedAuth(auth')
  <2>1. CASE auth.there
    BY <1>2, <1>4, <1>12, <1>13, <2>1 DEF CoolInv, DataType, Gone
  <2>2. CASE ~auth.there
    BY <1>2, <1>4, <2>2 DEF CoolInv, DataType, Gone
  <2> QED
    BY <2>1, <2>2
<1>15. ListingMove(s, t) /\ EntryMove(s, t)
  BY ONLY <1>2, <1>4, <1>5, <1>8, <1>9 DEF ListingMove, EntryMove, Starts
<1>16. ColdMove(s, t)
  BY <1>2, <1>4, <1>6, <1>12 DEF ColdMove
<1>17. diskBehind' \/ Saves(t) \/ (diskBehind' = diskBehind /\ auth' = auth)
  BY <1>2, <1>4, <1>9
<1> HIDE DEF s
<1> QED
  BY <1>2, <1>8, <1>11, <1>14, <1>15, <1>16, <1>17, OnwardStep

(* Register and Update                                                     *)
LEMMA StoreStep ==
  ASSUME CoolInv, NEW c \in Callers, StoreAuth(c)
  PROVE  CoolInv'
<1> DEFINE s == calls[c].steps
           kind == Head(s)
           given == calls[c].snap
           inherits == kind # "create" /\ given.states = <<>> /\ ~auth.disabled /\ ~given.disabled
           filled == IF inherits THEN [given EXCEPT !.states = auth.states] ELSE given
           clears == off \/ given.disabled
           x == clears /\ AnyHot(filled)
           y == kind # "patch"
           u == <<"upsertAlias">> \o If(x, Persist) \o Rest(y)
           after == IF clears THEN Cleared(filled) ELSE filled
           stores == kind = "create" \/ auth.there
<1>1. /\ auth \in AuthRecords /\ calls[c] \in Calls /\ given \in AuthRecords /\ now \in Nat
      /\ off \in BOOLEAN /\ DatedAuth(given) /\ DatedAuth(auth) /\ sched \in Entries
  BY Types DEF CoolInv
<1>2. /\ now' = now /\ off' = off /\ mu' = mu /\ bound' = bound
      /\ saved' = saved /\ pick' = pick
  BY DEF StoreAuth
<1>3. PICK what \in {"create", "update", "patch"} : At(c, what)
  BY DEF StoreAuth
<1>4. s \in Plans /\ s # <<>> /\ kind = what /\ Orderly(s, Tail(s))
  BY <1>3, Ahead
<1>5. ~Holds(s) /\ ~Saves(s) /\ ~Starts(s, "save") /\ ~Starts(s, "clear") /\ ~Starts(s, "removeEntry")
  BY ONLY <1>3, <1>4 DEF Orderly, Starts
<1>6. filled \in AuthRecords /\ DatedAuth(filled) /\ filled.there = given.there
  <2>1. CASE inherits
    <3>1. filled = [given EXCEPT !.states = auth.states]
      BY <2>1
    <3> QED
      BY <1>1, <3>1, InheritKeeps
  <2>2. CASE ~inherits
    <3>1. filled = given
      BY <2>2
    <3> QED
      BY <1>1, <3>1
  <2> QED
    BY <2>1, <2>2
<1> HIDE DEF filled
<1>7. clears \in BOOLEAN /\ x \in BOOLEAN /\ y \in BOOLEAN
  BY <1>1, AuthElim DEF AnyHot, Hot
<1>8. /\ Fresh(u, "upsertAlias", FALSE, TRUE)
      /\ Rest(y) \in Plans /\ ~Holds(Rest(y)) /\ ~Brings(Rest(y))
      /\ ~Starts(Rest(y), "save") /\ ~Starts(Rest(y), "clear") /\ ~Starts(Rest(y), "removeEntry")
      /\ ~Stores(Rest(y))
  <2>1. \A w : w # "register" => ~Starts(Rest(y), w)
    BY <1>7, StartPlans
  <2>2. ~Stores(Rest(y))
    BY ONLY <2>1 DEF Stores, Starts
  <2> HIDE DEF x, y
  <2> QED
    BY <1>7, <2>1, <2>2, StartPlans
<1>9. /\ after \in AuthRecords /\ DatedAuth(after) /\ (off => ColdAuth(after))
      /\ after.there = given.there
  BY <1>1, <1>6, ClearedKeeps
<1>10. /\ stores => /\ auth' = after /\ sched' = Unaliased /\ diskBehind' /\ ~exposed'
                     /\ calls' = [calls EXCEPT ![c] = [calls[c] EXCEPT !.steps = u, !.snap = after]]
       /\ ~stores => /\ auth' = auth /\ sched' = sched /\ diskBehind' = diskBehind /\ exposed' = exposed
                      /\ calls' = [calls EXCEPT ![c] = [calls[c] EXCEPT !.steps = Rest(y),
                                                                         !.snap = Parted(given)]]
  <2>1. IF stores
        THEN /\ auth' = after /\ sched' = Unaliased /\ diskBehind' = TRUE /\ exposed' = FALSE
             /\ calls' = [calls EXCEPT ![c].snap = after, ![c].steps = u]
        ELSE /\ auth' = auth /\ sched' = sched /\ diskBehind' = diskBehind /\ exposed' = exposed
             /\ calls' = [calls EXCEPT ![c].snap = Parted(@), ![c].steps = Rest(y)]
    BY DEF StoreAuth, Rest, filled
  <2> HIDE DEF u, after, y
  <2> QED
    BY <2>1
<1>11. sched' \in Entries
  <2>1. Unaliased \in Entries
    BY UnaliasedKeeps
  <2>2. sched' = Unaliased \/ sched' = sched
    BY DEF StoreAuth
  <2> QED
    BY <1>1, <2>1, <2>2
<1> HIDE DEF x, y, u, after
<1>12. CASE stores
  <2> DEFINE r == [calls[c] EXCEPT !.steps = u, !.snap = after]
  <2>1. r \in Calls /\ r.steps = u /\ DatedAuth(r.snap) /\ ~Stores(u)
    <3>1. u \in Plans /\ ~Stores(u)
      BY <1>1, <1>8, <1>9 DEF Onward, Fresh, Stores
    <3>2. r \in Calls /\ r.steps = u /\ r.snap = after
      BY <1>1, <1>8, <1>9, <3>1 DEF Calls
    <3> HIDE DEF r
    <3> QED
      BY <1>1, <1>8, <1>9, <3>1, <3>2
  <2>2. calls' = [calls EXCEPT ![c] = r]
    BY <1>10, <1>12
  <2> HIDE DEF r
  <2>3. Moves(c, s, u)
    BY <2>1, <2>2, GoesOn
  <2>4. given.there
    BY <1>3, <1>4 DEF CoolInv, Storing, Stores
  <2>5. auth'.there /\ auth' \in AuthRecords /\ DatedAuth(auth')
    BY <1>9, <1>10, <1>12, <2>4
  <2>6. DataType' /\ Gone'
    BY <1>2, <1>11, <2>5 DEF CoolInv, DataType, Gone
  <2>7. /\ LockMove(c, s, u) /\ ListingMove(s, u) /\ EntryMove(s, u) /\ DiskMove(c, s, u)
        /\ PickMove(s)
    BY ONLY <1>2, <1>4, <1>5, <1>8, <1>10, <1>12, <2>5
    DEF LockMove, ListingMove, EntryMove, DiskMove, PickMove, Fresh
  <2>8. ColdMove(s, u)
    BY <1>2, <1>9, <1>10, <1>12 DEF ColdMove
  <2> QED
    BY <2>3, <2>5, <2>6, <2>7, <2>8, CallStep
<1>13. CASE ~stores
  <2> DEFINE t == Rest(y)
             r == [calls[c] EXCEPT !.steps = t, !.snap = Parted(given)]
  <2>1. Parted(given) \in AuthRecords /\ DatedAuth(Parted(given))
    BY <1>1, PartedKeeps
  <2>2. r \in Calls /\ r.steps = t /\ DatedAuth(r.snap) /\ ~Stores(t)
    <3>1. t \in Plans /\ ~Stores(t)
      BY <1>1, <1>8, <2>1 DEF Onward, Fresh, Stores
    <3>2. r \in Calls /\ r.steps = t /\ r.snap = Parted(given)
      BY <1>1, <1>8, <2>1, <3>1 DEF Calls
    <3> HIDE DEF r
    <3> QED
      BY <1>1, <1>8, <2>1, <3>1, <3>2
  <2>3. calls' = [calls EXCEPT ![c] = r]
    BY <1>10, <1>13
  <2> HIDE DEF r
  <2>4. Moves(c, s, t)
    BY <2>2, <2>3, GoesOn
  <2>5. DataType' /\ Gone' /\ DatedAuth(auth')
    BY <1>2, <1>10, <1>13 DEF CoolInv, DataType, Gone
  <2>6. Onward(s, t)
    BY ONLY <1>4, <1>5, <1>8 DEF Onward
  <2>7. ListingMove(s, t) /\ EntryMove(s, t) /\ ColdMove(s, t)
    BY ONLY <1>2, <1>5, <1>8, <1>10, <1>13 DEF ListingMove, EntryMove, ColdMove
  <2> HIDE DEF s, t
  <2> QED
    BY <1>2, <1>10, <1>13, <2>4, <2>5, <2>6, <2>7, OnwardStep
<1> QED
  BY <1>12, <1>13

(* authScheduler.upsertAuth, of a snapshot or of the record itself.        *)
LEMMA UpsertStep ==
  ASSUME CoolInv, NEW c \in Callers, UpsertAuth(c) \/ UpsertStored(c)
  PROVE  CoolInv'
<1> DEFINE s == calls[c].steps
           t == Tail(s)
<1>1. calls[c] \in Calls /\ calls[c].snap \in AuthRecords /\ auth \in AuthRecords
  BY Types
<1>2. PICK what \in {"upsert", "upsertAlias"}, alias \in BOOLEAN :
        At(c, what) /\ sched' = Entry(calls[c].snap, alias)
  BY DEF UpsertAuth, UpsertStored
<1>3. /\ now' = now /\ off' = off /\ auth' = auth /\ mu' = mu /\ bound' = bound
      /\ saved' = saved /\ pick' = pick /\ diskBehind' = diskBehind /\ exposed' = exposed
  BY DEF UpsertAuth, UpsertStored
<1>12. PICK a \in {NoAuth, Parted(calls[c].snap)} :
         calls' = [calls EXCEPT ![c] = [calls[c] EXCEPT !.steps = t, !.snap = a]]
  BY DEF UpsertAuth, UpsertStored
<1> DEFINE r == [calls[c] EXCEPT !.steps = t, !.snap = a]
<1>4. calls' = [calls EXCEPT ![c] = r]
  BY <1>12
<1>5. t \in Plans /\ Onward(s, t) /\ Head(s) = what /\ Brings(s) /\ (Brings(t) => Brings(s))
  <2>1. Orderly(s, t)
    BY <1>2, Ahead
  <2>2. Head(s) = what
    BY <1>2, NextPlan
  <2>3. Brings(s)
    BY ONLY <1>2, <2>1, <2>2 DEF Orderly, Brings
  <2> QED
    BY <1>2, <2>3, NextPlan
<1>13. a \in AuthRecords /\ DatedAuth(a)
  BY <1>1, PartedKeeps, FreshRecords
<1> HIDE DEF t
<1>6. r \in Calls /\ r.steps = t /\ DatedAuth(r.snap) /\ ~Stores(t)
  <2>1. t \in Plans /\ ~Stores(t)
    BY <1>1, <1>5, <1>13 DEF Onward, Fresh, Stores
  <2>2. r \in Calls /\ r.steps = t /\ r.snap = a
    BY <1>1, <1>5, <1>13, <2>1 DEF Calls
  <2> HIDE DEF r
  <2> QED
    BY <1>1, <1>5, <1>13, <2>1, <2>2
<1> HIDE DEF r
<1>7. Moves(c, s, t)
  BY <1>4, <1>6, GoesOn
<1>8. sched' \in Entries /\ sched'.bound \in {FALSE, bound}
  BY <1>1, <1>2, EntryKeeps
<1>9. DataType' /\ Gone' /\ DatedAuth(auth')
  BY <1>3, <1>8 DEF CoolInv, DataType, Gone
<1>10. ListingMove(s, t) /\ EntryMove(s, t)
  BY ONLY <1>2, <1>3, <1>5, <1>8 DEF ListingMove, EntryMove, Starts
<1>11. ColdMove(s, t)
  BY <1>2, <1>3, <1>5 DEF ColdMove, Starts
<1> HIDE DEF s
<1> QED
  BY <1>3, <1>5, <1>7, <1>9, <1>10, <1>11, OnwardStep

(* authScheduler.removeAuth                                                *)
LEMMA RemoveEntryStep ==
  ASSUME CoolInv, NEW c \in Callers, RemoveEntry(c)
  PROVE  CoolInv'
<1> DEFINE s == calls[c].steps
           t == Tail(s)
           r == [calls[c] EXCEPT !.steps = t]
<1>1. calls[c] \in Calls
  BY Types
<1>2. /\ At(c, "removeEntry") /\ sched' = NoEntry
      /\ now' = now /\ off' = off /\ auth' = auth /\ mu' = mu /\ bound' = bound
      /\ saved' = saved /\ pick' = pick /\ diskBehind' = diskBehind /\ exposed' = exposed
  BY DEF RemoveEntry
<1>3. calls' = [calls EXCEPT ![c] = r]
  BY DEF RemoveEntry, Proceed
<1>4. t \in Plans /\ Onward(s, t) /\ Head(s) = "removeEntry" /\ (Brings(t) => Brings(s))
  BY <1>2, NextPlan
<1> HIDE DEF t
<1>5. r \in Calls /\ r.steps = t /\ DatedAuth(r.snap) /\ ~Stores(t)
  BY <1>1, <1>4, Types, NewSteps DEF Onward
<1> HIDE DEF r
<1>6. Moves(c, s, t)
  BY <1>3, <1>5, GoesOn
<1>7. NoEntry \in Entries /\ ~NoEntry.bound
  BY FreshRecords DEF NoEntry, Entries
<1>8. DataType' /\ Gone' /\ DatedAuth(auth')
  BY <1>2, <1>7 DEF CoolInv, DataType, Gone
<1>9. ListingMove(s, t) /\ EntryMove(s, t)
  BY ONLY <1>2, <1>4, <1>7 DEF ListingMove, EntryMove
<1>10. ColdMove(s, t)
  BY <1>2, <1>4 DEF ColdMove, Starts
<1> HIDE DEF s
<1> QED
  BY <1>2, <1>4, <1>6, <1>8, <1>9, <1>10, OnwardStep

(* RestoreCooldownStates merges what it read.                              *)
LEMMA MergeStep ==
  ASSUME CoolInv, NEW c \in Callers, RestoreMerge(c)
  PROVE  CoolInv'
<1> DEFINE s == calls[c].steps
           R == calls[c].records
           x == Restorable(auth, R) # {}
           t == If(x, <<"upsert">>) \o Tail(s)
           q == [calls[c] EXCEPT !.steps = t, !.snap = auth']
           r == [q EXCEPT !.records = {}]
<1>1. /\ auth \in AuthRecords /\ now \in Nat /\ calls[c] \in Calls
      /\ R \in SUBSET CooldownRecords /\ off \in BOOLEAN
  BY Types
<1>2. /\ At(c, "merge") /\ auth' = WithRecords(auth, R)
      /\ now' = now /\ off' = off /\ mu' = mu /\ bound' = bound /\ sched' = sched
      /\ saved' = saved /\ pick' = pick /\ diskBehind' = diskBehind /\ exposed' = exposed
  BY DEF RestoreMerge
<1>3. calls' = [calls EXCEPT ![c] = r]
  BY <1>1 DEF RestoreMerge, Calls
<1>4. x \in BOOLEAN
  OBVIOUS
<1>5. /\ t \in Plans /\ Onward(s, t) /\ Head(s) = "merge"
      /\ Brings(t) => Brings(s) \/ x
  BY <1>2, <1>4, NextPlan
<1>6. Saves(t)
  <2>1. Orderly(s, Tail(s))
    BY <1>2, Ahead
  <2>2. Saves(s)
    BY ONLY <1>5, <2>1 DEF Orderly, Saves
  <2> QED
    BY ONLY <1>5, <2>2 DEF Onward
<1>7. /\ auth' \in AuthRecords /\ auth'.there = auth.there /\ DatedAuth(auth')
      /\ off \/ ~auth.there => auth' = auth
      /\ x => auth.there
  <2>1. off \/ ~auth.there => Restorable(auth, R) = {}
    BY DEF Restorable
  <2> QED
    BY <1>1, <1>2, <2>1, RestoreKeeps DEF CoolInv
<1> HIDE DEF x, t
<1>8. r \in Calls /\ r.steps = t /\ DatedAuth(r.snap) /\ ~Stores(t)
  <2>1. q \in Calls /\ q.steps = t /\ q.snap = auth'
    BY <1>1, <1>5, <1>7 DEF Calls
  <2> HIDE DEF q
  <2>2. r \in Calls /\ r.steps = t /\ r.snap = auth'
    BY <2>1 DEF Calls
  <2> HIDE DEF r
  <2> QED
    BY <1>5, <1>7, <2>2 DEF Onward
<1> HIDE DEF r
<1>9. Moves(c, s, t)
  BY <1>3, <1>8, GoesOn
<1>10. DataType' /\ Gone'
  BY <1>2, <1>7 DEF CoolInv, DataType, Gone
<1>11. ListingMove(s, t) /\ EntryMove(s, t)
  BY ONLY <1>2, <1>5, <1>7 DEF ListingMove, EntryMove, Starts
<1>12. ColdMove(s, t)
  BY <1>2, <1>5, <1>7 DEF ColdMove, Starts
<1> HIDE DEF s
<1> QED
  BY <1>2, <1>5, <1>6, <1>7, <1>9, <1>10, <1>11, <1>12, OnwardStep

(* persistCooldownStates takes the lock and gives it back.                 *)
LEMMA LockStep ==
  ASSUME CoolInv, NEW c \in Callers, LockPersist(c) \/ Unlock(c)
  PROVE  CoolInv'
<1> DEFINE s == calls[c].steps
           t == Tail(s)
           r == [calls[c] EXCEPT !.steps = t]
<1>1. calls[c] \in Calls
  BY Types
<1>2. /\ now' = now /\ off' = off /\ auth' = auth /\ bound' = bound /\ sched' = sched
      /\ saved' = saved /\ pick' = pick /\ diskBehind' = diskBehind /\ exposed' = exposed
  BY DEF LockPersist, Unlock
<1>3. calls' = [calls EXCEPT ![c] = r]
  BY DEF LockPersist, Unlock, Proceed
<1>4. PICK what \in {"lock", "unlock"} :
        At(c, what) /\ (IF what = "lock" THEN mu = NoModel /\ mu' = c ELSE mu' = NoModel)
  BY DEF LockPersist, Unlock
<1>5. t \in Plans /\ s # <<>> /\ Head(s) = what /\ Orderly(s, t)
  BY <1>4, Ahead
<1>6. /\ what = "lock" => Holds(t)
      /\ what = "unlock" => Holds(s) /\ ~Holds(t)
      /\ Brings(t) => Brings(s)
      /\ ~Starts(s, "removeEntry") /\ ~Stores(t)
      /\ Saves(s) => Saves(t)
      /\ ~Starts(s, "save") /\ ~Starts(t, "save") /\ ~Starts(s, "clear")
  BY ONLY <1>4, <1>5 DEF Orderly, Brings, Saves, Starts
<1> HIDE DEF t
<1>7. r \in Calls /\ r.steps = t /\ DatedAuth(r.snap) /\ ~Stores(t)
  BY <1>1, <1>5, <1>6, Types, NewSteps
<1> HIDE DEF r
<1>8. Moves(c, s, t)
  BY <1>3, <1>7, GoesOn
<1>9. mu' \in Callers \cup {NoModel}
  BY <1>4
<1>10. DataType' /\ Gone' /\ DatedAuth(auth')
  BY <1>2, <1>9 DEF CoolInv, DataType, Gone
<1>11. Records(auth)' = Records(auth)
  BY <1>2, SameRecords
<1> HIDE DEF s
<1>12. /\ LockMove(c, s, t) /\ ListingMove(s, t) /\ EntryMove(s, t)
       /\ DiskMove(c, s, t) /\ ColdMove(s, t) /\ PickMove(s)
  BY ONLY <1>2, <1>4, <1>5, <1>6, <1>11
  DEF LockMove, ListingMove, EntryMove, DiskMove, ColdMove, PickMove
<1> QED
  BY <1>8, <1>10, <1>12, CallStep

(* persistCooldownStates takes the records ...                             *)
LEMMA SnapshotStep ==
  ASSUME CoolInv, NEW c \in Callers, SnapshotRecords(c)
  PROVE  CoolInv'
<1> DEFINE s == calls[c].steps
           t == Tail(s)
           r == [calls[c] EXCEPT !.steps = t, !.records = Records(auth)]
<1>1. calls[c] \in Calls /\ auth \in AuthRecords /\ now \in Nat
  BY Types
<1>2. /\ At(c, "records")
      /\ now' = now /\ off' = off /\ auth' = auth /\ mu' = mu /\ bound' = bound
      /\ sched' = sched /\ saved' = saved /\ pick' = pick /\ exposed' = exposed
  BY DEF SnapshotRecords
<1>3. calls' = [calls EXCEPT ![c] = r]
  BY DEF SnapshotRecords
<1>4. t \in Plans /\ s # <<>> /\ Head(s) = "records" /\ Orderly(s, t)
  BY <1>2, Ahead
<1>5. /\ Holds(t) <=> Holds(s)
      /\ Brings(t) => Brings(s)
      /\ ~Starts(s, "removeEntry") /\ ~Stores(t)
      /\ Starts(t, "save") /\ ~Starts(s, "clear")
  BY ONLY <1>4 DEF Orderly, Brings, Saves, Starts
<1> HIDE DEF t
<1>6. Records(auth) \in SUBSET CooldownRecords /\ Live(Records(auth)) = Records(auth)
  BY <1>1, RecordsAreLive
<1>7. r \in Calls /\ r.steps = t /\ r.records = Records(auth) /\ r.snap = calls[c].snap
  BY ONLY <1>1, <1>4, <1>6 DEF Calls
<1> HIDE DEF r
<1>8. Moves(c, s, t) /\ calls'[c].records = Records(auth)
  BY <1>3, <1>5, <1>7, Types, GoesOn
<1>9. DataType' /\ Gone' /\ DatedAuth(auth')
  BY <1>2 DEF CoolInv, DataType, Gone
<1>10. DiskMove(c, s, t)
  <2>1. Records(auth)' = Records(auth)
    BY <1>2, SameRecords
  <2>2. Live(calls[c].records)' = Live(Records(auth))
    BY <1>2, <1>8 DEF Live
  <2> QED
    BY <1>5, <1>6, <2>1, <2>2 DEF DiskMove
<1> HIDE DEF s
<1>11. /\ LockMove(c, s, t) /\ ListingMove(s, t) /\ EntryMove(s, t)
       /\ ColdMove(s, t) /\ PickMove(s)
  BY ONLY <1>2, <1>4, <1>5
  DEF LockMove, ListingMove, EntryMove, ColdMove, PickMove
<1> QED
  BY <1>8, <1>9, <1>10, <1>11, CallStep

(* ... and writes them.                                                    *)
LEMMA SaveStep ==
  ASSUME CoolInv, NEW c \in Callers, SaveRecords(c)
  PROVE  CoolInv'
<1> DEFINE s == calls[c].steps
           t == Tail(s)
           r == [calls[c] EXCEPT !.steps = t, !.records = {}]
<1>1. calls[c] \in Calls /\ saved \in SUBSET CooldownRecords /\ calls[c].records \in SUBSET CooldownRecords
  BY Types
<1>2. /\ At(c, "save")
      /\ \/ saved' = calls[c].records /\ diskBehind' = diskBehind
         \/ diskBehind' /\ saved' = saved
      /\ now' = now /\ off' = off /\ auth' = auth /\ mu' = mu /\ bound' = bound
      /\ sched' = sched /\ pick' = pick /\ exposed' = exposed
  BY DEF SaveRecords
<1>3. calls' = [calls EXCEPT ![c] = r]
  BY DEF SaveRecords
<1>4. t \in Plans /\ s # <<>> /\ Head(s) = "save" /\ Orderly(s, t)
  BY <1>2, Ahead
<1>5. /\ Holds(t) <=> Holds(s)
      /\ Brings(t) => Brings(s)
      /\ ~Starts(s, "removeEntry") /\ ~Stores(t)
      /\ Starts(s, "save") /\ Holds(s) /\ ~Saves(s) /\ ~Starts(t, "save")
      /\ ~Starts(s, "clear")
  BY ONLY <1>4 DEF Orderly, Brings, Saves, Starts
<1> HIDE DEF t
<1>6. {} \in SUBSET CooldownRecords
  OBVIOUS
<1>7. r \in Calls /\ r.steps = t /\ r.snap = calls[c].snap
  BY ONLY <1>1, <1>4, <1>6 DEF Calls
<1> HIDE DEF r
<1>8. Moves(c, s, t)
  BY <1>3, <1>5, <1>7, Types, GoesOn
<1>9. saved' \subseteq CooldownRecords
  BY <1>1, <1>2
<1>10. DataType' /\ Gone' /\ DatedAuth(auth')
  BY <1>2, <1>9 DEF CoolInv, DataType, Gone
<1>11. DiskMove(c, s, t)
  <2>1. Records(auth)' = Records(auth)
    BY <1>2, SameRecords
  <2> QED
    BY <1>2, <1>5, <2>1 DEF DiskMove
<1> HIDE DEF s
<1>12. /\ LockMove(c, s, t) /\ ListingMove(s, t) /\ EntryMove(s, t)
       /\ ColdMove(s, t) /\ PickMove(s)
  BY ONLY <1>2, <1>4, <1>5
  DEF LockMove, ListingMove, EntryMove, ColdMove, PickMove
<1> QED
  BY <1>8, <1>10, <1>11, <1>12, CallStep

(* A crash and the restart that follows.                                   *)
LEMMA RestartStep ==
  ASSUME CoolInv, NEW c \in Callers, Restart(c)
  PROVE  CoolInv'
<1> DEFINE p == <<"merge">> \o Persist
           Plan(d) == If(d = c /\ saved # {}, p)
<1>1. /\ auth \in AuthRecords /\ saved \in SUBSET CooldownRecords /\ now \in Nat
      /\ \A d \in Callers : calls[d] \in Calls
  BY Types
<1>2. /\ auth' = (IF auth.there THEN FreshAuth(auth.disabled) ELSE NoAuth)
      /\ calls' = [d \in Callers |-> [steps |-> Plan(d), snap |-> NoAuth,
                                      records |-> IF d = c THEN saved ELSE {}, begun |-> calls[d].begun]]
      /\ mu' = NoModel /\ bound' = FALSE
      /\ sched' = (IF auth.there /\ ~auth.disabled
                   THEN [auth |-> FreshAuth(FALSE), bound |-> FALSE, alias |-> FALSE] ELSE NoEntry)
      /\ pick' = [pc |-> "idle", model |-> NoModel, quiet |-> FALSE, snap |-> NoAuth]
      /\ now' = now /\ off' = off /\ saved' = saved
  BY DEF Restart
<1>3. Fresh(p, "merge", FALSE, FALSE) /\ Saves(p)
  BY StartPlans
<1>4. /\ <<>> \in Plans /\ ~Holds(<<>>) /\ ~Brings(<<>>)
      /\ \A what : ~Has(<<>>, what)
  BY StartPlans
<1> HIDE DEF p
<1>5. \A d \in Callers : /\ Plan(d) \in Plans /\ ~Holds(Plan(d)) /\ ~Stores(Plan(d))
                         /\ ~Starts(Plan(d), "save")
                         /\ Saves(Plan(d)) <=> d = c /\ saved # {}
  <2> SUFFICES ASSUME NEW d \in Callers
               PROVE  /\ Plan(d) \in Plans /\ ~Holds(Plan(d)) /\ ~Stores(Plan(d))
                      /\ ~Starts(Plan(d), "save")
                      /\ Saves(Plan(d)) <=> d = c /\ saved # {}
    OBVIOUS
  <2>1. CASE d = c /\ saved # {}
    <3>1. Plan(d) = p
      BY <2>1 DEF If
    <3> HIDE DEF Plan
    <3> QED
      BY <1>3, <2>1, <3>1 DEF Fresh, Starts, Stores
  <2>2. CASE ~(d = c /\ saved # {})
    <3>1. Plan(d) = <<>>
      BY <2>2 DEF If
    <3>2. ~Starts(<<>>, "save") /\ ~Stores(<<>>)
      BY DEF Starts, Stores
    <3>3. ~Saves(<<>>)
      BY <1>4 DEF Saves
    <3> HIDE DEF Plan
    <3> QED
      BY <1>4, <2>2, <3>1, <3>2, <3>3
  <2> QED
    BY <2>1, <2>2
<1> HIDE DEF Plan
<1>6. \A d \in Callers : calls'[d].steps = Plan(d)
  BY <1>2
<1>7. auth.disabled \in BOOLEAN
  BY <1>1, AuthElim
<1>8. /\ NoAuth \in AuthRecords /\ auth' \in AuthRecords /\ auth'.own = Clean
      /\ auth'.states = <<>> /\ (~auth'.there => auth' = NoAuth)
  BY <1>2, <1>7, FreshRecords
<1>9. CallsType'
  <2>1. \A d \in Callers : [steps |-> Plan(d), snap |-> NoAuth,
                            records |-> IF d = c THEN saved ELSE {}, begun |-> calls[d].begun] \in Calls
    <3> SUFFICES ASSUME NEW d \in Callers
                 PROVE  [steps |-> Plan(d), snap |-> NoAuth,
                         records |-> IF d = c THEN saved ELSE {}, begun |-> calls[d].begun] \in Calls
      OBVIOUS
    <3>1. Plan(d) \in Plans /\ calls[d].begun \in Nat
      BY <1>1, <1>5 DEF Calls
    <3>2. (IF d = c THEN saved ELSE {}) \in SUBSET CooldownRecords
      BY <1>1
    <3> QED
      BY <1>8, <3>1, <3>2 DEF Calls
  <2> QED
    BY <1>2, <2>1 DEF CallsType
<1>10. sched' \in Entries /\ ~sched'.bound
  BY <1>2, FreshRecords DEF NoEntry, Entries
<1>11. pick' \in Picks /\ ~pick'.quiet
  BY <1>2, <1>8 DEF Picks
<1>12. DataType' /\ Gone'
  BY <1>2, <1>8, <1>10, <1>11 DEF CoolInv, DataType, Gone
<1>13. DatedAuth(auth') /\ ColdAuth(auth')
  BY <1>8, FreshRecords DEF DatedAuth, ColdAuth
<1>14. DatedAuth(auth)' /\ ColdWhenOff'
  BY <1>13 DEF ColdWhenOff, DatedAuth, ColdAuth, Dated, Hot
<1>15. Holding'
  <2>1. NoModel \notin Callers
    BY CooldownAssumption
  <2>2. \A d \in Callers : mu' = d <=> Holds(calls'[d].steps)
    BY <1>2, <1>5, <1>6, <2>1
  <2> QED
    BY <2>2 DEF Holding, Holds, Has
<1>16. SnapsDated' /\ Storing'
  <2>1. \A d \in Callers : calls'[d].snap = NoAuth
    BY <1>2
  <2>2. \A d \in Callers : DatedAuth(calls'[d].snap) /\ ~Stores(calls'[d].steps)
    BY <1>5, <1>6, <2>1, FreshRecords
  <2> QED
    BY <2>2 DEF SnapsDated, Storing, DatedAuth, Dated, Stores
<1>17. Unlisted' /\ Unrouted'
  BY <1>2, <1>10 DEF Unlisted, Unrouted
<1>18. PickSees'
  BY <1>11 DEF PickSees
<1>19. Saving'
  <2>1. CASE saved # {}
    <3>1. Saves(calls'[c].steps)
      BY <1>5, <1>6, <2>1
    <3> QED
      BY <3>1 DEF Saving, Saves, Has
  <2>2. CASE saved = {}
    <3>1. \A d \in Callers : ~Starts(calls'[d].steps, "save")
      BY <1>5, <1>6
    <3>2. Live(saved)' = {}
      BY <1>2, <2>2 DEF Live
    <3>3. Records(auth)' = {}
      <4>1. Records(auth)' = Records(auth')
        BY <1>2, SameRecords
      <4>2. Records(auth') = {}
        BY <1>8 DEF Records, Recorded, Clean
      <4> QED
        BY <4>1, <4>2
    <3> QED
      BY <3>1, <3>2, <3>3 DEF Saving, Starts
  <2> QED
    BY <2>1, <2>2
<1> QED
  BY <1>9, <1>12, <1>14, <1>15, <1>16, <1>17, <1>18, <1>19 DEF CoolInv

(* pickNext                                                                *)
LEMMA PickStep ==
  ASSUME CoolInv, Pick
  PROVE  CoolInv'
<1>1. /\ now' = now /\ off' = off /\ auth' = auth /\ calls' = calls /\ mu' = mu
      /\ bound' = bound /\ saved' = saved /\ diskBehind' = diskBehind /\ exposed' = exposed
  BY DEF Pick, PickStart, PickFirst, PickSnapshot, PickRebuild, PickSecond, PickEnd
<1>2. pick \in Picks /\ sched \in Entries /\ auth \in AuthRecords /\ NoAuth \in AuthRecords
  BY Types, FreshRecords
<1>3. pick.snap \in AuthRecords
  BY <1>2 DEF Picks
<1>4. (\A c \in Callers : calls[c].steps = <<>>) \in BOOLEAN
  OBVIOUS
<1>5. Unlisted /\ PickSees /\ Unrouted
  BY DEF CoolInv
<1>6. /\ pick' \in Picks /\ sched' \in Entries /\ PickSees'
      /\ pick'.snap.there => pick.snap.there \/ auth.there
      /\ \/ sched'.bound \in {FALSE, sched.bound}
         \/ sched'.bound = bound /\ pick.snap.there
  <2>1. CASE PickStart
    <3>1. PICK m \in Models : pick' = [pc |-> "first", model |-> m, quiet |-> AtRest, snap |-> NoAuth]
      BY <2>1 DEF PickStart
    <3>2. AtRest \in BOOLEAN /\ (AtRest <=> \A c \in Callers : calls[c].steps = <<>>)
      BY DEF AtRest, Idle
    <3>3. sched' = sched
      BY <2>1 DEF PickStart
    <3>4. pick' \in Picks /\ pick'.pc = "first" /\ (pick'.quiet <=> AtRest) /\ ~pick'.snap.there
      BY <1>2, <3>1, <3>2, FreshRecords DEF Picks
    <3> QED
      BY <1>1, <1>2, <3>2, <3>3, <3>4 DEF PickSees
  <2>2. CASE PickFirst
    <3>1. pick.pc = "first" /\ sched' = sched
      BY <2>2 DEF PickFirst
    <3>2. PICK pc \in {"got", "sync"} : pick' = [pick EXCEPT !.pc = pc]
      BY <2>2 DEF PickFirst
    <3>3. pick' \in Picks /\ pick'.pc = pc /\ pick'.quiet = pick.quiet /\ pick'.snap = pick.snap
      BY <1>2, <3>2 DEF Picks
    <3> QED
      BY <1>1, <1>2, <1>5, <3>1, <3>2, <3>3 DEF PickSees
  <2>3. CASE PickSnapshot
    <3>1. pick.pc = "sync" /\ sched' = sched /\ pick' = [pick EXCEPT !.pc = "rebuild", !.snap = auth]
      BY <2>3 DEF PickSnapshot
    <3>2. /\ pick' \in Picks /\ pick'.pc = "rebuild" /\ pick'.quiet = pick.quiet
          /\ pick'.snap = auth
      BY <1>2, <3>1 DEF Picks
    <3> QED
      BY <1>1, <1>2, <1>5, <3>1, <3>2 DEF PickSees
  <2>4. CASE PickRebuild
    <3>1. /\ pick.pc = "rebuild" /\ sched' = Entry(pick.snap, FALSE)
          /\ pick' = [pick EXCEPT !.pc = "second", !.snap = NoAuth]
      BY <2>4 DEF PickRebuild
    <3>2. pick' \in Picks /\ pick'.pc = "second" /\ pick'.quiet = pick.quiet /\ pick'.snap = NoAuth
      BY <1>2, <3>1 DEF Picks
    <3>7. sched' \in Entries /\ sched'.bound \in {FALSE, bound}
      BY <1>3, <3>1, EntryKeeps
    <3>3. sched' \in Entries /\ (sched'.bound = FALSE \/ (sched'.bound = bound /\ pick.snap.there))
      BY <3>1, <3>7 DEF Entry, NoEntry
    <3>4. Entry(auth, FALSE)' = Entry(auth, FALSE)
      BY <1>1 DEF Entry, NoEntry, NoAuth, Clean
    <3>5. pick.quiet => (\A c \in Callers : calls[c].steps = <<>>) /\ pick.snap = auth
      BY <1>5, <3>1 DEF PickSees
    <3>6. PickSees'
      BY <1>1, <3>1, <3>2, <3>4, <3>5 DEF PickSees
    <3> QED
      BY <3>2, <3>3, <3>6, FreshRecords
  <2>5. CASE PickSecond
    <3>1. pick.pc = "second" /\ sched' = sched
      BY <2>5 DEF PickSecond
    <3>2. PICK pc \in {"got", "failed"} : pick' = [pick EXCEPT !.pc = pc]
      BY <2>5 DEF PickSecond
    <3>3. pick' \in Picks /\ pick'.pc = pc /\ pick'.snap = pick.snap
      BY <1>2, <3>2 DEF Picks
    <3> QED
      BY <1>2, <3>1, <3>2, <3>3 DEF PickSees
  <2>6. CASE PickEnd
    <3>1. /\ sched' = sched
          /\ pick' = [pc |-> "idle", model |-> NoModel, quiet |-> FALSE, snap |-> NoAuth]
      BY <2>6 DEF PickEnd
    <3>2. pick' \in Picks /\ ~pick'.quiet /\ ~pick'.snap.there
      BY <1>2, <3>1, FreshRecords DEF Picks
    <3> QED
      BY <1>2, <3>1, <3>2 DEF PickSees
  <2> QED
    BY <2>1, <2>2, <2>3, <2>4, <2>5, <2>6 DEF Pick
<1>7. DataType' /\ CallsType' /\ Gone' /\ Holding'
  BY <1>1, <1>6 DEF CoolInv, DataType, CallsType, Gone, Holding, Holds, Has
<1>11. SnapsDated' /\ Storing'
  BY <1>1 DEF CoolInv, SnapsDated, Storing, DatedAuth, Dated, Stores
<1>12. Carried' => Carried \/ auth.there
  BY <1>1, <1>6 DEF Carried, Awaits
<1>13. Unlisted'
  BY <1>1, <1>5, <1>12 DEF Unlisted
<1>8. DatedAuth(auth)' /\ ColdWhenOff'
  BY <1>1 DEF CoolInv, DatedAuth, ColdWhenOff, ColdAuth, Dated, Hot, Starts
<1>9. Saving'
  <2>1. Records(auth)' = Records(auth)
    BY <1>1, SameRecords
  <2>2. Live(saved)' = Live(saved) /\ \A c \in Callers : Live(calls[c].records)' = Live(calls[c].records)
    BY <1>1 DEF Live
  <2> QED
    BY <1>1, <2>1, <2>2 DEF CoolInv, Saving, Saves, Has, Starts
<1>10. Unrouted'
  <2>1. ~auth.there /\ ~exposed => ~bound \/ ~Carried
    BY <1>5 DEF Unlisted
  <2>2. /\ ~auth.there /\ ~exposed /\ (\A c \in Callers : ~Starts(calls[c].steps, "removeEntry"))
             => ~sched.bound
    BY <1>5 DEF Unrouted
  <2>3. SUFFICES ASSUME ~auth'.there, ~exposed',
                        \A c \in Callers : ~Starts(calls'[c].steps, "removeEntry")
                 PROVE  ~sched'.bound
    BY DEF Unrouted, Starts
  <2>4. pick.snap.there => Carried
    BY DEF Carried
  <2> QED
    BY <1>1, <1>6, <2>1, <2>2, <2>3, <2>4
<1> QED
  BY <1>6, <1>7, <1>8, <1>9, <1>10, <1>11, <1>13 DEF CoolInv

(* The clock ticks.                                                        *)
LEMMA TickStep ==
  ASSUME CoolInv, Tick
  PROVE  CoolInv'
<1>1. /\ now' = now + 1 /\ now < MaxTime /\ off' = off /\ auth' = auth /\ calls' = calls /\ mu' = mu
      /\ bound' = bound /\ sched' = sched /\ pick' = pick /\ saved' = saved
      /\ diskBehind' = diskBehind /\ exposed' = exposed
  BY DEF Tick
<1>2. now' \in 1 .. MaxTime
  <2>1. now \in 1 .. MaxTime /\ MaxTime \in Nat
    BY CooldownAssumption DEF CoolInv, DataType
  <2> QED
    BY <1>1, <2>1
<1>3. DataType' /\ CallsType' /\ Gone' /\ Holding' /\ Unlisted' /\ Unrouted'
  BY <1>1, <1>2
  DEF CoolInv, DataType, CallsType, Gone, Holding, Unlisted, Unrouted, Holds, Has, Starts, Carried,
      Awaits
<1>7. SnapsDated' /\ Storing'
  BY <1>1 DEF CoolInv, SnapsDated, Storing, DatedAuth, Dated, Stores
<1>4. DatedAuth(auth)' /\ ColdWhenOff'
  BY <1>1 DEF CoolInv, DatedAuth, ColdWhenOff, ColdAuth, Dated, Hot, Starts
<1>5. PickSees'
  <2>1. Entry(auth, FALSE)' = Entry(auth, FALSE)
    BY <1>1 DEF Entry, NoEntry, NoAuth, Clean
  <2> QED
    BY <1>1, <2>1 DEF CoolInv, PickSees
<1>6. Saving'
  <2>1. now \in Nat /\ auth \in AuthRecords /\ saved \in SUBSET CooldownRecords
        /\ \A c \in Callers : calls[c].records \in SUBSET CooldownRecords
    BY Types
  <2>2. ASSUME Live(saved) = Records(auth) PROVE Live(saved)' = Records(auth)'
    BY <1>1, <2>1, <2>2, RecordsExpire DEF Live
  <2>3. ASSUME NEW c \in Callers, Live(calls[c].records) = Records(auth)
        PROVE  Live(calls[c].records)' = Records(auth)'
    BY <1>1, <2>1, <2>3, RecordsExpire DEF Live
  <2> QED
    BY <1>1, <2>2, <2>3 DEF CoolInv, Saving, Saves, Has, Starts
<1> QED
  BY <1>3, <1>4, <1>5, <1>6, <1>7 DEF CoolInv

(* The invariant holds initially.                                          *)
LEMMA CoolInitially ==
  ASSUME CooldownInit
  PROVE  CoolInv
<1>1. /\ <<>> \in Plans /\ ~Holds(<<>>) /\ ~Brings(<<>>)
      /\ \A what : ~Has(<<>>, what)
  BY StartPlans
<1>2. /\ NoAuth \in AuthRecords /\ auth \in AuthRecords /\ auth.there /\ auth.own = Clean
      /\ auth.states = <<>>
  BY FreshRecords DEF CooldownInit
<1>3. \A c \in Callers : calls[c].steps = <<>>
  BY DEF CooldownInit
<1>4. CallsType
  <2>1. [steps |-> <<>>, snap |-> NoAuth, records |-> {}, begun |-> 0] \in Calls
    BY <1>1, <1>2 DEF Calls
  <2> QED
    BY <2>1 DEF CallsType, CooldownInit
<1>5. DataType /\ Gone
  <2>1. sched \in Entries
    BY FreshRecords DEF CooldownInit, Entries
  <2>2. pick \in Picks
    BY <1>2 DEF CooldownInit, Picks
  <2>3. now \in 1 .. MaxTime
    BY CooldownAssumption DEF CooldownInit
  <2>4. off \in BOOLEAN /\ bound \in BOOLEAN /\ mu \in Callers \cup {NoModel} /\ saved \subseteq CooldownRecords
    BY DEF CooldownInit
  <2> QED
    BY <1>2, <2>1, <2>2, <2>3, <2>4 DEF DataType, Gone
<1>6. DatedAuth(auth) /\ ColdAuth(auth)
  BY <1>2, FreshRecords DEF DatedAuth, ColdAuth
<1>7. Holding
  BY <1>1, <1>3, CooldownAssumption DEF Holding, CooldownInit
<1>8. SnapsDated /\ Storing /\ Unlisted /\ Unrouted
  <2>1. \A c \in Callers : calls[c].snap = NoAuth
    BY DEF CooldownInit
  <2> QED
    BY <1>2, <1>3, <2>1, FreshRecords DEF SnapsDated, Storing, Stores, Unlisted, Unrouted
<1>9. PickSees /\ ColdWhenOff
  BY DEF PickSees, ColdWhenOff, CooldownInit
<1>10. Saving
  <2>1. Live(saved) = {} /\ Records(auth) = {}
    <3>1. ~Recorded(Clean)
      BY DEF Recorded, Clean
    <3>2. Records(auth) = {}
      BY <1>2, <3>1 DEF Records
    <3>3. Live(saved) = {}
      BY DEF Live, CooldownInit
    <3> QED
      BY <3>2, <3>3
  <2>2. ~Starts(<<>>, "save")
    BY DEF Starts
  <2> QED
    BY <1>3, <2>1, <2>2 DEF Saving
<1> QED
  BY <1>4, <1>5, <1>6, <1>7, <1>8, <1>9, <1>10 DEF CoolInv

-----------------------------------------------------------------------------
(* The results *)

(* Every step keeps the invariant.                                         *)
LEMMA CoolAlways ==
  ASSUME CoolInv, [CooldownNext]_vars
  PROVE  CoolInv'
<1>1. ASSUME NEW c \in Callers, MarkResult(c) PROVE CoolInv'
  <2>1. PICK m \in Models \cup {NoModel} :
          \/ MarkResultAs(c, m, TRUE, "skipped", 0)
          \/ \E kind \in Failures :
               \E ra \in IF kind = "quota" THEN RetryAfters ELSE {0} :
                 MarkResultAs(c, m, FALSE, kind, ra)
    BY <1>1 DEF MarkResult
  <2>2. CASE MarkResultAs(c, m, TRUE, "skipped", 0)
    BY <2>2, ResultStep
  <2>3. CASE \E kind \in Failures :
               \E ra \in IF kind = "quota" THEN RetryAfters ELSE {0} :
                 MarkResultAs(c, m, FALSE, kind, ra)
    <3>1. PICK kind \in Failures, ra \in Nat : MarkResultAs(c, m, FALSE, kind, ra)
      BY <2>3, CooldownAssumption
    <3> QED
      BY <3>1, ResultStep
  <2> QED
    BY <2>1, <2>2, <2>3
<1>2. ASSUME NEW c \in Callers, Start(c) PROVE CoolInv'
  BY <1>1, <1>2, ResetStep, ConfigStep, UpdateStep, PatchStep, RemoveStep, LoadStep DEF Start
<1>3. ASSUME NEW c \in Callers, Continue(c) PROVE CoolInv'
  BY <1>3, ClearStep, StoreStep, RegisterStep, ReconcileStep, RefreshStep, UnregisterStep, DeleteStep,
     UpsertStep, RemoveEntryStep, LockStep, SnapshotStep, SaveStep, MergeStep DEF Continue
<1>4. ASSUME NEW c \in Callers, Restart(c) PROVE CoolInv'
  BY <1>4, RestartStep
<1>5. CASE Pick
  BY <1>5, PickStep
<1>6. CASE Tick
  BY <1>6, TickStep
<1>7. CASE UNCHANGED vars
  <2>1. /\ now' = now /\ off' = off /\ auth' = auth /\ calls' = calls /\ mu' = mu
        /\ bound' = bound /\ sched' = sched /\ pick' = pick /\ saved' = saved
        /\ diskBehind' = diskBehind /\ exposed' = exposed
    BY <1>7 DEF vars
  <2>2. /\ DataType' /\ CallsType' /\ Gone' /\ Holding' /\ Unlisted' /\ Unrouted'
        /\ SnapsDated' /\ Storing'
    BY <2>1 DEF CoolInv, DataType, CallsType, Gone, Holding, Unlisted, Unrouted, Holds, Has, Starts,
                Carried, Awaits, SnapsDated, Storing, DatedAuth, Dated, Stores
  <2>3. DatedAuth(auth)' /\ ColdWhenOff'
    BY <2>1 DEF CoolInv, DatedAuth, ColdWhenOff, ColdAuth, Dated, Hot, Starts
  <2>4. PickSees'
    <3>1. Entry(auth, FALSE)' = Entry(auth, FALSE)
      BY <2>1 DEF Entry, NoEntry, NoAuth, Clean
    <3> QED
      BY <2>1, <3>1 DEF CoolInv, PickSees
  <2>5. Saving'
    <3>1. Records(auth)' = Records(auth)
      BY <2>1, SameRecords
    <3>2. Live(saved)' = Live(saved) /\ \A c \in Callers : Live(calls[c].records)' = Live(calls[c].records)
      BY <2>1 DEF Live
    <3> QED
      BY <2>1, <3>1, <3>2 DEF CoolInv, Saving, Saves, Has, Starts
  <2> QED
    BY <2>2, <2>3, <2>4, <2>5 DEF CoolInv
<1> QED
  BY <1>2, <1>3, <1>4, <1>5, <1>6, <1>7 DEF CooldownNext

(* The invariant is one of the specification.                              *)
LEMMA Cooling == CooldownSpec => []CoolInv
<1>1. CooldownInit => CoolInv
  BY CoolInitially
<1>2. CoolInv /\ [CooldownNext]_vars => CoolInv'
  BY CoolAlways
<1> QED
  BY <1>1, <1>2, PTL DEF CooldownSpec

(* Type correctness: records, snapshots, the scheduler's copies and the    *)
(* file hold cooldowns and records of cooldowns throughout, and            *)
(* configCooldownMu is held by the caller that is to give it back.         *)
THEOREM CooldownTypeCorrect == CooldownSpec => []CooldownTypeOK
<1>1. CoolInv => CooldownTypeOK
  <2> SUFFICES ASSUME CoolInv PROVE CooldownTypeOK
    OBVIOUS
  <2>1. \A a \in AuthRecords : IsAuth(a)
    <3> SUFFICES ASSUME NEW a \in AuthRecords PROVE IsAuth(a)
      OBVIOUS
    <3> QED
      BY AuthElim DEF IsAuth
  <2>2. IsAuth(auth) /\ IsAuth(sched.auth) /\ IsAuth(pick.snap)
    <3>1. auth \in AuthRecords /\ sched.auth \in AuthRecords /\ pick.snap \in AuthRecords
      BY Types DEF Entries, Picks
    <3> QED
      BY <2>1, <3>1
  <2>3. \A c \in Callers : IsAuth(calls[c].snap) /\ calls[c].records \subseteq CooldownRecords
    BY <2>1, Types
  <2>4. \A c \in Callers : mu = c <=> Awaits(c, "unlock") /\ ~Awaits(c, "lock")
    BY DEF CoolInv, Holding, Holds, Has, Awaits
  <2>5. /\ now \in 1 .. MaxTime /\ off \in BOOLEAN /\ bound \in BOOLEAN
        /\ mu \in Callers \cup {NoModel} /\ saved \subseteq CooldownRecords
    BY DEF CoolInv, DataType
  <2> QED
    BY <2>2, <2>3, <2>4, <2>5 DEF CooldownTypeOK
<1> QED
  BY <1>1, Cooling, PTL

(* Whenever no operation is under way and no change or failed save         *)
(* excuses it, the .cds file holds exactly the cooldowns in force: saves   *)
(* are serialised by configCooldownMu from the snapshot of the records to  *)
(* the write, so an older state never lands after a newer one.             *)
THEOREM SavedRecordsAreCurrent == CooldownSpec => []SavedIsCurrent
<1>1. CoolInv => SavedIsCurrent
  <2> SUFFICES ASSUME CoolInv, AtRest, ~diskBehind PROVE Live(saved) = Records(auth)
    BY DEF SavedIsCurrent
  <2>1. \A c \in Callers : calls[c].steps = <<>>
    BY DEF AtRest, Idle
  <2>2. ~Saves(<<>>) /\ ~Starts(<<>>, "save")
    BY StartPlans
  <2>3. Saving
    BY DEF CoolInv
  <2> QED
    BY ONLY <2>1, <2>2, <2>3, ~diskBehind DEF Saving
<1> QED
  BY <1>1, Cooling, PTL

(* A credential or model that is held back has a time at which it comes    *)
(* back, whatever failures, toggles of disable-cooling, resets and         *)
(* restores led there.                                                     *)
THEOREM BlocksHaveDeadlines == CooldownSpec => []BlockHasDeadline
<1>1. CoolInv => BlockHasDeadline
  <2> SUFFICES ASSUME CoolInv PROVE BlockHasDeadline
    OBVIOUS
  <2>1. \A c : Dated(c) /\ Blocks(c) => Deadline(c) # 0
    BY DEF Dated, Blocks
  <2>2. Dated(auth.own) /\ \A m \in DOMAIN auth.states : Dated(auth.states[m])
    BY DEF CoolInv, DatedAuth
  <2> QED
    BY <2>1, <2>2 DEF BlockHasDeadline
<1> QED
  BY <1>1, Cooling, PTL

(* While disable-cooling is on and has been applied no model is held back, *)
(* as long as no upstream reports an unsupported model (the one failure    *)
(* whose cooldown the code sets without asking whether cooling is off).    *)
THEOREM CoolingOffHoldsNothingBack ==
  ASSUME "unsupported" \notin Failures
  PROVE  CooldownSpec => []CoolingOffUnblocks
<1>1. CoolInv => CoolingOffUnblocks
  <2> SUFFICES ASSUME CoolInv, off, \A c \in Callers : ~At(c, "clear"), NEW m \in Models
               PROVE  ~Blocks(Judged(auth, m))
    BY DEF CoolingOffUnblocks
  <2>1. \A c \in Callers : ~Starts(calls[c].steps, "clear")
    BY DEF At, Idle, Starts
  <2>2. ColdAuth(auth)
    BY <2>1 DEF CoolInv, ColdWhenOff
  <2>3. ~Hot(Judged(auth, m))
    BY <2>2, FreshRecords DEF Judged, ColdAuth
  <2> QED
    BY <2>3 DEF Blocks, Hot
<1> QED
  BY <1>1, Cooling, PTL

(* Once a credential has been removed, by the service or by the management *)
(* API, the scheduler cannot hand it out again, unless the removal left    *)
(* its models listed while somebody carried a copy to the scheduler: with  *)
(* the models unlisted first, a late upsert of a copy finds none.          *)
THEOREM RemovedAreNotOffered == CooldownSpec => []RemovedIsNotOffered
<1>1. CoolInv => RemovedIsNotOffered
  BY DEF CoolInv, Unrouted, RemovedIsNotOffered, Starts, At, Idle
<1> QED
  BY <1>1, Cooling, PTL

(* A request that finds no operation under way is refused only when the    *)
(* manager's own record says so.                                           *)
THEOREM RefusalsAreTrue == CooldownSpec => RefusalIsTrue
<1>1. CoolInv /\ [CooldownNext]_vars =>
        [pick.pc = "second" /\ pick'.pc = "failed" /\ pick.quiet =>
           ~auth.there \/ ~bound \/ Blocked(auth, pick.model)]_vars
  <2> SUFFICES ASSUME CoolInv, CooldownNext, pick.pc = "second", pick'.pc = "failed", pick.quiet,
                      auth.there, bound
               PROVE  Blocked(auth, pick.model)
    OBVIOUS
  <2>1. pick \in Picks /\ auth \in AuthRecords
    BY Types
  <2>2. \A c \in Callers : calls[c].steps = <<>>
    BY DEF CoolInv, PickSees
  <2>3. sched = Entry(auth, FALSE)
    BY DEF CoolInv, PickSees
  <2>4. PickSecond
    <3>1. ASSUME NEW c \in Callers, Start(c) PROVE FALSE
      <4>1. PickDisturbed
        BY <3>1 DEF Start, MarkResult, MarkResultAs, ResetQuota, ApplyConfig, UpdateAuth, PatchAuth,
                    RemoveAuth, DeleteAuthFile, RestoreLoad
      <4> QED
        BY <2>1, <4>1 DEF PickDisturbed, Picks
    <3>2. ASSUME NEW c \in Callers, Continue(c) PROVE FALSE
      <4>1. Idle(c)
        BY <2>2 DEF Idle
      <4> QED
        BY <3>2, <4>1 DEF Continue, At, ClearDisabled, StoreAuth, RegisterModels, ReconcileRegistryModelStates,
          RefreshSchedulerEntry, UnregisterModels, DeleteAuth, UpsertAuth, UpsertStored, RemoveEntry,
          LockPersist, SnapshotRecords, SaveRecords, Unlock, RestoreMerge
    <3>3. ASSUME NEW c \in Callers, Restart(c) PROVE FALSE
      BY <3>3 DEF Restart
    <3>4. ~Tick
      BY DEF Tick
    <3>5. Pick
      BY <3>1, <3>2, <3>3, <3>4 DEF CooldownNext
    <3> QED
      BY <3>5 DEF Pick, PickStart, PickFirst, PickSnapshot, PickRebuild, PickEnd
  <2>5. CASE auth.disabled
    BY <2>5 DEF Blocked
  <2>6. CASE ~auth.disabled
    <3>1. sched = [auth |-> auth, bound |-> bound, alias |-> FALSE]
      BY <2>3, <2>6 DEF Entry
    <3>2. Views = {auth} /\ sched.bound
      BY <3>1 DEF Views
    <3>3. PICK view \in Views : pick' = [pick EXCEPT !.pc = IF Offers(view) THEN "got" ELSE "failed"]
      BY <2>4 DEF PickSecond
    <3>4. ~Offers(auth)
      BY <2>1, <3>2, <3>3 DEF Picks
    <3> QED
      BY <3>2, <3>4 DEF Offers
  <2> QED
    BY <2>1, <2>5, <2>6, AuthElim
<1> QED
  BY <1>1, Cooling, PTL DEF CooldownSpec, RefusalIsTrue

-----------------------------------------------------------------------------
(* The backoff ladder *)

(* The rung of a cooldown has not passed the clock, and when its window is *)
(* over there is room for one more.                                        *)
Rung(c) == c.level <= now /\ (c.recover <= now => c.level < now)

Rungs(a) == \A m \in DOMAIN a.states : Rung(a.states[m])

(* The same of the records of models that a file or a caller holds. *)
RungRecords(records) == \A r \in records : r.model \in Models => Rung(r)

Climbing ==
  /\ ~off
  /\ Rungs(auth)
  /\ RungRecords(saved)
  /\ \A c \in Callers : RungRecords(calls[c].records) /\ Rungs(calls[c].snap)

(* updateAggregatedAvailability touches neither rungs nor windows.         *)
LEMMA AggregateStates ==
  ASSUME NEW a \in AuthRecords, a.states # <<>>
  PROVE  Aggregate(a).states = [m \in DOMAIN a.states |-> Expire(a.states[m])]
<1> DEFINE f == [m \in DOMAIN a.states |-> Expire(a.states[m])]
<1>1. PICK own : Aggregate(a) = [a EXCEPT !.states = f, !.own = own]
  BY DEF Aggregate
<1> HIDE DEF f
<1>2. Aggregate(a).states = f
  BY <1>1 DEF AuthRecords
<1> QED
  BY <1>2 DEF f

(* ... so the ladder stays within the clock.                               *)
LEMMA AggregateRungs ==
  ASSUME NEW a \in AuthRecords, Rungs(a)
  PROVE  Rungs(Aggregate(a))
<1>1. CASE a.states = <<>>
  <2>1. Aggregate(a) = [a EXCEPT !.own = Clean]
    BY <1>1 DEF Aggregate
  <2>2. Aggregate(a).states = a.states
    BY <2>1 DEF AuthRecords
  <2> QED
    BY <2>2 DEF Rungs
<1>2. CASE a.states # <<>>
  <2>1. \A m \in DOMAIN a.states : Rung(a.states[m]) /\ a.states[m] \in Cooldowns
    BY AuthElim DEF Rungs
  <2>2. \A c \in Cooldowns : Rung(c) => Rung(Expire(c))
    BY DEF Rung, Expire, Cooldowns
  <2>3. Aggregate(a).states = [m \in DOMAIN a.states |-> Expire(a.states[m])]
    BY <1>2, AggregateStates
  <2> QED
    BY <2>1, <2>2, <2>3 DEF Rungs
<1> QED
  BY <1>1, <1>2

(* A fresh cooldown stands on the ground.                                  *)
LEMMA CleanRung ==
  ASSUME now \in Nat \ {0}
  PROVE  Rung(Clean)
  BY DEF Rung, Clean

(* clearCooldownStateForAuth takes a cooldown off the ladder or leaves it. *)
LEMMA ClearedRungs ==
  ASSUME now \in Nat \ {0}, NEW a \in AuthRecords, Rungs(a)
  PROVE  Rungs(Cleared(a))
<1> DEFINE D == DOMAIN a.states
           f == [m \in D |-> Cooled(a.states[m])]
           b == [a EXCEPT !.own = Cooled(a.own)]
           d == [b EXCEPT !.states = f]
<1>1. \A c \in Cooldowns : Cooled(c) \in Cooldowns /\ (Rung(c) => Rung(Cooled(c)))
  BY FreshRecords, CleanRung DEF Cooled
<1>2. a.own \in Cooldowns /\ D \in SUBSET Models /\ \A m \in D : a.states[m] \in Cooldowns
  BY AuthElim
<1>3. f \in [D -> Cooldowns] /\ \A m \in D : Rung(f[m])
  BY <1>1, <1>2 DEF Rungs
<1>4. b \in AuthRecords
  BY <1>1, <1>2, AuthOwn
<1>5. Cleared(a) = IF a.states = <<>> THEN d ELSE Aggregate(d)
  BY DEF Cleared, AuthRecords
<1> HIDE DEF f, b
<1>6. d \in AuthRecords /\ d.states = f
  BY <1>2, <1>3, <1>4, AuthStates
<1>7. DOMAIN f = D
  BY <1>3
<1> HIDE DEF d
<1>8. Rungs(d)
  BY <1>3, <1>6, <1>7 DEF Rungs
<1> QED
  BY <1>5, <1>6, <1>8, AggregateRungs

(* A quota failure climbs one rung when the window before is over, and     *)
(* opens a window that lasts; no other failure moves on the ladder.        *)
LEMMA FailedRung ==
  ASSUME now \in Nat \ {0}, ~off, NEW c \in Cooldowns, NEW ra \in Nat, Rung(c),
         NEW kind \in {"unsupported", "denied", "missing", "quota", "transient"}
  PROVE  Rung(Failed(c, kind, ra))
<1> DEFINE s == Struck(c, kind, ra)
<1>1. c.recover \in Nat /\ c.level \in Nat
  BY DEF Cooldowns
<1>2. Failed(c, kind, ra) = s
  BY DEF Failed
<1>3. CASE kind # "quota"
  <2>1. PICK x, y : s = [c EXCEPT !.bad = x, !.retry = y]
    BY <1>3 DEF Struck
  <2> HIDE DEF s
  <2>2. s.recover = c.recover /\ s.level = c.level
    BY <2>1 DEF Cooldowns
  <2> QED
    BY <1>2, <2>2 DEF Rung
<1>4. CASE kind = "quota"
  <2>1. PICK n \in Nat \ {0} : n = NextQuotaCooldown(c.level)[1]
    BY <1>1, LadderStep
  <2>2. PICK l \in Nat : l = NextQuotaCooldown(c.level)[2] /\ l <= c.level + 1
    <3>1. NextQuotaCooldown(c.level)[2] \in {c.level, c.level + 1}
      BY DEF NextQuotaCooldown
    <3> QED
      BY <1>1, <3>1
  <2>3. QuotaCooldownAfterFailure(c) = IF c.recover > now THEN <<c.recover, c.level>>
                                       ELSE <<now + n, l>>
    BY <2>1, <2>2 DEF QuotaCooldownAfterFailure
  <2>4. PICK u \in Nat, v \in Nat : QuotaCooldownAfterFailure(c) = <<u, v>> /\ u > now /\ v <= now
    <3>1. CASE c.recover > now
      BY <1>1, <2>3, <3>1 DEF Rung
    <3>2. CASE ~(c.recover > now)
      <4>1. now + n \in Nat /\ now + n > now /\ l <= now
        BY <1>1, <2>1, <2>2, <3>2 DEF Rung
      <4> QED
        BY <2>2, <2>3, <3>2, <4>1
    <3> QED
      BY <3>1, <3>2
  <2>5. s = IF ra # 0 THEN WithQuota(c, now + ra, c.level) ELSE WithQuota(c, u, v)
    BY <1>4, <2>4 DEF Struck
  <2>6. c.level <= now /\ (ra # 0 => now + ra > now)
    BY DEF Rung
  <2> HIDE DEF s
  <2>7. PICK t \in Nat, w \in Nat : s = WithQuota(c, t, w) /\ t > now /\ w <= now
    <3>1. CASE ra # 0
      BY <1>1, <2>5, <2>6, <3>1
    <3>2. CASE ra = 0
      BY <2>4, <2>5, <3>2
    <3> QED
      BY <3>1, <3>2
  <2>8. s.recover = t /\ s.level = w
    BY <2>7 DEF WithQuota
  <2> QED
    BY <1>2, <2>7, <2>8 DEF Rung
<1> QED
  BY <1>3, <1>4

(* MarkResult, unless the failure is Cloudflare's, which climbs at every   *)
(* failure.                                                                *)
LEMMA ResultRungs ==
  ASSUME now \in Nat \ {0}, off = FALSE, NEW a \in AuthRecords, Rungs(a),
         NEW m \in Models \cup {NoModel}, NEW ok \in BOOLEAN, NEW kind \in Failures \cup {"skipped"}, NEW ra \in Nat,
         "cloudflare" \notin Failures
  PROVE  Rungs(AfterResult(a, m, ok, kind, ra))
<1> DEFINE b == AfterResult(a, m, ok, kind, ra)
<1>1. kind # "skipped" => kind \in {"unsupported", "denied", "missing", "quota", "transient"}
  BY CooldownAssumption
<1>2. ASSUME m \in Models, NEW c \in Cooldowns, Rung(c)
      PROVE  Rungs(Aggregate(SetState(a, m, c)))
  <2> DEFINE e == SetState(a, m, c)
  <2>1. /\ e \in AuthRecords /\ DOMAIN e.states = DOMAIN a.states \cup {m}
        /\ \A k \in DOMAIN e.states : e.states[k] = IF k = m THEN c ELSE a.states[k]
    BY <1>2, SetKeeps
  <2> HIDE DEF e
  <2>2. Rungs(e)
    BY <1>2, <2>1 DEF Rungs
  <2>3. Rungs(Aggregate(e))
    BY <2>1, <2>2, AggregateRungs
  <2> QED
    BY <2>3 DEF e
<1>3. ASSUME NEW c, b = [a EXCEPT !.own = c] PROVE Rungs(b)
  <2> HIDE DEF b
  <2>1. b.states = a.states
    BY <1>3 DEF AuthRecords
  <2> QED
    BY <2>1 DEF Rungs
<1>4. NoModel \notin Models
  BY CooldownAssumption
<1>5. CASE ok /\ m # NoModel
  <2>1. b = Aggregate(SetState(a, m, Clean))
    BY <1>5 DEF AfterResult
  <2> HIDE DEF b
  <2> QED
    BY <1>2, <1>5, <2>1, FreshRecords, CleanRung DEF b
<1>6. CASE ok /\ m = NoModel
  <2>1. b = [a EXCEPT !.own = Clean]
    BY <1>6 DEF AfterResult
  <2> HIDE DEF b
  <2> QED
    BY <1>3, <2>1 DEF b
<1>7. CASE ~ok /\ kind = "skipped"
  BY <1>7 DEF AfterResult
<1>8. CASE ~ok /\ kind # "skipped" /\ m # NoModel
  <2> DEFINE s == StateOf(a, m)
             c == Failed(s, kind, ra)
  <2>1. b = Aggregate(SetState(a, m, c))
    BY <1>8 DEF AfterResult
  <2>2. m \in Models
    BY <1>8
  <2>3. s \in Cooldowns /\ s = IF m \in DOMAIN a.states THEN a.states[m] ELSE Clean
    BY <2>2, FreshRecords, SetKeeps
  <2> HIDE DEF b, s
  <2>4. Rung(s)
    BY <2>3, CleanRung DEF Rungs
  <2>5. c \in Cooldowns /\ Rung(c)
    BY <1>1, <1>8, <2>3, <2>4, FailedKeeps, FailedRung
  <2> HIDE DEF c
  <2> QED
    BY <1>2, <2>1, <2>2, <2>5 DEF b
<1>9. CASE ~ok /\ kind # "skipped" /\ m = NoModel
  <2>1. PICK c : b = [a EXCEPT !.own = c]
    BY <1>9 DEF AfterResult
  <2> HIDE DEF b
  <2> QED
    BY <1>3, <2>1 DEF b
<1> QED
  BY <1>5, <1>6, <1>7, <1>8, <1>9

(* A record keeps rung and window of its cooldown.                         *)
LEMMA RecordsRungs ==
  ASSUME NEW a \in AuthRecords, Rungs(a)
  PROVE  RungRecords(Records(a))
<1> SUFFICES ASSUME NEW r \in Records(a), r.model \in Models PROVE Rung(r)
  BY DEF RungRecords
<1>1. NoModel \notin Models
  BY CooldownAssumption
<1>2. \/ \E c \in {x \in {a.own} : Recorded(x)} : r = RecordOf(NoModel, c)
      \/ \E m \in {k \in DOMAIN a.states : Recorded(a.states[k])} : r = RecordOf(m, a.states[m])
  BY DEF Records
<1>3. PICK m \in DOMAIN a.states : r = RecordOf(m, a.states[m])
  BY <1>1, <1>2 DEF RecordOf
<1>4. r.level = a.states[m].level /\ r.recover = a.states[m].recover
  BY <1>3 DEF RecordOf
<1> QED
  BY <1>4 DEF Rungs, Rung

(* RestoreCooldownStates merges the higher rung with the later window.     *)
LEMMA RestoreRungs ==
  ASSUME now \in Nat \ {0}, NEW a \in AuthRecords, Rungs(a),
         NEW records \in SUBSET CooldownRecords, RungRecords(records)
  PROVE  Rungs(WithRecords(a, records))
<1> DEFINE live == Restorable(a, records)
           models == {m \in Models : \E r \in live : r.model = m}
           Rec(m) == CHOOSE r \in live : r.model = m
           D == DOMAIN a.states
           f == [k \in D \cup models |->
                   IF k \in models THEN Merged(StateOf(a, k), Restored(Rec(k))) ELSE a.states[k]]
           e == [a EXCEPT !.states = f]
           w == IF models = {} THEN a ELSE Aggregate(e)
           b == WithRecords(a, records)
<1>1. b = IF \E r \in live : r.model = NoModel
          THEN [w EXCEPT !.own = Restored(Rec(NoModel))] ELSE w
  BY DEF WithRecords
<1>2. \A r \in live : r \in CooldownRecords /\ r.retry > now /\ (r.model \in Models => Rung(r))
  BY DEF Restorable, Live, RungRecords
<1>3. ASSUME NEW m \in models
      PROVE  Restored(Rec(m)) \in Cooldowns /\ Rung(Restored(Rec(m)))
  <2>1. PICK r \in live : r = Rec(m) /\ r.model = m
    BY <1>3
  <2>2. r \in CooldownRecords /\ r.retry > now /\ Rung(r)
    BY <1>2, <2>1
  <2>3. Restored(r) \in Cooldowns
    BY <2>2, RestoredKeeps
  <2>4. r.retry \in Nat /\ r.level \in Nat /\ r.recover \in Nat
    BY <2>2 DEF CooldownRecords
  <2>5. Restored(r).level = r.level /\ Restored(r).recover \in {r.recover, r.retry}
    BY DEF Restored
  <2>6. Rung(Restored(r))
    BY <2>2, <2>4, <2>5 DEF Rung
  <2> HIDE DEF Rec
  <2> QED
    BY ONLY <2>1, <2>3, <2>6
<1>4. ASSUME NEW c \in Cooldowns, NEW d \in Cooldowns, Rung(c), Rung(d)
      PROVE  Merged(c, d) \in Cooldowns /\ Rung(Merged(c, d))
  <2>1. c.recover \in Nat /\ d.recover \in Nat /\ c.level \in Nat /\ d.level \in Nat
    BY DEF Cooldowns
  <2>1a. \A p, q \in Nat : \E x \in Nat : x = MaxOf({p, q}) /\ p <= x /\ q <= x /\ (x = p \/ x = q)
    <3> SUFFICES ASSUME NEW p \in Nat, NEW q \in Nat
                 PROVE  \E x \in Nat : x = MaxOf({p, q}) /\ p <= x /\ q <= x /\ (x = p \/ x = q)
      OBVIOUS
    <3> QED
      BY LargerOfTwo
  <2>2. PICK x \in Nat : x = MaxOf({c.recover, d.recover}) /\ c.recover <= x /\ d.recover <= x
    BY <2>1, <2>1a
  <2>3. PICK y \in Nat : y = MaxOf({c.level, d.level}) /\ (y = c.level \/ y = d.level)
    BY <2>1, <2>1a
  <2>4. Merged(c, d).recover = x /\ Merged(c, d).level = y
    BY <2>2, <2>3 DEF Merged
  <2>5. y <= now /\ (x <= now => y < now)
    BY <1>4, <2>1, <2>2, <2>3 DEF Rung
  <2>6. Merged(c, d) \in Cooldowns
    BY MergedKeeps
  <2> QED
    BY <2>4, <2>5, <2>6 DEF Rung
<1> HIDE DEF live, Rec
<1>5. D \in SUBSET Models /\ a.states \in [D -> Cooldowns]
  BY AuthElim
<1>6. \A m \in Models : StateOf(a, m) \in Cooldowns /\ Rung(StateOf(a, m))
  <2> SUFFICES ASSUME NEW m \in Models PROVE StateOf(a, m) \in Cooldowns /\ Rung(StateOf(a, m))
    OBVIOUS
  <2>1. StateOf(a, m) \in Cooldowns /\ StateOf(a, m) = IF m \in D THEN a.states[m] ELSE Clean
    BY FreshRecords, SetKeeps
  <2> QED
    BY <2>1, CleanRung DEF Rungs
<1>7. models \in SUBSET Models
  OBVIOUS
<1> HIDE DEF models
<1>8. \A k \in models : LET c == Merged(StateOf(a, k), Restored(Rec(k))) IN c \in Cooldowns /\ Rung(c)
  BY <1>3, <1>4, <1>6, <1>7
<1>9. f \in [D \cup models -> Cooldowns] /\ D \cup models \in SUBSET Models
  BY <1>5, <1>7, <1>8
<1>10. \A k \in D \cup models : Rung(f[k])
  BY <1>8 DEF Rungs
<1>11. DOMAIN f = D \cup models
  OBVIOUS
<1> HIDE DEF f
<1>12. e \in AuthRecords /\ e.states = f
  BY <1>9, AuthStates
<1> HIDE DEF e
<1>13. Rungs(e)
  BY <1>10, <1>11, <1>12 DEF Rungs
<1>14. w \in AuthRecords /\ Rungs(w)
  BY <1>12, <1>13, AggregateKeeps, AggregateRungs
<1> HIDE DEF w
<1>15. b.states = w.states
  <2> HIDE DEF b
  <2>1. PICK c : b = [w EXCEPT !.own = c] \/ b = w
    BY <1>1
  <2> QED
    BY <1>14, <2>1 DEF AuthRecords
<1> HIDE DEF b
<1>16. Rungs(b)
  BY <1>14, <1>15 DEF Rungs
<1> QED
  BY <1>16 DEF b

(* Records only go from the credential to a caller, from there to the file *)
(* and back; copies are within the clock.                                  *)
RecordsFlow ==
  /\ \A c \in Callers : Rungs(calls'[c].snap)
  /\ \A c \in Callers : calls'[c].records \in {{}, saved, Records(auth), calls[c].records}
  /\ saved' = saved \/ \E c \in Callers : saved' = calls[c].records

(* A step that takes no time.                                              *)
LEMMA Climb ==
  ASSUME CoolInv, Climbing, now' = now, off' = off, RecordsFlow, NEW b, auth' = b, Rungs(b)
  PROVE  Climbing'
<1>1. Rungs(auth)'
  BY DEF Rungs, Rung
<1>2. ASSUME NEW S, RungRecords(S) PROVE \A r \in S : r.model \in Models => Rung(r)'
  BY <1>2 DEF RungRecords, Rung
<1>3. /\ RungRecords({}) /\ RungRecords(saved) /\ RungRecords(Records(auth))
      /\ \A c \in Callers : RungRecords(calls[c].records)
  <2>1. auth \in AuthRecords
    BY Types
  <2>2. RungRecords({})
    BY DEF RungRecords
  <2> QED
    BY <2>1, <2>2, RecordsRungs DEF Climbing
<1>4. RungRecords(saved)'
  <2>1. PICK S : saved' = S /\ RungRecords(S)
    BY <1>3 DEF RecordsFlow
  <2> QED
    BY <1>2, <2>1 DEF RungRecords
<1>5. ASSUME NEW c \in Callers PROVE RungRecords(calls[c].records)'
  <2>1. PICK S : calls'[c].records = S /\ RungRecords(S)
    BY <1>3 DEF RecordsFlow
  <2> QED
    BY <1>2, <2>1 DEF RungRecords
<1>6. \A c \in Callers : Rungs(calls[c].snap)'
  BY DEF RecordsFlow, Rungs, Rung
<1> QED
  BY <1>1, <1>4, <1>5, <1>6 DEF Climbing

(* An operation that begins takes the records along that it is given.      *)
LEMMA BeginFlow ==
  ASSUME CoolInv, Climbing, NEW c \in Callers, NEW s, NEW snap, Rungs(snap),
         NEW R, R \in {{}, saved}, Begin(c, s, snap, R), saved' = saved
  PROVE  RecordsFlow
<1>1. calls \in [Callers -> Calls]
  BY DEF CoolInv, CallsType
<1>2. calls' = [calls EXCEPT ![c] = [steps |-> s, snap |-> snap, records |-> R,
                                     begun |-> calls[c].begun + 1]]
  BY DEF Begin
<1>3. /\ calls'[c].records = R /\ calls'[c].snap = snap
      /\ \A d \in Callers \ {c} : calls'[d] = calls[d]
  BY <1>1, <1>2
<1>4. \A d \in Callers : calls'[d].records \in {{}, saved, Records(auth), calls[d].records}
  BY <1>3
<1>5. \A d \in Callers : Rungs(calls'[d].snap)
  BY <1>3 DEF Climbing
<1> QED
  BY <1>4, <1>5 DEF RecordsFlow

(* The steps of an operation that leave the record alone.                  *)
LEMMA ProceedFlow ==
  ASSUME CoolInv, Climbing, NEW c \in Callers, NEW s, saved' = saved,
         calls' = [calls EXCEPT ![c].steps = s]
  PROVE  RecordsFlow
<1>1. calls \in [Callers -> Calls]
  BY DEF CoolInv, CallsType
<1>2. \A d \in Callers : calls'[d].records = calls[d].records /\ calls'[d].snap = calls[d].snap
  BY <1>1 DEF Calls
<1>3. \A d \in Callers : Rungs(calls'[d].snap)
  BY <1>2 DEF Climbing
<1> QED
  BY <1>2, <1>3 DEF RecordsFlow

(* ... and those that take a new copy.                                     *)
LEMMA CopyFlow ==
  ASSUME CoolInv, Climbing, NEW c \in Callers, saved' = saved, NEW s, NEW x, Rungs(x),
         \/ calls' = [calls EXCEPT ![c].snap = x, ![c].steps = s]
         \/ calls' = [calls EXCEPT ![c].steps = s, ![c].snap = x]
  PROVE  RecordsFlow
<1>1. calls \in [Callers -> Calls]
  BY DEF CoolInv, CallsType
<1>2. /\ \A d \in Callers : calls'[d].records = calls[d].records
      /\ calls'[c].snap = x /\ \A d \in Callers \ {c} : calls'[d] = calls[d]
  BY <1>1 DEF Calls
<1>3. \A d \in Callers : Rungs(calls'[d].snap)
  BY <1>2 DEF Climbing
<1> QED
  BY <1>2, <1>3 DEF RecordsFlow

(* Every step keeps the ladder within the clock, as long as cooling is not *)
(* switched off and on and no failure is Cloudflare's.                     *)
LEMMA ClimbAlways ==
  ASSUME CoolInv, Climbing, [CooldownNext]_vars, "cloudflare" \notin Failures,
         "config" \notin Operations
  PROVE  Climbing'
<1>1. /\ auth \in AuthRecords /\ now \in Nat \ {0} /\ off = FALSE /\ Rungs(auth)
      /\ calls \in [Callers -> Calls] /\ saved \in SUBSET CooldownRecords
      /\ \A d \in Callers : calls[d].snap \in AuthRecords /\ Rungs(calls[d].snap)
  BY Types DEF CoolInv, DataType, CallsType, Climbing
<1>0. Rungs(NoAuth)
  BY FreshRecords DEF Rungs
<1>2. ASSUME NEW c \in Callers, NEW m \in Models \cup {NoModel}, NEW ok \in BOOLEAN,
             NEW kind \in Failures \cup {"skipped"}, NEW ra \in Nat, MarkResultAs(c, m, ok, kind, ra)
      PROVE  Climbing'
  <2>1. PICK b : b = AfterResult(auth, m, ok, kind, ra)
    OBVIOUS
  <2>2. Rungs(b)
    BY <1>1, <2>1, ResultRungs
  <2>3. PICK s : Begin(c, s, b, {})
    BY <1>2, <2>1 DEF MarkResultAs
  <2>4. auth' = b /\ now' = now /\ off' = off /\ saved' = saved
    BY <1>2, <2>1 DEF MarkResultAs
  <2>5. RecordsFlow
    BY <2>2, <2>3, <2>4, BeginFlow
  <2> QED
    BY <2>2, <2>4, <2>5, Climb
<1>3. ASSUME NEW c \in Callers, MarkResult(c) PROVE Climbing'
  <2>1. PICK m \in Models \cup {NoModel} :
          \/ MarkResultAs(c, m, TRUE, "skipped", 0)
          \/ \E kind \in Failures :
               \E ra \in IF kind = "quota" THEN RetryAfters ELSE {0} :
                 MarkResultAs(c, m, FALSE, kind, ra)
    BY <1>3 DEF MarkResult
  <2>2. CASE MarkResultAs(c, m, TRUE, "skipped", 0)
    BY <1>2, <2>2
  <2>3. CASE \E kind \in Failures :
               \E ra \in IF kind = "quota" THEN RetryAfters ELSE {0} :
                 MarkResultAs(c, m, FALSE, kind, ra)
    <3>1. PICK kind \in Failures, ra \in Nat : MarkResultAs(c, m, FALSE, kind, ra)
      BY <2>3, CooldownAssumption
    <3> QED
      BY <1>2, <3>1
  <2> QED
    BY <2>1, <2>2, <2>3
<1>4. ASSUME NEW c \in Callers, ResetQuota(c) PROVE Climbing'
  <2> DEFINE f == [m \in DOMAIN auth.states |-> Clean]
  <2>1. f \in [DOMAIN auth.states -> Cooldowns] /\ DOMAIN auth.states \in SUBSET Models
    BY <1>1, AuthElim, FreshRecords
  <2>2. DOMAIN f = DOMAIN auth.states /\ \A m \in DOMAIN f : Rung(f[m])
    BY <1>1, CleanRung
  <2>3. AfterReset(auth) = Cleared([auth EXCEPT !.states = f])
    BY DEF AfterReset
  <2> HIDE DEF f
  <2>4. PICK a : a = [auth EXCEPT !.states = f]
    OBVIOUS
  <2>5. a \in AuthRecords /\ a.states = f
    BY <1>1, <2>1, <2>4, AuthStates
  <2>6. Rungs(a)
    BY <2>2, <2>5 DEF Rungs
  <2>7. Rungs(Cleared(a))
    BY <1>1, <2>5, <2>6, ClearedRungs
  <2>8. auth' = Cleared(a) /\ now' = now /\ off' = off /\ saved' = saved
    BY <1>4, <2>3, <2>4 DEF ResetQuota
  <2>9. PICK s : Begin(c, s, Cleared(a), {}) \/ Begin(c, s, NoAuth, {})
    BY <1>4, <2>3, <2>4 DEF ResetQuota
  <2>10. RecordsFlow
    BY <1>0, <2>7, <2>8, <2>9, BeginFlow
  <2> QED
    BY <2>7, <2>8, <2>10, Climb
<1>5. ASSUME NEW c \in Callers, NEW disabled \in BOOLEAN,
             UpdateAuth(c, disabled) \/ PatchAuth(c, disabled)
      PROVE  Climbing'
  <2>1. auth' = auth /\ now' = now /\ off' = off /\ saved' = saved
    BY <1>5 DEF UpdateAuth, PatchAuth
  <2>2. PICK s, x : Begin(c, s, x, {}) /\ Rungs(x)
    <3>1. CASE UpdateAuth(c, disabled)
      <4> DEFINE f == IF auth.there /\ ~auth.disabled /\ ~disabled THEN auth.states ELSE <<>>
                 given == [FreshAuth(disabled) EXCEPT !.states = f]
      <4>1. PICK s : Begin(c, s, given, {})
        BY <3>1 DEF UpdateAuth
      <4>2. f = auth.states \/ f = <<>>
        OBVIOUS
      <4> HIDE DEF f
      <4>3. \A m \in DOMAIN f : Rung(f[m])
        BY <1>1, <4>2 DEF Rungs
      <4>4. given.states = f
        BY DEF FreshAuth
      <4> HIDE DEF given
      <4>5. Rungs(given)
        BY <4>3, <4>4 DEF Rungs
      <4> QED
        BY <4>1, <4>5
    <3>2. CASE PatchAuth(c, disabled)
      <4> DEFINE given == [auth EXCEPT !.disabled = disabled]
      <4>1. Begin(c, <<"patch">>, given, {})
        BY <3>2 DEF PatchAuth
      <4>2. given.states = auth.states
        BY <1>1 DEF AuthRecords
      <4> HIDE DEF given
      <4>3. Rungs(given)
        BY <1>1, <4>2 DEF Rungs
      <4> QED
        BY <4>1, <4>3
    <3> QED
      BY <1>5, <3>1, <3>2
  <2>3. RecordsFlow
    BY <2>1, <2>2, BeginFlow
  <2> QED
    BY <1>1, <2>1, <2>3, Climb
<1>6. ASSUME NEW c \in Callers, RemoveAuth(c) \/ DeleteAuthFile(c) \/ RestoreLoad(c) PROVE Climbing'
  <2>1. auth' = auth /\ now' = now /\ off' = off /\ saved' = saved
    BY <1>6 DEF RemoveAuth, DeleteAuthFile, RestoreLoad
  <2>2. PICK s, R : R \in {{}, saved} /\ Begin(c, s, NoAuth, R)
    BY <1>6 DEF RemoveAuth, DeleteAuthFile, RestoreLoad
  <2>3. RecordsFlow
    BY <1>0, <2>1, <2>2, BeginFlow
  <2> QED
    BY <1>1, <2>1, <2>3, Climb
<1>7. ASSUME NEW c \in Callers, Start(c) PROVE Climbing'
  <2>1. ~ApplyConfig(c)
    BY DEF ApplyConfig
  <2> QED
    BY <1>3, <1>4, <1>5, <1>6, <1>7, <2>1 DEF Start
<1>8. ASSUME NEW c \in Callers, ClearDisabled(c) PROVE Climbing'
  <2>1. PICK b : b = IF auth.there /\ (off \/ auth.disabled) THEN Cleared(auth) ELSE auth
    OBVIOUS
  <2>2. Rungs(b)
    BY <1>1, <2>1, ClearedRungs
  <2>3. auth' = b /\ now' = now /\ off' = off /\ saved' = saved
    BY <1>8, <2>1 DEF ClearDisabled
  <2>4. PICK s : calls' = [calls EXCEPT ![c].snap = b, ![c].steps = s]
    BY <1>8, <2>1 DEF ClearDisabled
  <2>6. RecordsFlow
    BY <2>2, <2>3, <2>4, CopyFlow
  <2> QED
    BY <2>2, <2>3, <2>6, Climb
<1>9. ASSUME NEW c \in Callers, ReconcileRegistryModelStates(c) PROVE Climbing'
  <2> DEFINE kept == IF bound THEN DOMAIN auth.states ELSE {}
             f == [m \in kept |-> Clean]
             e == [auth EXCEPT !.states = f]
  <2>1. kept \in SUBSET Models /\ f \in [kept -> Cooldowns]
    BY <1>1, AuthElim, FreshRecords
  <2>2. DOMAIN f = kept /\ \A m \in kept : Rung(f[m])
    BY <1>1, CleanRung
  <2>3. \/ auth' = Aggregate(e) /\ \E s : calls' = [calls EXCEPT ![c].snap = Aggregate(e), ![c].steps = s]
        \/ auth' = auth /\ Proceed(c)
    BY <1>9 DEF ReconcileRegistryModelStates
  <2> HIDE DEF f
  <2>4. e \in AuthRecords /\ e.states = f
    BY <1>1, <2>1, AuthStates
  <2> HIDE DEF e
  <2>5. Rungs(e)
    BY <2>2, <2>4 DEF Rungs
  <2>6. Rungs(Aggregate(e))
    BY <2>4, <2>5, AggregateRungs
  <2>7. now' = now /\ off' = off /\ saved' = saved
    BY <1>9 DEF ReconcileRegistryModelStates
  <2>8. CASE auth' = auth /\ Proceed(c)
    <3>1. RecordsFlow
      BY <2>7, <2>8, ProceedFlow DEF Proceed
    <3> QED
      BY <1>1, <2>7, <2>8, <3>1, Climb
  <2>9. CASE auth' = Aggregate(e) /\ \E s : calls' = [calls EXCEPT ![c].snap = Aggregate(e), ![c].steps = s]
    <3>1. PICK s : calls' = [calls EXCEPT ![c].snap = Aggregate(e), ![c].steps = s]
      BY <2>9
    <3>3. RecordsFlow
      BY <2>6, <2>7, <3>1, CopyFlow
    <3> QED
      BY <2>6, <2>7, <2>9, <3>3, Climb
  <2> QED
    BY <2>3, <2>8, <2>9
<1>10. ASSUME NEW c \in Callers, DeleteAuth(c) PROVE Climbing'
  <2>1. auth' \in {NoAuth, auth} /\ now' = now /\ off' = off /\ saved' = saved
    BY <1>10 DEF DeleteAuth
  <2>2. PICK s : calls' = [calls EXCEPT ![c].steps = s]
    BY <1>10 DEF DeleteAuth, Proceed
  <2>3. RecordsFlow
    BY <2>1, <2>2, ProceedFlow
  <2> QED
    BY <1>0, <1>1, <2>1, <2>3, Climb
<1>19. ASSUME NEW c \in Callers, StoreAuth(c) PROVE Climbing'
  <2> DEFINE given == calls[c].snap
             lent == [given EXCEPT !.states = auth.states]
  <2>1. PICK filled \in {given, lent} : \E after \in {filled, Cleared(filled)} :
          /\ auth' \in {after, auth}
          /\ \E s : \/ calls' = [calls EXCEPT ![c].snap = after, ![c].steps = s]
                   \/ calls' = [calls EXCEPT ![c].snap = Parted(given), ![c].steps = s]
    <3> DEFINE kind == Head(calls[c].steps)
               inherits == kind # "create" /\ given.states = <<>> /\ ~auth.disabled /\ ~given.disabled
               filled == IF inherits THEN lent ELSE given
               after == IF off \/ given.disabled THEN Cleared(filled) ELSE filled
    <3>1. filled \in {given, lent} /\ after \in {filled, Cleared(filled)}
      OBVIOUS
    <3>2. \/ auth' = after /\ \E s : calls' = [calls EXCEPT ![c].snap = after, ![c].steps = s]
          \/ auth' = auth /\ \E s : calls' = [calls EXCEPT ![c].snap = Parted(@), ![c].steps = s]
      BY <1>19 DEF StoreAuth
    <3> HIDE DEF filled, after
    <3> QED
      BY <3>1, <3>2
  <2>0. PICK after \in {filled, Cleared(filled)} :
          /\ auth' \in {after, auth}
          /\ \E s : \/ calls' = [calls EXCEPT ![c].snap = after, ![c].steps = s]
                   \/ calls' = [calls EXCEPT ![c].snap = Parted(given), ![c].steps = s]
    BY <2>1
  <2>2. now' = now /\ off' = off /\ saved' = saved
    BY <1>19 DEF StoreAuth
  <2>3. given \in AuthRecords /\ Rungs(given)
    BY <1>1
  <2>4. DOMAIN auth.states \in SUBSET Models /\ auth.states \in [DOMAIN auth.states -> Cooldowns]
    BY <1>1, AuthElim
  <2>5. lent \in AuthRecords /\ lent.states = auth.states
    BY <2>3, <2>4, AuthStates
  <2> HIDE DEF given, lent
  <2>6. Rungs(lent)
    BY <1>1, <2>5 DEF Rungs
  <2>7. filled \in AuthRecords /\ Rungs(filled)
    BY <2>1, <2>3, <2>5, <2>6
  <2>8. Rungs(after)
    BY <1>1, <2>0, <2>7, ClearedRungs
  <2>9. Rungs(Parted(given))
    <3>1. Parted(given).states = <<>>
      BY <2>3, PartedKeeps
    <3> QED
      BY <3>1 DEF Rungs
  <2>10. RecordsFlow
    <3>1. CASE \E s : calls' = [calls EXCEPT ![c].snap = after, ![c].steps = s]
      BY <2>2, <2>8, <3>1, CopyFlow
    <3>2. CASE \E s : calls' = [calls EXCEPT ![c].snap = Parted(given), ![c].steps = s]
      BY <2>2, <2>9, <3>2, CopyFlow
    <3> QED
      BY <2>0, <3>1, <3>2
  <2>11. Rungs(auth')
    BY <1>1, <2>0, <2>8
  <2> QED
    BY <2>2, <2>10, <2>11, Climb
<1>11. ASSUME NEW c \in Callers, RestoreMerge(c) PROVE Climbing'
  <2>1. PICK b : b = WithRecords(auth, calls[c].records)
    OBVIOUS
  <2>2. calls[c].records \in SUBSET CooldownRecords /\ RungRecords(calls[c].records)
    BY Types DEF Climbing
  <2>3. Rungs(b)
    BY <1>1, <2>1, <2>2, RestoreRungs
  <2>4. auth' = b /\ now' = now /\ off' = off /\ saved' = saved
    BY <1>11, <2>1 DEF RestoreMerge
  <2>5. PICK s : calls' = [calls EXCEPT ![c].snap = b, ![c].records = {}, ![c].steps = s]
    BY <1>11, <2>1 DEF RestoreMerge
  <2>6. /\ calls'[c].records = {} /\ calls'[c].snap = b
        /\ \A d \in Callers \ {c} : calls'[d] = calls[d]
    BY <1>1, <2>5 DEF Calls
  <2>8. \A d \in Callers : Rungs(calls'[d].snap)
    BY <1>1, <2>3, <2>6
  <2>7. RecordsFlow
    BY <2>4, <2>6, <2>8 DEF RecordsFlow
  <2> QED
    BY <2>3, <2>4, <2>7, Climb
<1>12. ASSUME NEW c \in Callers, SnapshotRecords(c) \/ SaveRecords(c) PROVE Climbing'
  <2>1. auth' = auth /\ now' = now /\ off' = off
    BY <1>12 DEF SnapshotRecords, SaveRecords
  <2>2. PICK s, R : calls' = [calls EXCEPT ![c].records = R, ![c].steps = s] /\ R \in {{}, Records(auth)}
    <3>1. CASE SnapshotRecords(c)
      BY <3>1 DEF SnapshotRecords
    <3>2. CASE SaveRecords(c)
      <4>1. calls' = [calls EXCEPT ![c].steps = Tail(@), ![c].records = {}]
        BY <3>2 DEF SaveRecords
      <4>2. calls' = [calls EXCEPT ![c].records = {}, ![c].steps = Tail(@)]
        BY <1>1, <4>1 DEF Calls
      <4> QED
        BY <4>2
    <3> QED
      BY <1>12, <3>1, <3>2
  <2>3. /\ calls'[c].records = R /\ calls'[c].snap = calls[c].snap
        /\ \A d \in Callers \ {c} : calls'[d] = calls[d]
    BY <1>1, <2>2 DEF Calls
  <2>4. saved' = saved \/ saved' = calls[c].records
    BY <1>12 DEF SnapshotRecords, SaveRecords
  <2>6. \A d \in Callers : Rungs(calls'[d].snap)
    BY <1>1, <2>3
  <2>5. RecordsFlow
    BY <2>2, <2>3, <2>4, <2>6 DEF RecordsFlow
  <2> QED
    BY <1>1, <2>1, <2>5, Climb
<1>13. ASSUME NEW c \in Callers, \/ UnregisterModels(c) \/ RemoveEntry(c)
                                 \/ LockPersist(c) \/ Unlock(c)
       PROVE  Climbing'
  <2>1. auth' = auth /\ now' = now /\ off' = off /\ saved' = saved
    BY <1>13 DEF UnregisterModels, RemoveEntry, LockPersist, Unlock
  <2>2. Proceed(c)
    BY <1>13 DEF UnregisterModels, RemoveEntry, LockPersist, Unlock
  <2>3. RecordsFlow
    BY <2>1, <2>2, ProceedFlow DEF Proceed
  <2> QED
    BY <1>1, <2>1, <2>3, Climb
<1>14. ASSUME NEW c \in Callers, \/ RefreshSchedulerEntry(c) \/ RegisterModels(c)
                                 \/ UpsertAuth(c) \/ UpsertStored(c)
       PROVE  Climbing'
  <2>1. auth' = auth /\ now' = now /\ off' = off /\ saved' = saved
    BY <1>14 DEF RefreshSchedulerEntry, RegisterModels, UpsertAuth, UpsertStored
  <2>2. PICK x \in {auth, NoAuth, Parted(calls[c].snap)} : \E s :
                    \/ calls' = [calls EXCEPT ![c].snap = x, ![c].steps = s]
                    \/ calls' = [calls EXCEPT ![c].steps = s, ![c].snap = x]
    <3>1. CASE RefreshSchedulerEntry(c)
      BY <3>1 DEF RefreshSchedulerEntry
    <3>2. CASE RegisterModels(c) \/ UpsertAuth(c)
      BY <3>2 DEF RegisterModels, UpsertAuth
    <3>3. CASE UpsertStored(c)
      <4>1. calls' = [calls EXCEPT ![c].steps = Tail(@), ![c].snap = Parted(@)]
        BY <3>3 DEF UpsertStored
      <4>2. calls' = [calls EXCEPT ![c].steps = Tail(calls[c].steps), ![c].snap = Parted(calls[c].snap)]
        BY <1>1, <4>1 DEF Calls
      <4> QED
        BY <4>2
    <3> QED
      BY <1>14, <3>1, <3>2, <3>3
  <2>3. Rungs(Parted(calls[c].snap))
    <3>1. Parted(calls[c].snap).states = <<>>
      BY <1>1, PartedKeeps
    <3> QED
      BY <3>1 DEF Rungs
  <2>4. Rungs(x)
    BY <1>0, <1>1, <2>2, <2>3
  <2>5. RecordsFlow
    BY <2>1, <2>2, <2>4, CopyFlow
  <2> QED
    BY <1>1, <2>1, <2>5, Climb
<1>15. ASSUME NEW c \in Callers, Continue(c) PROVE Climbing'
  BY <1>8, <1>9, <1>10, <1>11, <1>12, <1>13, <1>14, <1>15, <1>19 DEF Continue
<1>16. ASSUME NEW c \in Callers, Restart(c) PROVE Climbing'
  <2>1. /\ now' = now /\ off' = off /\ saved' = saved
        /\ auth' = IF auth.there THEN FreshAuth(auth.disabled) ELSE NoAuth
    BY <1>16 DEF Restart
  <2>2. PICK b : auth' = b /\ Rungs(b)
    <3>1. auth.disabled \in BOOLEAN
      BY <1>1, AuthElim
    <3>2. Rungs(NoAuth) /\ Rungs(FreshAuth(auth.disabled))
      BY <3>1, FreshRecords DEF Rungs
    <3> QED
      BY <2>1, <3>2
  <2>3. \A d \in Callers : calls'[d].records \in {{}, saved} /\ calls'[d].snap = NoAuth
    BY <1>16 DEF Restart
  <2>4. RecordsFlow
    BY <1>0, <2>1, <2>3 DEF RecordsFlow
  <2> QED
    BY <2>1, <2>2, <2>4, Climb
<1>17. ASSUME Pick \/ UNCHANGED vars PROVE Climbing'
  <2>1. auth' = auth /\ now' = now /\ off' = off /\ saved' = saved /\ calls' = calls
    BY <1>17 DEF Pick, PickStart, PickFirst, PickSnapshot, PickRebuild, PickSecond, PickEnd, vars
  <2>2. RecordsFlow
    BY <1>1, <2>1 DEF RecordsFlow
  <2> QED
    BY <1>1, <2>1, <2>2, Climb
<1>18. CASE Tick
  <2>1. auth' = auth /\ now' = now + 1 /\ off' = off /\ saved' = saved /\ calls' = calls
    BY <1>18 DEF Tick
  <2>2. \A x : x.level \in Nat /\ Rung(x) => Rung(x)'
    BY <1>1, <2>1 DEF Rung
  <2>3. \A x \in Cooldowns \cup CooldownRecords : x.level \in Nat
    BY DEF Cooldowns, CooldownRecords
  <2>8. ASSUME NEW a \in AuthRecords, Rungs(a) PROVE \A m \in DOMAIN a.states : Rung(a.states[m])'
    <3>1. \A m \in DOMAIN a.states : a.states[m] \in Cooldowns
      BY AuthElim
    <3> QED
      BY <2>2, <2>3, <2>8, <3>1 DEF Rungs
  <2>4. Rungs(auth)'
    BY <1>1, <2>1, <2>8 DEF Rungs
  <2>9. ASSUME NEW c \in Callers PROVE Rungs(calls[c].snap)'
    BY <1>1, <2>1, <2>8 DEF Rungs
  <2>5. ASSUME NEW S \in SUBSET CooldownRecords, RungRecords(S)
        PROVE  \A r \in S : r.model \in Models => Rung(r)'
    BY <2>2, <2>3, <2>5 DEF RungRecords
  <2>6. RungRecords(saved)'
    BY <1>1, <2>1, <2>5 DEF RungRecords, Climbing
  <2>7. ASSUME NEW c \in Callers PROVE RungRecords(calls[c].records)'
    <3>1. calls[c].records \in SUBSET CooldownRecords /\ RungRecords(calls[c].records)
      BY Types DEF Climbing
    <3> QED
      BY <2>1, <2>5, <3>1 DEF RungRecords
  <2> QED
    BY <1>1, <2>1, <2>4, <2>6, <2>7, <2>9 DEF Climbing
<1> QED
  BY <1>7, <1>15, <1>16, <1>17, <1>18 DEF CooldownNext

(* Nothing has been climbed at the start. *)
LEMMA ClimbInitially ==
  ASSUME CooldownInit
  PROVE  Climbing
<1>1. auth.states = <<>>
  BY FreshRecords DEF CooldownInit
<1>2. /\ off = FALSE /\ saved = {}
      /\ \A c \in Callers : calls[c].records = {} /\ calls[c].snap = NoAuth
  BY DEF CooldownInit
<1>3. NoAuth.states = <<>>
  BY FreshRecords
<1> QED
  BY <1>1, <1>2, <1>3 DEF Climbing, Rungs, RungRecords

(* What has been climbed took its time. *)
LEMMA ClimbTakesTime ==
  ASSUME Climbing
  PROVE  LadderNeedsTime
BY DEF Climbing, Rungs, Rung, LadderNeedsTime

(* A burst of quota failures climbs the backoff ladder at most one rung    *)
(* per window, whatever results, resets, updates, restores and restarts    *)
(* overlap: a rung cannot pass the clock.  Two things climb faster and are *)
(* excluded: a Cloudflare answer climbs at every failure, and a failure    *)
(* recorded while disable-cooling is on closes the window and keeps the    *)
(* rung.                                                                   *)
THEOREM LaddersNeedTime ==
  ASSUME "cloudflare" \notin Failures, "config" \notin Operations
  PROVE  CooldownSpec => []LadderNeedsTime
<1>1. CooldownInit => Climbing
  BY ClimbInitially
<1>2. CoolInv /\ Climbing /\ [CooldownNext]_vars => Climbing'
  BY ClimbAlways
<1>3. Climbing => LadderNeedsTime
  BY ClimbTakesTime
<1> QED
  BY <1>1, <1>2, <1>3, Cooling, PTL DEF CooldownSpec

-----------------------------------------------------------------------------
(* The scheduler's copy, with operations one after the other *)

(* Two records between which routing cannot tell.                          *)
Alike(a, b) ==
  /\ a.disabled = b.disabled /\ a.states = b.states
  /\ a.states = <<>> => a.own = b.own

(* A plan that hands the scheduler a copy next.                            *)
Tells(s) == s # <<>> /\ Head(s) \in {"upsert", "upsertAlias"}

(* What an operation that still has the steps s owes the scheduler: the    *)
(* copy it is about to hand over is the record; unless it is about to hand *)
(* one over, the scheduler has it.                                         *)
Follows(s, snap, a, entry, behind) ==
  /\ Tells(s) => snap = a
  /\ Starts(s, "removeEntry") => ~a.there
  /\ ~Tells(s) /\ ~behind /\ a.there /\ ~a.disabled => Alike(entry.auth, a)

Following ==
  \A c \in Callers : Follows(calls[c].steps, calls[c].snap, auth, sched, schedBehind)

(* The scheduler is told at once or by a plan of its own.                  *)
LEMMA PlanHeads ==
  ASSUME NEW s \in Plans, s # <<>>, NEW t, t = Tail(s)
  PROVE  /\ ~Tells(t)
         /\ Starts(t, "removeEntry") => Head(s) = "delete"
  BY DEF Plans, Starts, Tells

(* A plan with an upsert put before it.                                    *)
LEMMA UpsertFirst ==
  ASSUME NEW t \in Plans
  PROVE  Tells(<<"upsert">> \o t) /\ <<>> \o t = t
<1>1. t \in Seq(Words)
  BY PlansAreWords
<1>2. PICK v : v = <<"upsert">>
  OBVIOUS
<1>3. v \in Seq(Words) /\ Len(v) = 1 /\ v[1] = "upsert"
  BY ONLY <1>2 DEF Words
<1>4. /\ v \o t \in Seq(Words) /\ Len(v \o t) = Len(v) + Len(t)
      /\ \A i \in 1 .. Len(v) + Len(t) : (v \o t)[i] = IF i <= Len(v) THEN v[i] ELSE t[i - Len(v)]
  BY <1>1, <1>3, ConcatProperties
<1>5. PICK u : u = v \o t
  OBVIOUS
<1>6. u \in Seq(Words) /\ Len(u) # 0 /\ u[1] = "upsert"
  BY ONLY <1>1, <1>3, <1>4, <1>5
<1>7. Tells(u)
  BY ONLY <1>6 DEF Tells
<1> QED
  BY <1>1, <1>2, <1>5, <1>7, ConcatEmptySeq

(* An operation that is about to hand over what it has just stored.        *)
LEMMA HandsOver ==
  ASSUME NEW t, Tells(t), NEW a, NEW entry, NEW behind
  PROVE  Follows(t, a, a, entry, behind)
  BY DEF Follows, Starts, Tells

(* An operation that goes on, or starts, without telling the scheduler:    *)
(* the record stays what it is for routing.                                *)
LEMMA GoesOnFollowing ==
  ASSUME NEW s, NEW t, NEW snap, NEW x, NEW a, NEW b, NEW entry, NEW behind,
         Follows(s, snap, a, entry, behind),
         ~Tells(t), Starts(t, "removeEntry") => ~b.there, ~Tells(s),
         b.there /\ ~b.disabled => a.there /\ ~a.disabled /\ Alike(a, b)
  PROVE  Follows(t, x, b, entry, behind)
  BY DEF Follows, Alike

(* Nothing is hot: clearing changes nothing that routing could tell.       *)
LEMMA ClearedIsAlike ==
  ASSUME NEW a \in AuthRecords, ~AnyHot(a)
  PROVE  Alike(a, Cleared(a))
<1> DEFINE D == DOMAIN a.states
           f == [m \in D |-> Cooled(a.states[m])]
           b == [a EXCEPT !.own = Cooled(a.own)]
           d == [b EXCEPT !.states = f]
<1>1. a.own \in Cooldowns /\ D \in SUBSET Models /\ a.states \in [D -> Cooldowns]
  BY AuthElim
<1>2. Cooled(a.own) = a.own /\ \A m \in D : Cooled(a.states[m]) = a.states[m]
  BY DEF Cooled, AnyHot
<1>3. f = a.states
  BY <1>1, <1>2
<1>4. b \in AuthRecords /\ b.disabled = a.disabled /\ b.own = a.own
  BY <1>1, <1>2, AuthOwn
<1>5. Cleared(a) = IF a.states = <<>> THEN d ELSE Aggregate(d)
  BY DEF Cleared, AuthRecords
<1> HIDE DEF f, b
<1>6. d \in AuthRecords /\ d.disabled = a.disabled /\ d.own = a.own /\ d.states = a.states
  BY <1>1, <1>3, <1>4, AuthStates
<1> HIDE DEF d
<1>7. CASE a.states = <<>>
  BY <1>5, <1>6, <1>7 DEF Alike
<1>8. CASE a.states # <<>>
  <2> DEFINE g == [m \in DOMAIN d.states |-> Expire(d.states[m])]
  <2>1. PICK own : Aggregate(d) = [d EXCEPT !.states = g, !.own = own]
    BY <1>6, <1>8 DEF Aggregate
  <2>2. g = a.states
    <3>1. \A m \in D : Expire(a.states[m]) = a.states[m]
      BY DEF Expire, AnyHot, Hot
    <3> QED
      BY <1>1, <1>6, <3>1
  <2> HIDE DEF g
  <2>3. Aggregate(d).states = a.states /\ Aggregate(d).disabled = a.disabled
    BY <1>6, <2>1, <2>2 DEF AuthRecords
  <2> QED
    BY <1>5, <1>8, <2>3 DEF Alike
<1> QED
  BY <1>7, <1>8

(* The scheduler's new entry, for a record that is to be offered.          *)
LEMMA EntryFollows ==
  ASSUME NEW a, NEW t, NEW x, NEW alias, ~Tells(t), ~Starts(t, "removeEntry")
  PROVE  Follows(t, x, a, Entry(a, alias), FALSE)
  BY DEF Follows, Entry, Alike

(* What the one caller is left with.                                       *)
LEMMA OneFollows ==
  ASSUME NEW c, Callers = {c}, NEW t, NEW x, NEW a, NEW entry, NEW behind,
         calls'[c].steps = t, calls'[c].snap = x, auth' = a, sched' = entry, schedBehind' = behind,
         Follows(t, x, a, entry, behind)
  PROVE  Following'
  BY DEF Following, Follows, Alike, Starts, Tells

(* The one caller goes on in its plan, to t, and leaves the record alone   *)
(* or as good as alone.                                                    *)
LEMMA OneGoesOn ==
  ASSUME CoolInv, Following, NEW c, Callers = {c}, NEW what, At(c, what),
         what \notin {"upsert", "upsertAlias", "delete"},
         calls'[c].steps = Tail(calls[c].steps), NEW b, auth' = b,
         b.there /\ ~b.disabled => auth.there /\ ~auth.disabled /\ Alike(auth, b),
         sched' = sched, schedBehind' = schedBehind
  PROVE  Following'
<1>1. PICK s, t : s = calls[c].steps /\ t = Tail(s)
  OBVIOUS
<1>2. s \in Plans /\ s # <<>> /\ Head(s) = what /\ Orderly(s, t)
  BY <1>1, Ahead
<1>3. ~Tells(t) /\ ~Starts(t, "removeEntry")
  BY <1>1, <1>2, PlanHeads
<1>5. ~Tells(s)
  BY <1>2 DEF Tells
<1>6. Follows(s, calls[c].snap, auth, sched, schedBehind)
  BY <1>1 DEF Following
<1>7. Follows(t, calls'[c].snap, b, sched, schedBehind)
  BY <1>3, <1>5, <1>6, GoesOnFollowing
<1>8. calls'[c].steps = t
  BY <1>1
<1> QED
  BY <1>7, <1>8, OneFollows

(* The one caller starts an operation that tells the scheduler later.      *)
LEMMA OneBegins ==
  ASSUME CoolInv, Following, NEW c, Callers = {c}, NEW t, NEW x, NEW R, Begin(c, t, x, R),
         NEW head, Starts(t, head), head \notin {"upsert", "upsertAlias", "removeEntry"},
         auth' = auth, sched' = sched, schedBehind' = schedBehind
  PROVE  Following'
<1>1. calls \in [Callers -> Calls]
  BY DEF CoolInv, CallsType
<1>2. calls[c].steps = <<>> /\ calls'[c].steps = t
  BY <1>1 DEF Begin, Idle
<1>3. ~Tells(<<>>)
  BY DEF Tells
<1>4. Follows(<<>>, calls[c].snap, auth, sched, schedBehind)
  BY <1>2 DEF Following
<1>5. ~Tells(t) /\ ~Starts(t, "removeEntry")
  BY DEF Starts, Tells
<1>6. Follows(t, calls'[c].snap, auth, sched, schedBehind)
  BY <1>3, <1>4, <1>5, GoesOnFollowing DEF Alike
<1> QED
  BY <1>2, <1>6, OneFollows

(* The one caller has stored a record that it is about to hand over.       *)
LEMMA OneHandsOver ==
  ASSUME NEW c, Callers = {c}, Tells(calls'[c].steps), calls'[c].snap = auth'
  PROVE  Following'
<1>1. PICK t, a, entry, behind : /\ t = calls'[c].steps /\ a = auth'
                                 /\ entry = sched' /\ behind = schedBehind'
  OBVIOUS
<1>2. Follows(t, a, a, entry, behind)
  BY <1>1, HandsOver
<1> QED
  BY <1>1, <1>2, OneFollows

(* Every step of the one caller, of a request and of the clock keeps the   *)
(* scheduler up to date, or owes it the record.                            *)
LEMMA FollowAlways ==
  ASSUME CoolInv, Following, [CooldownNext]_vars, NEW c, Callers = {c}
  PROVE  Following'
<1>1. /\ auth \in AuthRecords /\ now \in Nat /\ calls \in [Callers -> Calls] /\ calls[c] \in Calls
      /\ off \in BOOLEAN
  BY Types DEF CoolInv, CallsType
<1>2. Follows(calls[c].steps, calls[c].snap, auth, sched, schedBehind)
  BY DEF Following
<1>3. ASSUME NEW x \in BOOLEAN, NEW a, Begin(c, <<"upsert">> \o If(x, Persist), a, {}), auth' = a
      PROVE  Following'
  <2>1. PICK t : t = <<"upsert">> \o If(x, Persist)
    OBVIOUS
  <2>2. Tells(t)
    BY <2>1, StartPlans DEF Fresh, Tells
  <2>3. calls'[c].steps = t /\ calls'[c].snap = a
    BY <1>1, <1>3, <2>1 DEF Begin
  <2> QED
    BY <1>3, <2>2, <2>3, OneHandsOver
<1>4. ASSUME MarkResult(c) PROVE Following'
  <2>1. PICK m, ok, kind, ra : MarkResultAs(c, m, ok, kind, ra)
    BY <1>4 DEF MarkResult
  <2>2. PICK a, x : /\ a = AfterResult(auth, m, ok, kind, ra) /\ x = (Records(auth) # Records(a))
                    /\ x \in BOOLEAN
    OBVIOUS
  <2>3. auth' = a /\ Begin(c, <<"upsert">> \o If(x, Persist), a, {})
    BY <2>1, <2>2 DEF MarkResultAs
  <2> QED
    BY <1>3, <2>2, <2>3
<1>5. ASSUME ResetQuota(c) PROVE Following'
  <2>1. PICK a, x : /\ a = AfterReset(auth) /\ x = (Records(auth) # Records(a))
                    /\ x \in BOOLEAN
    OBVIOUS
  <2>2. /\ auth' = a /\ sched' = sched
        /\ \/ Begin(c, <<"upsert">> \o If(x, Persist), a, {})
           \/ Begin(c, <<>>, NoAuth, {}) /\ schedBehind' = TRUE
    BY <1>5, <2>1 DEF ResetQuota
  <2>3. CASE Begin(c, <<>>, NoAuth, {}) /\ schedBehind' = TRUE
    <3>1. calls'[c].steps = <<>> /\ calls'[c].snap = NoAuth
      BY <1>1, <2>3 DEF Begin
    <3>2. Follows(<<>>, NoAuth, a, sched, TRUE)
      BY DEF Follows, Starts, Tells
    <3> QED
      BY <2>2, <2>3, <3>1, <3>2, OneFollows
  <2> QED
    BY <1>3, <2>1, <2>2, <2>3
<1>6. ASSUME ApplyConfig(c) PROVE Following'
  <2>1. PICK t : t = <<"clear", "records", "save", "unlock">>
    OBVIOUS
  <2>2. Starts(t, "clear")
    BY <2>1, StartPlans DEF Fresh, Starts
  <2>3. /\ Begin(c, t, NoAuth, {}) /\ auth' = auth /\ sched' = sched /\ schedBehind' = schedBehind
    BY <1>6, <2>1 DEF ApplyConfig
  <2> QED
    BY <2>2, <2>3, OneBegins
<1>7. ASSUME NEW disabled \in BOOLEAN, UpdateAuth(c, disabled) \/ PatchAuth(c, disabled)
      PROVE  Following'
  <2>1. PICK t \in {<<"create">>, <<"update">>, <<"patch">>} : \E x : Begin(c, t, x, {})
    <3>1. CASE UpdateAuth(c, disabled)
      <4>1. <<IF auth.there THEN "update" ELSE "create">> \in {<<"create">>, <<"update">>}
        OBVIOUS
      <4> QED
        BY <3>1, <4>1 DEF UpdateAuth
    <3>2. CASE PatchAuth(c, disabled)
      BY <3>2 DEF PatchAuth
    <3> QED
      BY <1>7, <3>1, <3>2
  <2>2. auth' = auth /\ sched' = sched /\ schedBehind' = schedBehind
    BY <1>7 DEF UpdateAuth, PatchAuth
  <2>3. PICK head \in {"create", "update", "patch"} : Starts(t, head)
    BY <2>1 DEF Starts
  <2> QED
    BY <2>1, <2>2, <2>3, OneBegins
<1>8. ASSUME RemoveAuth(c) \/ DeleteAuthFile(c) PROVE Following'
  <2>1. PICK t \in {<<"unregister">> \o RemoveSteps, RemoveSteps} : Begin(c, t, NoAuth, {})
    BY <1>8 DEF RemoveAuth, DeleteAuthFile
  <2>2. PICK head \in {"unregister", "delete"} : Starts(t, head)
    BY <2>1, StartPlans DEF Fresh, Starts
  <2>3. auth' = auth /\ sched' = sched /\ schedBehind' = schedBehind
    BY <1>8 DEF RemoveAuth, DeleteAuthFile
  <2> QED
    BY <2>1, <2>2, <2>3, OneBegins
<1>9. ASSUME RestoreLoad(c) PROVE Following'
  <2>1. PICK t : t = <<"merge">> \o Persist
    OBVIOUS
  <2>2. Starts(t, "merge")
    BY <2>1, StartPlans DEF Fresh, Starts
  <2>3. Begin(c, t, NoAuth, saved) /\ auth' = auth /\ sched' = sched /\ schedBehind' = schedBehind
    BY <1>9, <2>1 DEF RestoreLoad
  <2> QED
    BY <2>2, <2>3, OneBegins
<1>10. ASSUME Start(c) PROVE Following'
  BY <1>4, <1>5, <1>6, <1>7, <1>8, <1>9, <1>10 DEF Start
<1>11. ASSUME NEW what, At(c, what)
       PROVE  LET t == Tail(calls[c].steps) IN
              /\ t \in Plans /\ Tells(<<"upsert">> \o t) /\ <<>> \o t = t
              /\ ~Tells(t) /\ (what # "delete" => ~Starts(t, "removeEntry"))
              /\ Head(calls[c].steps) = what /\ calls[c].steps # <<>>
  <2>1. PICK s, t : s = calls[c].steps /\ t = Tail(s)
    OBVIOUS
  <2>2. s \in Plans /\ s # <<>> /\ Head(s) = what /\ t \in Plans
    BY <1>11, <2>1, Ahead
  <2> QED
    BY <2>1, <2>2, UpsertFirst, PlanHeads
<1>12. ASSUME ClearDisabled(c) PROVE Following'
  <2>1. PICK x, b, t :
          /\ x \in BOOLEAN /\ x = (auth.there /\ (off \/ auth.disabled) /\ AnyHot(auth)) /\ t = Tail(calls[c].steps)
          /\ b = IF auth.there /\ (off \/ auth.disabled) THEN Cleared(auth) ELSE auth
    <3>1. (auth.there /\ (off \/ auth.disabled) /\ AnyHot(auth)) \in BOOLEAN
      BY <1>1, AuthElim DEF AnyHot, Hot
    <3> QED
      BY <3>1
  <2>2. /\ At(c, "clear") /\ auth' = b /\ sched' = sched /\ schedBehind' = schedBehind
        /\ calls' = [calls EXCEPT ![c].snap = b, ![c].steps = If(x, <<"upsert">>) \o t]
    BY <1>12, <2>1 DEF ClearDisabled
  <2>3. calls'[c].steps = If(x, <<"upsert">>) \o t /\ calls'[c].snap = b
    BY <1>1, <2>2 DEF Calls
  <2>4. CASE x = TRUE
    <3>1. calls'[c].steps = <<"upsert">> \o t
      BY <2>3, <2>4 DEF If
    <3>2. Tells(<<"upsert">> \o t)
      BY <1>11, <2>1, <2>2
    <3> QED
      BY <2>2, <2>3, <3>1, <3>2, OneHandsOver
  <2>5. CASE x = FALSE
    <3>1. calls'[c].steps = Tail(calls[c].steps)
      BY <1>11, <2>1, <2>2, <2>3, <2>5 DEF If
    <3>2. b.there /\ ~b.disabled => auth.there /\ ~auth.disabled /\ Alike(auth, b)
      <4>1. CASE auth.there /\ (off \/ auth.disabled)
        <5>1. ~AnyHot(auth)
          BY <2>1, <2>5, <4>1
        <5>2. b.there = auth.there /\ b.disabled = auth.disabled
          BY <1>1, <2>1, <4>1, ClearedKeeps
        <5> QED
          BY <1>1, <2>1, <4>1, <5>1, <5>2, ClearedIsAlike
      <4>2. CASE ~(auth.there /\ (off \/ auth.disabled))
        BY <2>1, <4>2 DEF Alike
      <4> QED
        BY <4>1, <4>2
    <3> QED
      BY <2>2, <3>1, <3>2, OneGoesOn
  <2> QED
    BY <2>1, <2>4, <2>5
<1>13. ASSUME NEW what, At(c, what), what \notin {"upsert", "upsertAlias", "delete"},
              auth' = auth, sched' = sched, schedBehind' = schedBehind,
              calls'[c].steps = Tail(calls[c].steps)
       PROVE  Following'
  BY <1>13, OneGoesOn DEF Alike
<1>14. ASSUME RegisterModels(c) \/ UnregisterModels(c) \/ LockPersist(c) \/ Unlock(c)
       PROVE  Following'
  <2>1. calls'[c].steps = Tail(calls[c].steps)
    <3>1. CASE RegisterModels(c)
      <4>1. calls' = [calls EXCEPT ![c].steps = Tail(@), ![c].snap = NoAuth]
        BY <3>1 DEF RegisterModels
      <4> QED
        BY <1>1, <4>1 DEF Calls
    <3>2. CASE UnregisterModels(c) \/ LockPersist(c) \/ Unlock(c)
      <4>1. Proceed(c)
        BY <3>2 DEF UnregisterModels, LockPersist, Unlock
      <4> QED
        BY <1>1, <4>1 DEF Proceed, Calls
    <3> QED
      BY <1>14, <3>1, <3>2
  <2>2. /\ At(c, "register") \/ At(c, "unregister") \/ At(c, "lock") \/ At(c, "unlock")
        /\ auth' = auth /\ sched' = sched /\ schedBehind' = schedBehind
    BY <1>14 DEF RegisterModels, UnregisterModels, LockPersist, Unlock
  <2> QED
    BY <1>13, <2>1, <2>2
<1>15. ASSUME SnapshotRecords(c) \/ SaveRecords(c) PROVE Following'
  <2>1. PICK R : \/ calls' = [calls EXCEPT ![c].records = R, ![c].steps = Tail(@)]
                 \/ calls' = [calls EXCEPT ![c].steps = Tail(@), ![c].records = R]
    BY <1>15 DEF SnapshotRecords, SaveRecords
  <2>2. calls'[c].steps = Tail(calls[c].steps)
    BY <1>1, <2>1 DEF Calls
  <2>3. /\ At(c, "records") \/ At(c, "save")
        /\ auth' = auth /\ sched' = sched /\ schedBehind' = schedBehind
    BY <1>15 DEF SnapshotRecords, SaveRecords
  <2> QED
    BY <1>13, <2>2, <2>3
<1>16. ASSUME ReconcileRegistryModelStates(c) PROVE Following'
  <2>1. PICK b, t : /\ t = Tail(calls[c].steps)
                    /\ \/ auth' = b /\ calls' = [calls EXCEPT ![c].snap = b, ![c].steps = <<"upsert">> \o t]
                       \/ Proceed(c) /\ auth' = auth
    BY <1>16 DEF ReconcileRegistryModelStates
  <2>2. At(c, "reconcile") /\ sched' = sched /\ schedBehind' = schedBehind
    BY <1>16 DEF ReconcileRegistryModelStates
  <2>3. CASE Proceed(c) /\ auth' = auth
    <3>1. calls'[c].steps = Tail(calls[c].steps)
      BY <1>1, <2>3 DEF Proceed, Calls
    <3> QED
      BY <1>13, <2>2, <2>3, <3>1
  <2>4. CASE auth' = b /\ calls' = [calls EXCEPT ![c].snap = b, ![c].steps = <<"upsert">> \o t]
    <3>1. calls'[c].steps = <<"upsert">> \o t /\ calls'[c].snap = b
      BY <1>1, <2>4 DEF Calls
    <3>2. Tells(<<"upsert">> \o t)
      BY <1>11, <2>1, <2>2
    <3> QED
      BY <2>4, <3>1, <3>2, OneHandsOver
  <2> QED
    BY <2>1, <2>3, <2>4
<1>17. ASSUME RefreshSchedulerEntry(c) PROVE Following'
  <2>1. PICK t, u : /\ t = Tail(calls[c].steps) /\ u = If(auth.there, <<"upsert">>) \o t
                    /\ calls' = [calls EXCEPT ![c].snap = auth, ![c].steps = u]
    BY <1>17 DEF RefreshSchedulerEntry
  <2>2. At(c, "refresh") /\ auth' = auth /\ sched' = sched /\ schedBehind' = schedBehind
    BY <1>17 DEF RefreshSchedulerEntry
  <2>3. calls'[c].steps = u /\ calls'[c].snap = auth
    BY <1>1, <2>1 DEF Calls
  <2>4. auth.there \in BOOLEAN
    BY <1>1, AuthElim
  <2>5. CASE auth.there = TRUE
    <3>1. Tells(u)
      BY <1>11, <2>1, <2>2, <2>5 DEF If
    <3> QED
      BY <2>2, <2>3, <3>1, OneHandsOver
  <2>6. CASE auth.there = FALSE
    <3>1. Follows(u, auth, auth, sched, schedBehind)
      BY <2>6 DEF Follows, Starts
    <3> QED
      BY <2>2, <2>3, <3>1, OneFollows
  <2> QED
    BY <2>4, <2>5, <2>6
<1>18. ASSUME DeleteAuth(c) PROVE Following'
  <2>1. PICK t \in {Tail(calls[c].steps), <<>>} : calls' = [calls EXCEPT ![c].steps = t]
    BY <1>18 DEF DeleteAuth, Proceed
  <2>2. PICK x, entry, a : x = calls'[c].snap /\ entry = sched' /\ a = auth'
    OBVIOUS
  <2>3. calls'[c].steps = t
    BY <1>1, <2>1 DEF Calls
  <2>4. ~Tells(t)
    <3>1. At(c, "delete")
      BY <1>18 DEF DeleteAuth
    <3>2. ~Tells(<<>>)
      BY DEF Tells
    <3> QED
      BY <1>11, <2>1, <3>1, <3>2
  <2>6. ~a.there /\ schedBehind' = schedBehind
    BY <1>18, <2>2, FreshRecords DEF DeleteAuth
  <2>5. Follows(t, x, a, entry, schedBehind)
    BY <2>4, <2>6 DEF Follows
  <2> QED
    BY <2>2, <2>3, <2>5, <2>6, OneFollows
<1>27. ASSUME StoreAuth(c) PROVE Following'
  <2> DEFINE kind == Head(calls[c].steps)
             given == calls[c].snap
             inherits == kind # "create" /\ given.states = <<>> /\ ~auth.disabled /\ ~given.disabled
             filled == IF inherits THEN [given EXCEPT !.states = auth.states] ELSE given
             clears == off \/ given.disabled
             x == clears /\ AnyHot(filled)
             y == kind # "patch"
             u == <<"upsertAlias">> \o If(x, Persist) \o Rest(y)
             after == IF clears THEN Cleared(filled) ELSE filled
  <2>1. IF kind = "create" \/ auth.there
        THEN auth' = after /\ calls' = [calls EXCEPT ![c].snap = after, ![c].steps = u]
        ELSE /\ auth' = auth /\ sched' = sched
             /\ calls' = [calls EXCEPT ![c].snap = Parted(@), ![c].steps = Rest(y)]
    BY <1>27 DEF StoreAuth, Rest
  <2>2. x \in BOOLEAN /\ y \in BOOLEAN
    <3>1. given.disabled \in BOOLEAN
      BY Types, AuthElim
    <3>2. AnyHot(filled) \in BOOLEAN
      BY DEF AnyHot, Hot
    <3> QED
      BY <1>1, <3>1, <3>2
  <2>3. Fresh(u, "upsertAlias", FALSE, TRUE) /\ (\A w : w # "register" => ~Starts(Rest(y), w))
    <3> HIDE DEF x, y
    <3> QED
      BY <2>2, StartPlans
  <2> HIDE DEF u, after, y
  <2>4. CASE kind = "create" \/ auth.there
    <3>1. calls' = [calls EXCEPT ![c].snap = after, ![c].steps = u] /\ auth' = after
      BY <2>1, <2>4
    <3>2. calls'[c].steps = u /\ calls'[c].snap = after
      BY <1>1, <3>1 DEF Calls
    <3>3. Tells(u)
      BY <2>3 DEF Fresh, Tells
    <3> QED
      BY <3>1, <3>2, <3>3, OneHandsOver
  <2>5. CASE ~(kind = "create" \/ auth.there)
    <3>1. /\ calls' = [calls EXCEPT ![c].snap = Parted(@), ![c].steps = Rest(y)]
          /\ auth' = auth /\ sched' = sched /\ schedBehind' = schedBehind
      BY <1>27, <2>1, <2>5 DEF StoreAuth
    <3>2. calls'[c].steps = Rest(y)
      BY <1>1, <3>1 DEF Calls
    <3>3. ~Tells(Rest(y)) /\ ~Starts(Rest(y), "removeEntry")
      BY <2>3 DEF Tells, Starts
    <3>4. PICK z : z = calls'[c].snap
      OBVIOUS
    <3>5. Follows(Rest(y), z, auth, sched, schedBehind)
      BY <2>5, <3>3 DEF Follows
    <3> QED
      BY <3>1, <3>2, <3>4, <3>5, OneFollows
  <2> QED
    BY <2>4, <2>5
<1>19. ASSUME UpsertAuth(c) PROVE Following'
  <2>1. /\ At(c, "upsert") /\ auth' = auth /\ sched' = Entry(calls[c].snap, FALSE)
        /\ schedBehind' = FALSE
        /\ calls' = [calls EXCEPT ![c].steps = Tail(@), ![c].snap = NoAuth]
    BY <1>19 DEF UpsertAuth
  <2>2. PICK t : t = Tail(calls[c].steps)
    OBVIOUS
  <2>3. calls'[c].steps = t /\ calls'[c].snap = NoAuth
    BY <1>1, <2>1, <2>2 DEF Calls
  <2>4. ~Tells(t) /\ ~Starts(t, "removeEntry") /\ Tells(calls[c].steps)
    BY <1>11, <2>1, <2>2 DEF Tells
  <2>5. calls[c].snap = auth
    BY <1>2, <2>4 DEF Follows
  <2>6. Follows(t, NoAuth, auth, Entry(auth, FALSE), FALSE)
    BY <2>4, EntryFollows
  <2> QED
    BY <2>1, <2>3, <2>5, <2>6, OneFollows
<1>20. ASSUME UpsertStored(c) PROVE Following'
  <2>1. /\ At(c, "upsertAlias") /\ auth' = auth /\ sched' = Entry(calls[c].snap, stored = c)
        /\ schedBehind' = FALSE
        /\ calls' = [calls EXCEPT ![c].steps = Tail(@), ![c].snap = Parted(@)]
    BY <1>20 DEF UpsertStored
  <2>2. PICK t, x : t = Tail(calls[c].steps) /\ x = calls'[c].snap
    OBVIOUS
  <2>3. calls'[c].steps = t
    BY <1>1, <2>1, <2>2 DEF Calls
  <2>4. ~Tells(t) /\ ~Starts(t, "removeEntry") /\ Tells(calls[c].steps)
    BY <1>11, <2>1, <2>2 DEF Tells
  <2>5. calls[c].snap = auth
    BY <1>2, <2>4 DEF Follows
  <2>6. Follows(t, x, auth, Entry(auth, stored = c), FALSE)
    BY <2>4, EntryFollows
  <2> QED
    BY <2>1, <2>2, <2>3, <2>5, <2>6, OneFollows
<1>21. ASSUME RemoveEntry(c) PROVE Following'
  <2>1. At(c, "removeEntry") /\ auth' = auth /\ Proceed(c) /\ schedBehind' = schedBehind
    BY <1>21 DEF RemoveEntry
  <2>2. PICK t, x, entry : t = Tail(calls[c].steps) /\ x = calls'[c].snap /\ entry = sched'
    OBVIOUS
  <2>3. calls'[c].steps = t
    BY <1>1, <2>1, <2>2 DEF Proceed, Calls
  <2>4. ~Tells(t) /\ Starts(calls[c].steps, "removeEntry")
    BY <1>11, <2>1, <2>2 DEF Starts
  <2>5. ~auth.there
    BY <1>2, <2>4 DEF Follows
  <2>6. Follows(t, x, auth, entry, schedBehind)
    BY <2>4, <2>5 DEF Follows
  <2> QED
    BY <2>1, <2>2, <2>3, <2>6, OneFollows
<1>22. ASSUME RestoreMerge(c) PROVE Following'
  <2>1. PICK b, x, t :
          /\ x \in BOOLEAN /\ b = WithRecords(auth, calls[c].records)
          /\ x = (Restorable(auth, calls[c].records) # {}) /\ t = Tail(calls[c].steps)
    OBVIOUS
  <2>2. /\ At(c, "merge") /\ auth' = b /\ sched' = sched /\ schedBehind' = schedBehind
        /\ calls' = [calls EXCEPT ![c].snap = b, ![c].records = {},
                                  ![c].steps = If(x, <<"upsert">>) \o t]
    BY <1>22, <2>1 DEF RestoreMerge
  <2>3. calls'[c].steps = If(x, <<"upsert">>) \o t /\ calls'[c].snap = b
    BY <1>1, <2>2 DEF Calls
  <2>4. CASE x = TRUE
    <3>1. calls'[c].steps = <<"upsert">> \o t
      BY <2>3, <2>4 DEF If
    <3>2. Tells(<<"upsert">> \o t)
      BY <1>11, <2>1, <2>2
    <3> QED
      BY <2>2, <2>3, <3>1, <3>2, OneHandsOver
  <2>5. CASE x = FALSE
    <3>1. calls'[c].steps = Tail(calls[c].steps)
      BY <1>11, <2>1, <2>2, <2>3, <2>5 DEF If
    <3>2. calls[c].records \in SUBSET CooldownRecords
      BY Types
    <3>3. b = auth
      BY <1>1, <2>1, <2>5, <3>2, RestoreKeeps
    <3> QED
      BY <1>13, <2>2, <3>1, <3>3
  <2> QED
    BY <2>1, <2>4, <2>5
<1>23. ASSUME Continue(c) PROVE Following'
  BY <1>12, <1>14, <1>15, <1>16, <1>17, <1>18, <1>19, <1>20, <1>21, <1>22, <1>23, <1>27 DEF Continue
<1>24. ASSUME Restart(c) PROVE Following'
  <2>1. PICK t : t = If(saved # {}, <<"merge">> \o Persist)
    OBVIOUS
  <2>2. calls'[c].steps = t /\ calls'[c].snap = NoAuth /\ schedBehind' = FALSE
    BY <1>24, <2>1 DEF Restart
  <2>3. ~Tells(t) /\ ~Starts(t, "removeEntry")
    <3>1. CASE saved # {}
      <4>1. t = <<"merge">> \o Persist
        BY <2>1, <3>1 DEF If
      <4>2. Starts(t, "merge")
        BY <4>1, StartPlans DEF Fresh, Starts
      <4> QED
        BY <4>2 DEF Starts, Tells
    <3>2. CASE saved = {}
      <4>1. t = <<>>
        BY <2>1, <3>2 DEF If
      <4> QED
        BY <4>1 DEF Starts, Tells
    <3> QED
      BY <3>1, <3>2
  <2>4. PICK a, entry :
          /\ auth' = a /\ sched' = entry
          /\ a = IF auth.there THEN FreshAuth(auth.disabled) ELSE NoAuth
          /\ entry = IF auth.there /\ ~auth.disabled
                     THEN [auth |-> FreshAuth(FALSE), bound |-> FALSE, alias |-> FALSE] ELSE NoEntry
    BY <1>24 DEF Restart
  <2>5. a.there /\ ~a.disabled => Alike(entry.auth, a)
    <3>1. auth.there \in BOOLEAN /\ auth.disabled \in BOOLEAN
      BY <1>1, AuthElim
    <3>2. CASE auth.there /\ ~auth.disabled
      <4>1. auth.disabled = FALSE
        BY <3>1, <3>2
      <4>2. a = FreshAuth(FALSE) /\ entry = [auth |-> FreshAuth(FALSE), bound |-> FALSE, alias |-> FALSE]
        BY <2>4, <3>2, <4>1
      <4> QED
        BY <4>2 DEF Alike
    <3>3. CASE ~(auth.there /\ ~auth.disabled)
      BY <2>4, <3>1, <3>3, FreshRecords
    <3> QED
      BY <3>2, <3>3
  <2>6. Follows(t, NoAuth, a, entry, FALSE)
    BY <2>3, <2>5 DEF Follows
  <2> QED
    BY <2>2, <2>4, <2>6, OneFollows
<1>25. ASSUME PickRebuild PROVE Following'
  <2>1. /\ pick.pc = "rebuild" /\ sched' = Entry(pick.snap, FALSE) /\ schedBehind' = ~pick.quiet
        /\ auth' = auth /\ calls' = calls
    BY <1>25 DEF PickRebuild
  <2>2. PICK s, x, entry : s = calls[c].steps /\ x = calls[c].snap /\ entry = sched'
    OBVIOUS
  <2>3. pick.quiet \in BOOLEAN
    BY Types DEF Picks
  <2>4. CASE pick.quiet = TRUE
    <3>1. s = <<>> /\ pick.snap = auth
      BY <2>1, <2>2, <2>4 DEF CoolInv, PickSees
    <3>2. Follows(<<>>, x, auth, Entry(auth, FALSE), FALSE)
      BY EntryFollows DEF Starts, Tells
    <3> QED
      BY <2>1, <2>2, <2>4, <3>1, <3>2, OneFollows
  <2>5. CASE pick.quiet = FALSE
    <3>1. Follows(s, x, auth, entry, TRUE)
      BY <1>2, <2>2 DEF Follows
    <3> QED
      BY <2>1, <2>2, <2>5, <3>1, OneFollows
  <2> QED
    BY <2>3, <2>4, <2>5
<1>26. ASSUME Tick \/ UNCHANGED vars \/ PickStart \/ PickFirst \/ PickSnapshot \/ PickSecond \/ PickEnd
       PROVE  Following'
  <2>1. auth' = auth /\ calls' = calls /\ sched' = sched /\ schedBehind' = schedBehind
    BY <1>26 DEF Tick, vars, PickStart, PickFirst, PickSnapshot, PickSecond, PickEnd
  <2> QED
    BY <1>2, <2>1, OneFollows
<1> QED
  BY <1>10, <1>23, <1>24, <1>25, <1>26 DEF CooldownNext, Pick

(* The scheduler starts with the record. *)
LEMMA FollowInitially ==
  ASSUME CooldownInit
  PROVE  Following
<1> SUFFICES ASSUME NEW c \in Callers
             PROVE  Follows(calls[c].steps, calls[c].snap, auth, sched, schedBehind)
  BY DEF Following
<1>1. /\ calls[c].steps = <<>> /\ auth = FreshAuth(FALSE) /\ schedBehind = FALSE
      /\ sched = [auth |-> FreshAuth(FALSE), bound |-> TRUE, alias |-> FALSE]
  BY DEF CooldownInit
<1>2. Alike(sched.auth, auth)
  BY <1>1 DEF Alike
<1> QED
  BY <1>1, <1>2 DEF Follows, Starts, Tells

(* A scheduler that follows decides as the record does. *)
LEMMA FollowerAgrees ==
  ASSUME CoolInv, Following, NEW c, Callers = {c}
  PROVE  SchedulerAgrees
<1> SUFFICES ASSUME AtRest, ~schedBehind, auth.there, ~auth.disabled,
                    NEW m \in Models, NEW view \in Views
             PROVE  Blocked(view, m) = Blocked(auth, m)
  BY DEF SchedulerAgrees
<1>1. calls[c].steps = <<>>
  BY DEF AtRest, Idle
<1>2. ~Tells(<<>>)
  BY DEF Tells
<1>3. Alike(sched.auth, auth)
  BY <1>1, <1>2 DEF Following, Follows
<1>4. view = sched.auth \/ view = auth
  BY DEF Views
<1>5. Judged(view, m) = Judged(auth, m)
  BY <1>3, <1>4 DEF Judged, Alike
<1> QED
  BY <1>3, <1>4, <1>5 DEF Blocked, Alike

(* With operations one after the other, the scheduler's copy of a          *)
(* credential leads to the same routing decision as the manager's record,  *)
(* for every model and at any later time, whichever operations, failed     *)
(* resets, restarts and rebuilds by requests came before.                  *)
THEOREM SchedulerFollowsRecord ==
  ASSUME \E caller : Callers = {caller}
  PROVE  CooldownSpec => []SchedulerAgrees
<1>1. CooldownInit => Following
  BY FollowInitially
<1>2. CoolInv /\ Following /\ [CooldownNext]_vars => Following'
  BY FollowAlways
<1>3. CoolInv /\ Following => SchedulerAgrees
  BY FollowerAgrees
<1> QED
  BY <1>1, <1>2, <1>3, Cooling, PTL DEF CooldownSpec

=============================================================================
