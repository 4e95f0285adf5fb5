------------------------ MODULE AuthSchedulerProofs ------------------------
(***************************************************************************)
(* Proofs about AuthScheduler: the indexes the scheduler keeps up to date  *)
(* one credential at a time always say what a fresh look at the            *)
(* credentials would say, so that a request gets one of the best and a     *)
(* refusal is true, whatever was filed, removed, moved and promoted        *)
(* before.                                                                 *)
(*                                                                         *)
(* The record of which the scheduler is handed a copy moves beside it in   *)
(* MCAuthScheduler, as an instance of CredentialCooldown; what is proved   *)
(* of the latter is carried over to the properties of that run.            *)
(***************************************************************************)
EXTENDS MCAuthScheduler, FiniteSetTheorems, WellFoundedInduction, TLAPS

-----------------------------------------------------------------------------
(* Minima, maxima, sorting and sums *)

(* A nonempty set of numbers has a least one, which Min takes. *)
LEMMA MinIsLeast ==
  ASSUME NEW S \in SUBSET Nat, S # {}
  PROVE  Min(S) \in S /\ \A y \in S : Min(S) <= y
<1>1. PICK x \in S : \A y \in S : <<y, x>> \notin OpToRel(<, Nat)
  BY NatLessThanWellFounded, WFMin, Zenon
<1>2. \A y \in S : x <= y
  <2>1. TAKE y \in S
  <2>2. x \in Nat /\ y \in Nat
    BY <1>1, <2>1
  <2>3. ~(y < x)
    BY <1>1, <2>1, <2>2 DEF OpToRel
  <2> QED BY <2>2, <2>3
<1> QED BY <1>1, <1>2, Zenon DEF Min

(* A nonempty finite set of integers has a greatest one, which Max takes:  *)
(* the one that the fewest are above.                                      *)
LEMMA MaxIsGreatest ==
  ASSUME NEW S \in SUBSET Int, IsFiniteSet(S), S # {}
  PROVE  Max(S) \in S /\ \A y \in S : y <= Max(S)
<1> DEFINE above(x) == {y \in S : y > x}
           counts == {Cardinality(above(x)) : x \in S}
<1>1. \A x \in S : IsFiniteSet(above(x)) /\ Cardinality(above(x)) \in Nat
  <2>1. TAKE x \in S
  <2>2. above(x) \in SUBSET S
    OBVIOUS
  <2> HIDE DEF above
  <2>3. IsFiniteSet(above(x))
    BY <2>2, FS_Subset
  <2> QED BY <2>3, FS_CardinalityType
<1>2. counts \in SUBSET Nat /\ counts # {}
  BY <1>1
<1>3. PICK x \in S : Cardinality(above(x)) = Min(counts)
  <2>1. Min(counts) \in counts
    <3> HIDE DEF counts
    <3> QED BY <1>2, MinIsLeast
  <2> QED BY <2>1
<1>0. \A z \in S : z \in Int
  OBVIOUS
<1>4. \A y \in S : y <= x
  <2>1. SUFFICES ASSUME NEW y \in S, y > x
                 PROVE  FALSE
    OBVIOUS
  <2>2. above(y) \in SUBSET above(x) /\ y \in above(x) /\ y \notin above(y)
    <3>1. x \in Int /\ y \in Int
      BY <1>0
    <3>2. \A z \in S : z > y => z > x
      BY <1>0, <2>1, <3>1
    <3>3. ~(y > y)
      BY <3>1
    <3> QED BY <2>1, <3>2, <3>3, Zenon
  <2>3. Cardinality(above(y)) <= Cardinality(above(x))
        /\ Cardinality(above(y)) # Cardinality(above(x))
    <3> HIDE DEF above
    <3> QED BY <1>1, <2>2, FS_Subset
  <2>4. Cardinality(above(y)) \in counts
    BY <2>1
  <2>5. Min(counts) <= Cardinality(above(y))
    BY <1>2, <2>4, MinIsLeast
  <2> HIDE DEF above, counts
  <2> QED BY <1>1, <1>3, <2>1, <2>3, <2>5
<1>5. \E z \in S : \A y \in S : z >= y
  BY <1>4
<1> QED
  <2>1. Max(S) \in S /\ \A y \in S : Max(S) >= y
    BY <1>5, Zenon DEF Max
  <2> QED BY <2>1

(* Sorted lists the members of a finite set of numbers. *)
LEMMA SortedLists ==
  ASSUME NEW S \in SUBSET Nat, IsFiniteSet(S)
  PROVE  Sorted(S) \in Seq(S) /\ Len(Sorted(S)) = Cardinality(S) /\ Range(Sorted(S)) = S
<1> DEFINE below(a) == {b \in S : b < a}
           n == Cardinality(S)
           rank == [a \in S |-> Cardinality(below(a)) + 1]
           at(i) == CHOOSE a \in S : Cardinality(below(a)) = i - 1
<1>1. n \in Nat
  BY FS_CardinalityType
<1>2. \A a \in S : IsFiniteSet(below(a)) /\ Cardinality(below(a)) \in 0 .. n - 1
  <2>1. TAKE a \in S
  <2>2. below(a) \in SUBSET S /\ below(a) # S
    BY <2>1
  <2> HIDE DEF below
  <2>3. IsFiniteSet(below(a)) /\ Cardinality(below(a)) <= n /\ Cardinality(below(a)) # n
    BY <2>2, FS_Subset
  <2> QED BY <1>1, <2>3, FS_CardinalityType
<1>3. \A a, b \in S : a < b => Cardinality(below(a)) < Cardinality(below(b))
  <2>1. TAKE a, b \in S
  <2>2. HAVE a < b
  <2>3. below(a) \in SUBSET below(b) /\ a \in below(b) /\ a \notin below(a)
    <3>1. a \in Nat /\ b \in Nat
      BY <2>1
    <3>2. \A z \in S : z < a => z < b
      <4>1. \A z \in S : z \in Nat
        OBVIOUS
      <4> QED BY <4>1, <2>2, <3>1
    <3>3. ~(a < a)
      BY <3>1
    <3> QED BY <2>1, <2>2, <3>2, <3>3, Zenon
  <2> HIDE DEF below
  <2>4. Cardinality(below(a)) <= Cardinality(below(b))
        /\ Cardinality(below(a)) # Cardinality(below(b))
    BY <1>2, <2>3, FS_Subset
  <2> QED BY <1>2, <2>4, <1>1
<1>4. rank \in Injection(S, 1 .. n)
  <2>1. rank \in [S -> 1 .. n]
    <3> HIDE DEF below
    <3> QED BY <1>1, <1>2
  <2>2. \A a, b \in S : a # b => rank[a] # rank[b]
    <3>1. TAKE a, b \in S
    <3>2. a < b \/ b < a \/ a = b
      BY <3>1
    <3> HIDE DEF below
    <3> QED BY <1>2, <1>3, <3>2
  <2> HIDE DEF rank
  <2> QED BY <2>1, <2>2 DEF Injection, IsInjective
<1>5. rank \in Surjection(S, 1 .. n)
  <2>1. IsFiniteSet(1 .. n) /\ Cardinality(1 .. n) = n
    BY <1>1, FS_Interval
  <2> HIDE DEF rank
  <2> QED BY <1>4, <2>1, FS_Injection
<1>6. \A i \in 1 .. n : \E a \in S : Cardinality(below(a)) = i - 1
  <2>1. TAKE i \in 1 .. n
  <2>2. PICK a \in S : rank[a] = i
    BY <1>5 DEF Surjection
  <2> HIDE DEF below
  <2> QED BY <2>2, <1>2, <1>1
<1>7. \A i \in 1 .. n : at(i) \in S /\ Cardinality(below(at(i))) = i - 1
  <2> HIDE DEF below
  <2> QED BY <1>6
<1>8. Sorted(S) = [i \in 1 .. n |-> at(i)]
  BY DEF Sorted
<1> HIDE DEF at, below, n
<1>9. Sorted(S) \in [1 .. n -> S]
  BY <1>7, <1>8
<1>10. Sorted(S) \in Seq(S) /\ Len(Sorted(S)) = n
  BY <1>1, <1>9
<1>11. \A a \in S : \E i \in 1 .. n : Sorted(S)[i] = a
  <2>1. TAKE a \in S
  <2>2. PICK i \in 1 .. n : i = Cardinality(below(a)) + 1
    BY <1>1, <1>2, <2>1
  <2>3. at(i) = a
    <3>1. at(i) \in S /\ Cardinality(below(at(i))) = Cardinality(below(a))
      BY <1>7, <2>2, <1>2
    <3>2. at(i) < a \/ a < at(i) \/ at(i) = a
      <4>1. \A x, y \in Nat : x < y \/ y < x \/ x = y
        OBVIOUS
      <4>2. at(i) \in Nat /\ a \in Nat
        BY <3>1, <2>1
      <4> QED BY <4>1, <4>2, Zenon
    <3>3. Cardinality(below(a)) \in Nat
      BY <1>1, <1>2
    <3>4. ~(Cardinality(below(a)) < Cardinality(below(a)))
      BY <3>3
    <3> QED BY <1>3, <3>1, <3>2, <3>4, <2>1, Zenon
  <2> QED BY <1>8, <2>2, <2>3
<1>12. Range(Sorted(S)) = S
  BY <1>9, <1>11 DEF Range
<1> QED BY <1>10, <1>12 DEF n

(* The image of a finite set under a function is finite. *)
LEMMA ImageIsFinite ==
  ASSUME NEW S, IsFiniteSet(S), NEW f, DOMAIN f = S
  PROVE  IsFiniteSet(Range(f))
<1> DEFINE g == [x \in S |-> f[x]]
<1>1. g \in [S -> Range(f)] /\ \A y \in Range(f) : \E x \in S : g[x] = y
  BY DEF Range
<1> HIDE DEF g
<1>2. g \in Surjection(S, Range(f))
  BY <1>1 DEF Surjection
<1> QED BY <1>2, FS_Surjection

(* A sum over a finite set is a number. *)
LEMMA TotalIsNumber ==
  ASSUME NEW S, IsFiniteSet(S), NEW f \in [S -> Nat]
  PROVE  /\ Total(f) \in Nat
         /\ IsFiniteSet(UNION {{a} \X (1 .. f[a]) : a \in S})
<1> DEFINE piece == [a \in S |-> {a} \X (1 .. f[a])]
           all == UNION {{a} \X (1 .. f[a]) : a \in S}
<1>1. \A a \in S : IsFiniteSet({a} \X (1 .. f[a]))
  <2>1. TAKE a \in S
  <2>2. f[a] \in Int
    BY <2>1
  <2>3. IsFiniteSet(1 .. f[a])
    BY <2>2, FS_Interval
  <2>4. IsFiniteSet({a})
    BY FS_Singleton
  <2> QED BY <2>3, <2>4, FS_Product
<1>2. Range(piece) = {{a} \X (1 .. f[a]) : a \in S}
  BY DEF Range
<1>3. IsFiniteSet(Range(piece))
  <2>1. DOMAIN piece = S
    OBVIOUS
  <2> HIDE DEF piece
  <2> QED BY <2>1, ImageIsFinite
<1>4. \A T \in {{a} \X (1 .. f[a]) : a \in S} : IsFiniteSet(T)
  BY <1>1
<1>5. IsFiniteSet(all)
  <2>1. IsFiniteSet(Range(piece)) /\ \A T \in Range(piece) : IsFiniteSet(T)
    BY <1>2, <1>3, <1>4, Zenon
  <2>2. IsFiniteSet(UNION Range(piece))
    <3> HIDE DEF piece
    <3> QED BY <2>1, FS_UNION
  <2> QED BY <1>2, <2>2, Zenon
<1>6. Total(f) = Cardinality(all)
  <2>1. DOMAIN f = S
    OBVIOUS
  <2> QED BY <2>1, Zenon DEF Total
<1> HIDE DEF all
<1>7. Total(f) \in Nat
  BY <1>5, <1>6, FS_CardinalityType
<1> QED BY <1>5, <1>7 DEF all

-----------------------------------------------------------------------------
(* Views *)

Credits == UNION {[current : [S -> Int], weights : [S -> Int]] : S \in SUBSET Auths}
AnyViews == [flat : Seq(Auths), cursor : Nat, credits : Credits]

(* A cursor points at most one past the end; who holds credits is listed. *)
Views == {v \in AnyViews : /\ v.cursor <= Len(v.flat)
                          /\ DOMAIN v.credits.current \subseteq Range(v.flat)}

(* The views that list the credentials of S. *)
Viewing(S) == {v \in Views : Range(v.flat) = S}

Buckets(S, T) == [all : Viewing(S), ws : Viewing(T)]

(* The assumptions on the credentials' IDs. *)
LEMMA AuthsAreNumbers ==
  Auths \in SUBSET Nat /\ NoAuth \notin Auths /\ IsFiniteSet(Auths)
BY SchedulerAssumption DEF NoAuth

(* The empty state of smoothWeightedState is one. *)
LEMMA NoCreditsOK == NoCredits \in Credits
<1>1. <<>> \in [{} -> Int]
  OBVIOUS
<1>2. NoCredits \in [current : [{} -> Int], weights : [{} -> Int]]
  BY <1>1 DEF NoCredits
<1> QED BY <1>2 DEF Credits

(* The empty view and the empty bucket list nothing. *)
LEMMA NoViewOK == NoView \in Viewing({}) /\ NoBucket \in Buckets({}, {})
<1>1. <<>> \in Seq(Auths) /\ Range(<<>>) = {}
  BY DEF Range
<1>2. NoView \in AnyViews
  BY <1>1, NoCreditsOK DEF NoView, AnyViews
<1>3. NoView.flat = <<>> /\ NoView.cursor = 0 /\ NoView.credits.current = <<>>
  BY DEF NoView, NoCredits
<1>4. NoView \in Viewing({})
  <2>1. 0 <= Len(<<>>) /\ DOMAIN <<>> = {}
    OBVIOUS
  <2> QED BY <1>1, <1>2, <1>3, <2>1 DEF Viewing, Views
<1> QED BY <1>4 DEF NoBucket, Buckets

(* A rebuilt view lists the credentials it is built for. *)
LEMMA RestoredViews ==
  ASSUME NEW S \in SUBSET Auths, NEW old \in Views, NEW ms
  PROVE  RestoreCursors(S, old, ms) \in Viewing(S)
<1>1. IsFiniteSet(S) /\ S \in SUBSET Nat /\ Cardinality(S) \in Nat /\ (S # {} => Cardinality(S) > 0)
  <2>1. IsFiniteSet(S)
    BY AuthsAreNumbers, FS_Subset
  <2>2. Cardinality(S) \in Nat /\ (Cardinality(S) = 0 <=> S = {})
    BY <2>1, FS_CardinalityType, FS_EmptySet
  <2>3. S # {} => Cardinality(S) > 0
    BY <2>2
  <2>4. S \in SUBSET Nat
    BY AuthsAreNumbers
  <2> QED BY <2>1, <2>2, <2>3, <2>4
<1>2. Sorted(S) \in Seq(S) /\ Range(Sorted(S)) = S /\ Len(Sorted(S)) = Cardinality(S)
  BY <1>1, SortedLists
<1>3. Sorted(S) \in Seq(Auths)
  BY <1>2
<1> DEFINE cursor == IF S = {} THEN 0 ELSE old.cursor % Cardinality(S)
           credits == IF old.credits.current # <<>> /\ old.credits.weights = WeightVector(S, ms)
                      THEN old.credits ELSE NoCredits
<1>4. old.cursor \in Nat /\ old.credits \in Credits
  BY DEF Views, AnyViews
<1>5. cursor \in Nat /\ cursor <= Cardinality(S)
  BY <1>1, <1>4
<1>6. credits \in Credits /\ DOMAIN credits.current \subseteq S
  <2>1. NoCredits.current = <<>> /\ DOMAIN <<>> = {}
    BY DEF NoCredits
  <2>2. PICK T \in SUBSET Auths : /\ old.credits.current \in [T -> Int]
                                 /\ old.credits.weights \in [T -> Int]
    BY <1>4 DEF Credits
  <2>3. DOMAIN WeightVector(S, ms) \subseteq S
    BY DEF WeightVector
  <2>4. old.credits.weights = WeightVector(S, ms) => DOMAIN old.credits.current \subseteq S
    BY <2>2, <2>3
  <2> QED BY <1>4, <2>1, <2>4, NoCreditsOK
<1>7. RestoreCursors(S, old, ms) = [flat |-> Sorted(S), cursor |-> cursor, credits |-> credits]
  BY DEF RestoreCursors
<1> HIDE DEF cursor, credits
<1>8. RestoreCursors(S, old, ms) \in AnyViews
  BY <1>3, <1>5, <1>6, <1>7 DEF AnyViews
<1>9. /\ RestoreCursors(S, old, ms).flat = Sorted(S)
      /\ RestoreCursors(S, old, ms).cursor = cursor /\ RestoreCursors(S, old, ms).credits = credits
  BY <1>7
<1> QED BY <1>2, <1>5, <1>6, <1>8, <1>9 DEF Viewing, Views

-----------------------------------------------------------------------------
(* Picking from a view *)

(* pickFirst takes a credential that the view lists and the request may    *)
(* use.                                                                    *)
LEMMA PickFirstTakes ==
  ASSUME NEW S, NEW view \in Viewing(S), NEW ok, S \cap ok # {}
  PROVE  PickFirst(view, ok).auth \in S \cap ok /\ PickFirst(view, ok).view \in Viewing(S)
<1> DEFINE at == {i \in DOMAIN view.flat : view.flat[i] \in ok}
<1>1. view.flat \in Seq(Auths) /\ Range(view.flat) = S
  BY DEF Viewing, Views, AnyViews
<1>2. at \in SUBSET Nat /\ at # {}
  BY <1>1 DEF Range
<1>3. Min(at) \in at
  <2> HIDE DEF at
  <2> QED BY <1>2, MinIsLeast
<1>4. view.flat[Min(at)] \in S \cap ok
  BY <1>1, <1>3 DEF Range
<1> QED BY <1>4 DEF PickFirst

(* pickRoundRobin does, and moves the cursor. *)
LEMMA PickRoundRobinTakes ==
  ASSUME NEW S, NEW view \in Viewing(S), NEW ok, S \cap ok # {}
  PROVE  PickRoundRobin(view, ok).auth \in S \cap ok
         /\ PickRoundRobin(view, ok).view \in Viewing(S)
<1> DEFINE n == Len(view.flat)
           c == view.cursor % n
           Index(o) == (c + o) % n
           hits == {o \in 0 .. n - 1 : view.flat[Index(o) + 1] \in ok}
           hit == Index(Min(hits))
<1>1. view.flat \in Seq(Auths) /\ Range(view.flat) = S /\ view.cursor \in Nat
  BY DEF Viewing, Views, AnyViews
<1>2. n \in Nat /\ DOMAIN view.flat = 1 .. n
  BY <1>1
<1>3. PICK i \in 1 .. n : view.flat[i] \in ok
  BY <1>1, <1>2 DEF Range
<1>4. n \in Nat /\ n > 0 /\ c \in 0 .. n - 1
  <2>1. n > 0
    BY <1>2, <1>3
  <2> HIDE DEF n
  <2> QED BY <1>1, <1>2, <2>1
<1>5. \A o \in 0 .. n - 1 : Index(o) \in 0 .. n - 1
  <2> HIDE DEF n, c
  <2> QED BY <1>4
<1>6. \E o \in 0 .. n - 1 : Index(o) = i - 1
  <2> HIDE DEF n, c
  <2>1. CASE i - 1 >= c
    <3>1. i - 1 - c \in 0 .. n - 1 /\ c + (i - 1 - c) = i - 1
      BY <1>3, <1>4, <2>1
    <3>2. (i - 1) % n = i - 1
      BY <1>3, <1>4
    <3>3. Index(i - 1 - c) = i - 1
      BY <3>1, <3>2
    <3> QED BY <3>1, <3>3
  <2>2. CASE i - 1 < c
    <3>1. i - 1 - c + n \in 0 .. n - 1 /\ c + (i - 1 - c + n) = (i - 1) + n
      BY <1>3, <1>4, <2>2
    <3>2. ((i - 1) + n) % n = i - 1
      <4>1. (i - 1) \in 0 .. n - 1
        BY <1>3, <1>4
      <4>2. \A k \in 0 .. n - 1 : (k + n) % n = k
        BY <1>4
      <4> QED BY <4>1, <4>2
    <3>3. Index(i - 1 - c + n) = i - 1
      BY <3>1, <3>2
    <3> QED BY <3>1, <3>3
  <2> QED BY <1>3, <1>4, <2>1, <2>2
<1>7. PICK o \in 0 .. n - 1 : Index(o) = i - 1
  BY <1>6
<1>8. hits \in SUBSET Nat /\ hits # {}
  <2>1. Index(o) + 1 = i
    BY <1>2, <1>3, <1>7
  <2>2. o \in hits
    BY <1>3, <1>7, <2>1
  <2>3. 0 .. n - 1 \in SUBSET Nat
    <3> HIDE DEF n
    <3> QED BY <1>4
  <2> QED BY <2>2, <2>3
<1>9. Min(hits) \in hits
  <2> HIDE DEF hits
  <2> QED BY <1>8, MinIsLeast
<1>10. hit \in 0 .. n - 1 /\ view.flat[hit + 1] \in ok
  BY <1>5, <1>9
<1>11. PickRoundRobin(view, ok).auth = view.flat[hit + 1]
       /\ PickRoundRobin(view, ok).view = [view EXCEPT !.cursor = hit + 1]
  BY DEF PickRoundRobin
<1> HIDE DEF hit, n
<1>12. hit + 1 \in 1 .. n /\ hit + 1 \in Nat
  BY <1>4, <1>10
<1>13. view.flat[hit + 1] \in S
  BY <1>1, <1>2, <1>12 DEF Range
<1>14. [view EXCEPT !.cursor = hit + 1] \in Viewing(S)
  <2>1. PICK w : w = [view EXCEPT !.cursor = hit + 1]
    OBVIOUS
  <2>2. view \in AnyViews /\ DOMAIN view.credits.current \subseteq Range(view.flat)
    BY DEF Viewing, Views
  <2>3. w \in AnyViews /\ w.flat = view.flat /\ w.credits = view.credits /\ w.cursor = hit + 1
    BY <1>12, <2>1, <2>2 DEF AnyViews
  <2>4. w.cursor <= Len(w.flat)
    BY <1>2, <1>12, <2>3 DEF n
  <2>5. w \in Viewing(S)
    BY <1>1, <2>2, <2>3, <2>4 DEF Viewing, Views
  <2> QED BY <2>1, <2>5
<1> QED BY <1>10, <1>11, <1>13, <1>14

(* A credential of greatest credit is among those that compete, and the    *)
(* credits stay integers.                                                  *)
LEMMA SpendTakes ==
  ASSUME NEW credits \in Credits, NEW S \in SUBSET Auths, S # {},
         \A a \in S : metas[a].weight \in Int /\ metas[a].weight > 0
  PROVE  /\ Spend(credits, S).auth \in S
         /\ Spend(credits, S).credits \in Credits /\ DOMAIN Spend(credits, S).credits.current = S
<1> DEFINE weights == WeightVector(S, metas)
           kept == credits.current # <<>> /\ credits.weights = weights
           earned == [a \in DOMAIN weights |-> weights[a] + IF kept THEN credits.current[a] ELSE 0]
           richest == {a \in DOMAIN weights : \A b \in DOMAIN weights : earned[b] <= earned[a]}
           picked == Min(richest)
           rest == [earned EXCEPT ![picked] = @ - Total(weights)]
<1>1. weights \in [S -> Nat] /\ DOMAIN weights = S
  BY DEF WeightVector
<1>2. IsFiniteSet(S) /\ S \in SUBSET Nat
  BY AuthsAreNumbers, FS_Subset
<1>3. Total(weights) \in Nat
  <2> HIDE DEF weights
  <2> QED BY <1>1, <1>2, TotalIsNumber
<1>4. PICK T \in SUBSET Auths : credits.current \in [T -> Int] /\ credits.weights \in [T -> Int]
  BY DEF Credits
<1>5. earned \in [S -> Int]
  <2> HIDE DEF weights
  <2>1. CASE kept
    <3>1. T = S
      BY <1>1, <1>4, <2>1
    <3> QED BY <1>1, <1>4, <2>1, <3>1
  <2>2. CASE ~kept
    BY <1>1, <2>2
  <2> QED BY <2>1, <2>2
<1>6. PICK a \in S : \A b \in S : earned[b] <= earned[a]
  <2> HIDE DEF earned
  <2>1. DOMAIN earned = S /\ Range(earned) \in SUBSET Int /\ Range(earned) # {}
    BY <1>5 DEF Range
  <2>2. IsFiniteSet(Range(earned))
    BY <1>2, <2>1, ImageIsFinite
  <2>3. Max(Range(earned)) \in Range(earned) /\ \A y \in Range(earned) : y <= Max(Range(earned))
    BY <2>1, <2>2, MaxIsGreatest
  <2>4. PICK a \in S : earned[a] = Max(Range(earned))
    BY <2>1, <2>3 DEF Range
  <2>5. \A b \in S : earned[b] \in Range(earned)
    BY <2>1 DEF Range
  <2> QED BY <2>3, <2>4, <2>5
<1>7. picked \in S
  <2>1. a \in richest /\ richest \in SUBSET S
    BY <1>1, <1>6
  <2> HIDE DEF richest
  <2> QED BY <1>2, <2>1, MinIsLeast
<1>8. Spend(credits, S).auth = picked
      /\ Spend(credits, S).credits = [weights |-> weights, current |-> rest]
  BY DEF Spend
<1>9. rest \in [S -> Int]
  <2> HIDE DEF earned, picked, weights
  <2> QED BY <1>3, <1>5, <1>7
<1>10. [weights |-> weights, current |-> rest] \in Credits
  <2> HIDE DEF rest, weights
  <2>1. [weights |-> weights, current |-> rest] \in [current : [S -> Int], weights : [S -> Int]]
    BY <1>1, <1>9
  <2> QED BY <2>1 DEF Credits
<1>11. DOMAIN [weights |-> weights, current |-> rest].current = S
  <2> HIDE DEF rest, weights
  <2> QED BY <1>9
<1> HIDE DEF rest, weights, picked
<1> QED BY <1>7, <1>8, <1>10, <1>11

(* Whatever the strategy, a pick takes a credential that the view lists    *)
(* and the request may use, and leaves a view of the same credentials.     *)
LEMMA PickFromTakes ==
  ASSUME NEW S \in SUBSET Auths, NEW view \in Viewing(S), NEW ok, S \cap ok # {}, NEW strat,
         strat = "weighted-round-robin" =>
           \A a \in S \cap ok : metas[a].weight \in Int /\ metas[a].weight > 0
  PROVE  PickFrom(view, ok, strat).auth \in S \cap ok /\ PickFrom(view, ok, strat).view \in Viewing(S)
<1>1. CASE strat = "fill-first"
  <2>1. PickFrom(view, ok, strat) = PickFirst(view, ok)
    BY <1>1 DEF PickFrom
  <2> QED BY <2>1, PickFirstTakes
<1>2. CASE strat = "weighted-round-robin"
  <2>1. PickFrom(view, ok, strat) = PickWeighted(view, ok)
    BY <1>2 DEF PickFrom
  <2>2. view.credits \in Credits /\ Members(view) = S
    BY DEF Viewing, Views, AnyViews, Members
  <2>3. /\ Spend(view.credits, S \cap ok).auth \in S \cap ok
        /\ Spend(view.credits, S \cap ok).credits \in Credits
        /\ DOMAIN Spend(view.credits, S \cap ok).credits.current = S \cap ok
    BY <1>2, <2>2, SpendTakes
  <2>4. /\ PickWeighted(view, ok).auth = Spend(view.credits, S \cap ok).auth
        /\ PickWeighted(view, ok).view = [view EXCEPT !.credits = Spend(view.credits, S \cap ok).credits]
    BY <2>2 DEF PickWeighted
  <2>5. [view EXCEPT !.credits = Spend(view.credits, S \cap ok).credits] \in Viewing(S)
    <3>1. PICK c : c = Spend(view.credits, S \cap ok).credits
      OBVIOUS
    <3>2. PICK w : w = [view EXCEPT !.credits = c]
      OBVIOUS
    <3>3. view \in AnyViews /\ view.cursor <= Len(view.flat) /\ Range(view.flat) = S
      BY DEF Viewing, Views
    <3>4. w \in AnyViews /\ w.flat = view.flat /\ w.credits = c /\ w.cursor = view.cursor
      BY <2>3, <3>1, <3>2, <3>3 DEF AnyViews
    <3>5. w \in Viewing(S)
      BY <2>3, <3>1, <3>3, <3>4 DEF Viewing, Views
    <3> QED BY <3>1, <3>2, <3>5
  <2> QED BY <2>1, <2>3, <2>4, <2>5
<1>3. CASE strat # "fill-first" /\ strat # "weighted-round-robin"
  <2>1. PickFrom(view, ok, strat) = PickRoundRobin(view, ok)
    BY <1>3 DEF PickFrom
  <2> QED BY <2>1, PickRoundRobinTakes
<1> QED BY <1>1, <1>2, <1>3

-----------------------------------------------------------------------------
(* Shards *)

ReadyAt(e, ms, p) == {a \in DOMAIN e : e[a].state = "ready" /\ ms[a].priority = p}
SocketsAt(e, ms, p) == {a \in ReadyAt(e, ms, p) : ms[a].websocket}
Priorities(e, ms) == {ms[a].priority : a \in {x \in DOMAIN e : e[x].state = "ready"}}

(* The views of shard s list its ready credentials, as ms has them. *)
Indexed(s, ms) ==
  /\ s \in [built : {TRUE}, entries : {s.entries}, ready : {s.ready}]
  /\ s.entries = [a \in DOMAIN s.entries |-> s.entries[a]]
  /\ s.ready = [p \in Priorities(s.entries, ms) |-> s.ready[p]]
  /\ \A p \in Priorities(s.entries, ms) :
       s.ready[p] \in Buckets(ReadyAt(s.entries, ms, p), SocketsAt(s.entries, ms, p))

(* A shard whose views are views. *)
Shelved(s) == \A p \in DOMAIN s.ready : s.ready[p] \in [all : Views, ws : Views]

(* Rebuilding the indexes of a shard makes its views list the ready        *)
(* credentials.                                                            *)
LEMMA Rebuilt ==
  ASSUME NEW shard, Shelved(shard), NEW ms, NEW e, DOMAIN e \in SUBSET Auths,
         e = [a \in DOMAIN e |-> e[a]]
  PROVE  Indexed(RebuildIndexes(shard, e, ms), ms) /\ RebuildIndexes(shard, e, ms).entries = e
<1> DEFINE ready == {a \in DOMAIN e : e[a].state = "ready"}
           At(p) == {a \in ready : ms[a].priority = p}
           Old(p) == IF p \in DOMAIN shard.ready THEN shard.ready[p] ELSE NoBucket
           Bucket(p) == [all |-> RestoreCursors(At(p), Old(p).all, ms),
                         ws |-> RestoreCursors({a \in At(p) : ms[a].websocket}, Old(p).ws, ms)]
           index == [p \in Priorities(e, ms) |-> Bucket(p)]
<1>1. RebuildIndexes(shard, e, ms) = [built |-> TRUE, entries |-> e, ready |-> index]
  BY DEF RebuildIndexes, Priorities
<1>2. \A p : At(p) = ReadyAt(e, ms, p) /\ {a \in At(p) : ms[a].websocket} = SocketsAt(e, ms, p)
  BY DEF ReadyAt, SocketsAt
<1>3. \A p : At(p) \in SUBSET Auths /\ {a \in At(p) : ms[a].websocket} \in SUBSET Auths
  OBVIOUS
<1>4. \A p : Old(p).all \in Views /\ Old(p).ws \in Views
  BY NoViewOK DEF Shelved, NoBucket, Viewing
<1>5. \A p : Bucket(p) \in Buckets(ReadyAt(e, ms, p), SocketsAt(e, ms, p))
  <2>1. TAKE p
  <2> DEFINE S == At(p)
             T == {a \in At(p) : ms[a].websocket}
             o == Old(p)
  <2>2. S \in SUBSET Auths /\ T \in SUBSET Auths /\ o.all \in Views /\ o.ws \in Views
    BY <1>3, <1>4
  <2>3. RestoreCursors(S, o.all, ms) \in Viewing(S) /\ RestoreCursors(T, o.ws, ms) \in Viewing(T)
    <3> HIDE DEF S, T, o
    <3> QED BY <2>2, RestoredViews
  <2>4. S = ReadyAt(e, ms, p) /\ T = SocketsAt(e, ms, p)
    BY <1>2
  <2>5. Bucket(p) = [all |-> RestoreCursors(S, o.all, ms), ws |-> RestoreCursors(T, o.ws, ms)]
    OBVIOUS
  <2> HIDE DEF S, T, o, Bucket
  <2> QED BY <2>3, <2>4, <2>5 DEF Buckets
<1> HIDE DEF Bucket
<1>6. \A p \in Priorities(e, ms) : index[p] = Bucket(p)
  OBVIOUS
<1>7. index = [p \in Priorities(e, ms) |-> index[p]]
  OBVIOUS
<1> HIDE DEF index
<1>8. PICK s : s = [built |-> TRUE, entries |-> e, ready |-> index]
  OBVIOUS
<1>9. s.built = TRUE /\ s.entries = e /\ s.ready = index
  BY <1>8
<1>10. Indexed(s, ms)
  BY <1>5, <1>6, <1>7, <1>8, <1>9 DEF Indexed
<1> QED BY <1>1, <1>8, <1>9, <1>10

-----------------------------------------------------------------------------
(* The inductive invariant *)

Supported(p, m, ms) == {a \in DOMAIN ms : ms[a].provider = p /\ m \in ms[a].supports}

(* An entry is overdue once the time it was filed for has come; the next   *)
(* request promotes it.                                                    *)
Overdue(entry, block) ==
  /\ block.reason \in {"cooldown", "other"} /\ block.until \in 1 .. now
  /\ entry.state \in {"cooldown", "blocked"} /\ entry.next = block.until

(* A shard of provider p for model m holds the credentials of ms that are  *)
(* its own, each as a look at it now would file it or overdue, ...         *)
Kept(s, p, m, ms) ==
  /\ Indexed(s, ms)
  /\ DOMAIN s.entries = Supported(p, m, ms)
  /\ \A a \in DOMAIN s.entries :
       s.entries[a] = Classify(ms[a], m) \/ Overdue(s.entries[a], ms[a].block[m])

(* ... or, after a promotion, each as a look at it now would file it. *)
Current(s, p, m, ms) ==
  /\ Indexed(s, ms)
  /\ DOMAIN s.entries = Supported(p, m, ms)
  /\ \A a \in DOMAIN s.entries : s.entries[a] = Classify(ms[a], m)

(* The credentials known have forms they can take and known providers. *)
Known(ms, ps) ==
  /\ ms = [a \in DOMAIN ms |-> ms[a]]
  /\ DOMAIN ms \in SUBSET Auths
  /\ \A a \in DOMAIN ms : ms[a] \in Profiles[a] /\ ms[a].provider \in ps

Shelves(sh, ms) ==
  /\ sh = [q \in Providers \X Models |-> sh[q]]
  /\ \A q \in Providers \X Models : sh[q] = NoShard \/ Kept(sh[q], q[1], q[2], ms)

(* Where the cursor of a mixed route may stand. *)
Slots == 0 .. Cardinality(Auths)

SchedInv ==
  /\ now \in 1 .. MaxTime /\ strategy \in Strategies
  /\ providers \in SUBSET Providers
  /\ Known(metas, providers)
  /\ Shelves(shards, metas)
  /\ mixedCursors \in [Models -> Slots] /\ mixedCredits \in [Models -> Credits]

(* There are so many credentials; a route starts at the first. *)
LEMMA AuthCount == Cardinality(Auths) \in Nat /\ 0 \in Slots /\ Slots \in SUBSET Nat
<1>1. Cardinality(Auths) \in Nat
  BY AuthsAreNumbers, FS_CardinalityType
<1> QED BY <1>1 DEF Slots

(* What the assumption says of the forms of a credential. *)
LEMMA ProfileFacts ==
  ASSUME NEW a \in Auths, NEW f \in Profiles[a]
  PROVE  /\ f.provider \in Providers /\ f.priority \in Int /\ f.weight \in Int
         /\ f.websocket \in BOOLEAN
         /\ \A m \in Models :
              /\ f.block[m].reason \in Reasons /\ f.block[m].until \in Nat
              /\ f.block[m].reason = "cooldown" => f.block[m].until > 0
              /\ f.block[m].reason = "disabled" => f.block[m].until = 0
<1>1. f \in ProfileType
  BY SchedulerAssumption
<1>2. f.block \in [Models -> [reason : Reasons, until : Nat]]
  BY <1>1 DEF ProfileType
<1>3. \A m \in Models : f.block[m].reason \in Reasons /\ f.block[m].until \in Nat
  BY <1>2
<1>4. \A m \in Models : /\ f.block[m].reason = "cooldown" => f.block[m].until > 0
                        /\ f.block[m].reason = "disabled" => f.block[m].until = 0
  BY SchedulerAssumption
<1>5. f.provider \in Providers /\ f.priority \in Int /\ f.weight \in Int /\ f.websocket \in BOOLEAN
  BY <1>1 DEF ProfileType
<1> QED BY <1>3, <1>4, <1>5

(* An indexed shard has views to restore from. *)
LEMMA IndexedIsShelved ==
  ASSUME NEW s, NEW ms, Indexed(s, ms)
  PROVE  Shelved(s) /\ s.built = TRUE
<1>1. s \in [built : {TRUE}, entries : {s.entries}, ready : {s.ready}]
      /\ s.ready = [p \in Priorities(s.entries, ms) |-> s.ready[p]]
      /\ \A p \in Priorities(s.entries, ms) :
           s.ready[p] \in Buckets(ReadyAt(s.entries, ms, p), SocketsAt(s.entries, ms, p))
  BY DEF Indexed
<1>2. DOMAIN s.ready = Priorities(s.entries, ms)
  BY <1>1
<1>3. s.built = TRUE
  BY <1>1
<1>4. \A S, T : Buckets(S, T) \subseteq [all : Views, ws : Views]
  BY DEF Buckets, Viewing
<1> QED BY <1>1, <1>2, <1>3, <1>4 DEF Shelved

(* A shard that was not built has none, and is not an indexed one. *)
LEMMA NoShardIsShelved == Shelved(NoShard) /\ NoShard.built = FALSE
BY DEF Shelved, NoShard

(* A request finds the shard it is about up to date: what promotion leaves *)
(* alone is not due, and what is due it files anew.                        *)
LEMMA EnsuredIsCurrent ==
  ASSUME SchedInv, NEW p \in Providers, NEW m \in Models
  PROVE  Current(EnsureModel(p, m), p, m, metas)
<1>1. PICK s : s = shards[<<p, m>>]
  OBVIOUS
<1>2. Known(metas, providers) /\ now \in Nat
  BY DEF SchedInv
<1>3. DOMAIN metas \in SUBSET Auths /\ Supported(p, m, metas) \in SUBSET DOMAIN metas
  BY <1>2 DEF Known, Supported
<1>4. s = NoShard \/ Kept(s, p, m, metas)
  <2>1. <<p, m>> \in Providers \X Models /\ <<p, m>>[1] = p /\ <<p, m>>[2] = m
    OBVIOUS
  <2>2. \A q \in Providers \X Models : shards[q] = NoShard \/ Kept(shards[q], q[1], q[2], metas)
    BY DEF SchedInv, Shelves
  <2> QED BY <1>1, <2>1, <2>2
<1>5. CASE ~s.built
  <2> DEFINE e == [a \in Supported(p, m, metas) |-> Classify(metas[a], m)]
  <2>1. EnsureModel(p, m) = RebuildIndexes(NoShard, e, metas)
    BY <1>1, <1>5 DEF EnsureModel, Supported
  <2>2. DOMAIN e = Supported(p, m, metas) /\ e = [a \in DOMAIN e |-> e[a]]
        /\ \A a \in DOMAIN e : e[a] = Classify(metas[a], m)
    OBVIOUS
  <2> HIDE DEF e
  <2>3. DOMAIN e \in SUBSET Auths
    BY <1>3, <2>2
  <2>4. Indexed(RebuildIndexes(NoShard, e, metas), metas)
        /\ RebuildIndexes(NoShard, e, metas).entries = e
    BY <2>2, <2>3, NoShardIsShelved, Rebuilt
  <2> QED BY <2>1, <2>2, <2>4 DEF Current
<1>6. CASE s.built
  <2>1. Kept(s, p, m, metas)
    BY <1>4, <1>6, NoShardIsShelved
  <2>2. Indexed(s, metas) /\ DOMAIN s.entries = Supported(p, m, metas)
        /\ \A a \in DOMAIN s.entries :
             s.entries[a] = Classify(metas[a], m) \/ Overdue(s.entries[a], metas[a].block[m])
    BY <2>1 DEF Kept
  <2> DEFINE due == {a \in DOMAIN s.entries : /\ s.entries[a].state \in {"cooldown", "blocked"}
                                              /\ s.entries[a].next \in 1 .. now}
             e == [a \in DOMAIN s.entries |-> IF a \in due THEN Classify(metas[a], m)
                                              ELSE s.entries[a]]
  <2>3. EnsureModel(p, m) = PromoteExpired(s, m)
    BY <1>1, <1>6 DEF EnsureModel
  <2>4. \A a \in DOMAIN s.entries : a \notin due => s.entries[a] = Classify(metas[a], m)
    BY <2>2 DEF Overdue
  <2>5. CASE due = {}
    <3>1. EnsureModel(p, m) = s
      BY <2>3, <2>5 DEF PromoteExpired
    <3>2. \A a \in DOMAIN s.entries : s.entries[a] = Classify(metas[a], m)
      BY <2>4, <2>5
    <3> QED BY <2>2, <3>1, <3>2 DEF Current
  <2>6. CASE due # {}
    <3>1. EnsureModel(p, m) = RebuildIndexes(s, e, metas)
      BY <2>3, <2>6 DEF PromoteExpired
    <3>2. DOMAIN e = DOMAIN s.entries /\ e = [a \in DOMAIN e |-> e[a]]
          /\ \A a \in DOMAIN e : e[a] = Classify(metas[a], m)
      BY <2>4
    <3> HIDE DEF e
    <3>3. DOMAIN e \in SUBSET Auths
      BY <1>3, <2>2, <3>2
    <3>4. Shelved(s)
      BY <2>2, IndexedIsShelved
    <3>5. Indexed(RebuildIndexes(s, e, metas), metas) /\ RebuildIndexes(s, e, metas).entries = e
      BY <3>2, <3>3, <3>4, Rebuilt
    <3> QED BY <2>2, <3>1, <3>2, <3>5 DEF Current
  <2> QED BY <2>5, <2>6
<1> QED BY <1>5, <1>6

-----------------------------------------------------------------------------
(* Filing a credential *)

(* The views are about priorities and transports only. *)
LEMMA IndexedAlike ==
  ASSUME NEW s, NEW old, NEW ms, Indexed(s, old),
         \A x \in DOMAIN s.entries : ms[x].priority = old[x].priority
                                     /\ ms[x].websocket = old[x].websocket
  PROVE  Indexed(s, ms)
<1>1. Priorities(s.entries, ms) = Priorities(s.entries, old)
  BY DEF Priorities
<1>2. \A p : ReadyAt(s.entries, ms, p) = ReadyAt(s.entries, old, p)
  BY DEF ReadyAt
<1>3. \A p : SocketsAt(s.entries, ms, p) = SocketsAt(s.entries, old, p)
  BY <1>2 DEF SocketsAt, ReadyAt
<1> QED BY <1>1, <1>2, <1>3 DEF Indexed

(* ms is what is known after credential a alone was changed. *)
Changed(a, ms) ==
  /\ DOMAIN ms \ {a} = DOMAIN metas \ {a}
  /\ \A x \in DOMAIN metas \ {a} : ms[x] = metas[x]

(* A shard that credential a now belongs to is as ms says after            *)
(* upsertEntryLocked, also when it leaves the indexes alone.               *)
LEMMA UpsertKeeps ==
  ASSUME NEW s, NEW p, NEW m, Kept(s, p, m, metas), NEW a, NEW ms, Changed(a, ms),
         DOMAIN metas \in SUBSET Auths, DOMAIN ms \in SUBSET Auths, a \in Supported(p, m, ms),
         NEW before, a \in DOMAIN metas => before = metas[a]
  PROVE  Kept(UpsertEntry(s, a, m, before, ms), p, m, ms)
<1> DEFINE entry == Classify(ms[a], m)
           e == [x \in DOMAIN s.entries \cup {a} |-> IF x = a THEN entry ELSE s.entries[x]]
<1>1. Indexed(s, metas) /\ DOMAIN s.entries = Supported(p, m, metas)
      /\ \A x \in DOMAIN s.entries :
           s.entries[x] = Classify(metas[x], m) \/ Overdue(s.entries[x], metas[x].block[m])
  BY DEF Kept
<1>2. Supported(p, m, ms) = DOMAIN s.entries \cup {a}
  BY <1>1 DEF Supported, Changed
<1>3. \A x \in DOMAIN s.entries \ {a} : x \in DOMAIN metas /\ ms[x] = metas[x]
  BY <1>1 DEF Supported, Changed
<1>4. CASE a \in DOMAIN s.entries /\ s.entries[a] = entry
           /\ before.priority = ms[a].priority /\ before.websocket = ms[a].websocket
  <2>1. UpsertEntry(s, a, m, before, ms) = s
    BY <1>4 DEF UpsertEntry
  <2>2. before = metas[a]
    BY <1>1, <1>4 DEF Supported
  <2>3. \A x \in DOMAIN s.entries : ms[x].priority = metas[x].priority
                                    /\ ms[x].websocket = metas[x].websocket
    BY <1>3, <1>4, <2>2
  <2>4. Indexed(s, ms)
    BY <1>1, <2>3, IndexedAlike
  <2>5. \A x \in DOMAIN s.entries :
          s.entries[x] = Classify(ms[x], m) \/ Overdue(s.entries[x], ms[x].block[m])
    BY <1>1, <1>3, <1>4
  <2>6. DOMAIN s.entries = Supported(p, m, ms)
    BY <1>2, <1>4
  <2> QED BY <2>1, <2>4, <2>5, <2>6 DEF Kept
<1>5. CASE ~(a \in DOMAIN s.entries /\ s.entries[a] = entry
             /\ before.priority = ms[a].priority /\ before.websocket = ms[a].websocket)
  <2>1. UpsertEntry(s, a, m, before, ms) = RebuildIndexes(s, e, ms)
    BY <1>5 DEF UpsertEntry
  <2>2. DOMAIN e = Supported(p, m, ms) /\ e = [x \in DOMAIN e |-> e[x]]
    BY <1>2
  <2>3. \A x \in DOMAIN e : e[x] = Classify(ms[x], m) \/ Overdue(e[x], ms[x].block[m])
    <3>1. e[a] = Classify(ms[a], m)
      OBVIOUS
    <3>2. \A x \in DOMAIN s.entries \ {a} : e[x] = s.entries[x]
      OBVIOUS
    <3>3. DOMAIN e = DOMAIN s.entries \cup {a}
      OBVIOUS
    <3> HIDE DEF e
    <3> QED BY <1>1, <1>3, <3>1, <3>2, <3>3
  <2> HIDE DEF e
  <2>4. DOMAIN e \in SUBSET Auths
    BY <2>2 DEF Supported
  <2>5. Shelved(s)
    BY <1>1, IndexedIsShelved
  <2>6. Indexed(RebuildIndexes(s, e, ms), ms) /\ RebuildIndexes(s, e, ms).entries = e
    BY <2>2, <2>4, <2>5, Rebuilt
  <2> QED BY <2>1, <2>2, <2>3, <2>6 DEF Kept
<1> QED BY <1>4, <1>5

(* A shard that credential a does not belong to now is as ms says after    *)
(* removeEntryLocked.                                                      *)
LEMMA RemoveKeeps ==
  ASSUME NEW s, NEW p, NEW m, Kept(s, p, m, metas), NEW a, NEW ms, Changed(a, ms),
         DOMAIN metas \in SUBSET Auths, a \notin Supported(p, m, ms)
  PROVE  Kept(RemoveEntry(s, a, ms), p, m, ms)
<1>1. Indexed(s, metas) /\ DOMAIN s.entries = Supported(p, m, metas)
      /\ \A x \in DOMAIN s.entries :
           s.entries[x] = Classify(metas[x], m) \/ Overdue(s.entries[x], metas[x].block[m])
  BY DEF Kept
<1>2. Supported(p, m, ms) = DOMAIN s.entries \ {a}
  BY <1>1 DEF Supported, Changed
<1>3. \A x \in DOMAIN s.entries \ {a} : x \in DOMAIN metas /\ ms[x] = metas[x]
  BY <1>1 DEF Supported, Changed
<1>4. CASE a \notin DOMAIN s.entries
  <2>1. RemoveEntry(s, a, ms) = s
    BY <1>4 DEF RemoveEntry
  <2>2. \A x \in DOMAIN s.entries : ms[x] = metas[x]
    BY <1>3, <1>4
  <2>3. Indexed(s, ms)
    BY <1>1, <2>2, IndexedAlike
  <2> QED BY <1>1, <1>2, <1>4, <2>1, <2>2, <2>3 DEF Kept
<1>5. CASE a \in DOMAIN s.entries
  <2> DEFINE e == Restrict(s.entries, DOMAIN s.entries \ {a})
  <2>1. RemoveEntry(s, a, ms) = RebuildIndexes(s, e, ms)
    BY <1>5 DEF RemoveEntry
  <2>2. DOMAIN e = Supported(p, m, ms) /\ e = [x \in DOMAIN e |-> e[x]]
        /\ \A x \in DOMAIN e : e[x] = s.entries[x] /\ x \in DOMAIN s.entries \ {a}
    BY <1>2 DEF Restrict
  <2> HIDE DEF e
  <2>3. \A x \in DOMAIN e : e[x] = Classify(ms[x], m) \/ Overdue(e[x], ms[x].block[m])
    BY <1>1, <1>3, <2>2
  <2>4. DOMAIN e \in SUBSET Auths
    BY <1>1, <1>2, <2>2 DEF Supported
  <2>5. Shelved(s)
    BY <1>1, IndexedIsShelved
  <2>6. Indexed(RebuildIndexes(s, e, ms), ms) /\ RebuildIndexes(s, e, ms).entries = e
    BY <2>2, <2>4, <2>5, Rebuilt
  <2> QED BY <2>1, <2>2, <2>3, <2>6 DEF Kept
<1> QED BY <1>4, <1>5

(* Filing a credential leaves every shard as ms says. *)
LEMMA FiledKeeps ==
  ASSUME SchedInv, NEW a \in Auths, NEW ms, NEW ps, Known(ms, ps), Changed(a, ms)
  PROVE  Shelves(Filed(a, ms), ms)
<1>1. shards = [q \in Providers \X Models |-> shards[q]]
      /\ \A q \in Providers \X Models : shards[q] = NoShard \/ Kept(shards[q], q[1], q[2], metas)
  BY DEF SchedInv, Shelves
<1>2. DOMAIN shards = Providers \X Models
  BY <1>1
<1>3. DOMAIN metas \in SUBSET Auths /\ DOMAIN ms \in SUBSET Auths
  BY DEF SchedInv, Known
<1>4. Filed(a, ms) = [q \in Providers \X Models |-> Filed(a, ms)[q]]
  BY <1>2 DEF Filed
<1>5. ASSUME NEW q \in Providers \X Models
      PROVE  Filed(a, ms)[q] = NoShard \/ Kept(Filed(a, ms)[q], q[1], q[2], ms)
  <2> DEFINE before == IF a \in DOMAIN metas THEN metas[a] ELSE ms[a]
  <2>1. CASE ~shards[q].built
    <3>1. shards[q] = NoShard
      BY <1>1, <2>1, IndexedIsShelved DEF Kept
    <3>2. Filed(a, ms)[q] = shards[q]
      BY <1>2, <2>1 DEF Filed
    <3> QED BY <3>1, <3>2
  <2>2. CASE shards[q].built /\ a \in Supported(q[1], q[2], ms)
    <3>1. Kept(shards[q], q[1], q[2], metas)
      BY <1>1, <2>2, NoShardIsShelved
    <3>2. Filed(a, ms)[q] = UpsertEntry(shards[q], a, q[2], before, ms)
      BY <1>2, <2>2 DEF Filed, Supported
    <3>3. a \in DOMAIN metas => before = metas[a]
      OBVIOUS
    <3> HIDE DEF before
    <3>4. Kept(UpsertEntry(shards[q], a, q[2], before, ms), q[1], q[2], ms)
      BY <1>3, <2>2, <3>1, <3>3, UpsertKeeps
    <3> QED BY <3>2, <3>4
  <2>3. CASE shards[q].built /\ a \notin Supported(q[1], q[2], ms)
    <3>1. Kept(shards[q], q[1], q[2], metas)
      BY <1>1, <2>3, NoShardIsShelved
    <3>2. Filed(a, ms)[q] = RemoveEntry(shards[q], a, ms)
      BY <1>2, <2>3 DEF Filed, Supported
    <3>3. Kept(RemoveEntry(shards[q], a, ms), q[1], q[2], ms)
      BY <1>3, <2>3, <3>1, RemoveKeeps
    <3> QED BY <3>2, <3>3
  <2> QED BY <2>1, <2>2, <2>3
<1> QED BY <1>4, <1>5 DEF Shelves

-----------------------------------------------------------------------------
(* What a pick has to answer *)

Top(S) == {a \in S : \A b \in S : metas[b].priority <= metas[a].priority}

(* The free credentials of U, or those with a websocket if they are        *)
(* preferred and there are any.                                            *)
Preferred(U, m, preferWebsocket) ==
  LET free == {a \in U : Free(a, m)}
      sockets == {a \in free : metas[a].websocket}
  IN  IF preferWebsocket /\ sockets # {} THEN sockets ELSE free

(* A refusal says what the credentials of U are. *)
Truthful(refusal, U, m) ==
  /\ refusal.error = "auth_not_found" <=> U = {}
  /\ refusal.error = "model_cooldown" <=> U # {} /\ \A a \in U : Cooling(a, m)
  /\ refusal.error = "model_cooldown" => refusal.until = Min({metas[a].block[m].until : a \in U})

(* The outcome o is the right one for the credentials of U. *)
Answers(o, U, m, preferWebsocket) ==
  IF Top(Preferred(U, m, preferWebsocket)) # {} THEN o.auth \in Top(Preferred(U, m, preferWebsocket))
  ELSE o.auth = NoAuth /\ Truthful(o, U, m)

(* The outcome o leaves the indexes in order. *)
Orderly(o) ==
  /\ Shelves(o.shards, metas)
  /\ o.cursors \in [Models -> Slots] /\ o.credits \in [Models -> Credits]

(* Of some credentials that are known, some have the highest priority. *)
LEMMA TopOfSome ==
  ASSUME SchedInv, NEW S \in SUBSET DOMAIN metas, S # {}
  PROVE  Top(S) # {}
<1> DEFINE f == [a \in S |-> metas[a].priority]
<1>1. DOMAIN metas \in SUBSET Auths /\ \A a \in DOMAIN metas : metas[a] \in Profiles[a]
  BY DEF SchedInv, Known
<1>2. \A a \in S : metas[a].priority \in Int
  BY <1>1, ProfileFacts
<1>3. IsFiniteSet(S)
  <2>1. S \in SUBSET Auths
    BY <1>1
  <2> QED BY <2>1, AuthsAreNumbers, FS_Subset
<1>4. DOMAIN f = S /\ Range(f) \in SUBSET Int /\ Range(f) # {}
      /\ \A a \in S : f[a] = metas[a].priority
  BY <1>2 DEF Range
<1> HIDE DEF f
<1>5. IsFiniteSet(Range(f))
  BY <1>3, <1>4, ImageIsFinite
<1>6. Max(Range(f)) \in Range(f) /\ \A y \in Range(f) : y <= Max(Range(f))
  BY <1>4, <1>5, MaxIsGreatest
<1>7. PICK a \in S : f[a] = Max(Range(f))
  BY <1>4, <1>6 DEF Range
<1>8. \A b \in S : f[b] \in Range(f)
  BY <1>4 DEF Range
<1> QED BY <1>4, <1>6, <1>7, <1>8 DEF Top

(* How a credential is filed agrees with whether it is free or cooling. *)
LEMMA ClassifyIsRight ==
  ASSUME SchedInv, NEW a \in DOMAIN metas, NEW m \in Models
  PROVE  /\ Classify(metas[a], m).state = "ready" <=> Free(a, m)
         /\ Classify(metas[a], m).state = "cooldown" <=> Cooling(a, m)
         /\ Cooling(a, m) => Classify(metas[a], m).next = metas[a].block[m].until
         /\ Classify(metas[a], m).next \in Nat
         /\ metas[a].block[m].until \in Nat
<1>1. a \in Auths /\ metas[a] \in Profiles[a] /\ now \in Nat
  BY DEF SchedInv, Known
<1>2. PICK b : b = metas[a].block[m]
  OBVIOUS
<1>3. /\ b.reason \in Reasons /\ b.until \in Nat
      /\ b.reason = "cooldown" => b.until > 0
      /\ b.reason = "disabled" => b.until = 0
  BY <1>1, <1>2, ProfileFacts
<1>4. CASE b.reason = "disabled"
  <2>1. Classify(metas[a], m) = [state |-> "disabled", next |-> 0]
    BY <1>1, <1>2, <1>3, <1>4 DEF Classify
  <2> QED BY <1>2, <1>3, <1>4, <2>1 DEF Free, Cooling
<1>5. CASE b.reason # "disabled" /\ (b.reason = "none" \/ b.until \in 1 .. now)
  <2>1. Classify(metas[a], m) = [state |-> "ready", next |-> 0]
    BY <1>1, <1>2, <1>3, <1>5 DEF Classify
  <2>2. Free(a, m) /\ ~Cooling(a, m)
    BY <1>1, <1>2, <1>3, <1>5 DEF Free, Cooling
  <2> QED BY <1>2, <1>3, <2>1, <2>2
<1>6. CASE b.reason = "cooldown" /\ b.until > now
  <2>1. Classify(metas[a], m) = [state |-> "cooldown", next |-> b.until]
    BY <1>1, <1>2, <1>3, <1>6 DEF Classify
  <2>2. ~Free(a, m) /\ Cooling(a, m)
    BY <1>1, <1>2, <1>3, <1>6 DEF Free, Cooling
  <2> QED BY <1>2, <1>3, <2>1, <2>2
<1>7. CASE b.reason = "other" /\ b.until \notin 1 .. now
  <2>1. Classify(metas[a], m) = [state |-> "blocked", next |-> b.until]
    BY <1>1, <1>2, <1>3, <1>7 DEF Classify
  <2>2. ~Free(a, m) /\ ~Cooling(a, m)
    BY <1>1, <1>2, <1>3, <1>7 DEF Free, Cooling
  <2> QED BY <1>2, <1>3, <2>1, <2>2
<1>8. b.reason = "cooldown" => b.until \in 1 .. now \/ b.until > now
  BY <1>1, <1>3
<1> QED BY <1>3, <1>4, <1>5, <1>6, <1>7, <1>8 DEF Reasons

(* A refusal made from the entries of U says what the credentials are. *)
LEMMA RefusalIsTruthful ==
  ASSUME SchedInv, NEW m \in Models, NEW U \in SUBSET DOMAIN metas
  PROVE  Truthful(Refusal({Classify(metas[a], m) : a \in U}), U, m)
<1> DEFINE E == {Classify(metas[a], m) : a \in U}
           cooling == {e \in E : e.state = "cooldown"}
           times == {metas[a].block[m].until : a \in U}
<1>1. E = {} <=> U = {}
  OBVIOUS
<1>2. \A a \in U : /\ Classify(metas[a], m).state = "cooldown" <=> Cooling(a, m)
                   /\ Cooling(a, m) => Classify(metas[a], m).next = metas[a].block[m].until
  BY ClassifyIsRight
<1>3. cooling = E <=> \A a \in U : Cooling(a, m)
  BY <1>2
<1>4. CASE E = {}
  <2>1. Refusal(E) = [error |-> "auth_not_found", until |-> 0]
    BY <1>4 DEF Refusal
  <2> QED BY <1>1, <1>4, <2>1 DEF Truthful
<1>5. CASE E # {} /\ cooling = E
  <2>1. Refusal(E) = [error |-> "model_cooldown", until |-> Min({e.next : e \in cooling})]
    BY <1>5 DEF Refusal
  <2>2. {e.next : e \in cooling} = times
    <3>1. {e.next : e \in cooling} = {e.next : e \in E}
      BY <1>5
    <3>2. {e.next : e \in E} = {Classify(metas[a], m).next : a \in U}
      OBVIOUS
    <3>3. \A a \in U : Classify(metas[a], m).next = metas[a].block[m].until
      BY <1>2, <1>3, <1>5
    <3> QED BY <3>1, <3>2, <3>3
  <2>3. Refusal(E) = [error |-> "model_cooldown", until |-> Min(times)]
    BY <2>1, <2>2
  <2>4. Refusal(E).until = Min(times) /\ Refusal(E).error = "model_cooldown"
    <3> HIDE DEF E, times
    <3> QED BY <2>3
  <2> QED BY <1>1, <1>3, <1>5, <2>4 DEF Truthful
<1>6. CASE E # {} /\ cooling # E
  <2>1. Refusal(E) = [error |-> "auth_unavailable", until |-> 0]
    BY <1>6 DEF Refusal
  <2> QED BY <1>1, <1>3, <1>6, <2>1 DEF Truthful
<1> QED BY <1>4, <1>5, <1>6

-----------------------------------------------------------------------------
(* Picking from a shard *)

Kinds == {"all", "ws"}

(* The credentials of a shard that a request may use and that are ready, *)
(* those with a websocket if kind says so.                               *)
Offer(s, kind, ok) ==
  {a \in DOMAIN s.entries \cap ok : s.entries[a].state = "ready" /\ (kind = "ws" => metas[a].websocket)}

OfferAt(s, kind, tier) ==
  {a \in ReadyAt(s.entries, metas, tier) : kind = "ws" => metas[a].websocket}

(* The views of an indexed shard by kind. *)
LEMMA ViewOfTier ==
  ASSUME NEW s, Indexed(s, metas), NEW kind \in Kinds
  PROVE  /\ DOMAIN s.ready = Priorities(s.entries, metas)
         /\ \A tier \in DOMAIN s.ready : s.ready[tier][kind] \in Viewing(OfferAt(s, kind, tier))
<1>1. DOMAIN s.ready = Priorities(s.entries, metas)
  BY DEF Indexed
<1>2. ASSUME NEW tier \in DOMAIN s.ready
      PROVE  s.ready[tier][kind] \in Viewing(OfferAt(s, kind, tier))
  <2>1. s.ready[tier] \in Buckets(ReadyAt(s.entries, metas, tier), SocketsAt(s.entries, metas, tier))
    BY <1>1 DEF Indexed
  <2>2. s.ready[tier].all \in Viewing(ReadyAt(s.entries, metas, tier))
        /\ s.ready[tier].ws \in Viewing(SocketsAt(s.entries, metas, tier))
    BY <2>1 DEF Buckets
  <2>3. CASE kind = "all"
    <3>1. OfferAt(s, kind, tier) = ReadyAt(s.entries, metas, tier)
      BY <2>3 DEF OfferAt
    <3>2. s.ready[tier][kind] = s.ready[tier].all
      BY <2>3
    <3> QED BY <2>2, <3>1, <3>2
  <2>4. CASE kind = "ws"
    <3>1. OfferAt(s, kind, tier) = SocketsAt(s.entries, metas, tier)
      BY <2>4 DEF OfferAt, SocketsAt
    <3>2. s.ready[tier][kind] = s.ready[tier].ws
      BY <2>4
    <3> QED BY <2>2, <3>1, <3>2
  <2> QED BY <2>3, <2>4 DEF Kinds
<1> QED BY <1>1, <1>2

(* highestReadyPriorityLocked looks at the priorities of what is offered. *)
LEMMA TiersOfOffer ==
  ASSUME NEW s, Indexed(s, metas), NEW kind \in Kinds, NEW ok
  PROVE  /\ Tiers(s, kind, ok) = {metas[a].priority : a \in Offer(s, kind, ok)}
         /\ \A tier \in Tiers(s, kind, ok) :
              /\ tier \in DOMAIN s.ready
              /\ Members(s.ready[tier][kind]) \cap ok
                   = {a \in Offer(s, kind, ok) : metas[a].priority = tier}
<1>1. \A tier \in DOMAIN s.ready : Members(s.ready[tier][kind]) = OfferAt(s, kind, tier)
  BY ViewOfTier DEF Viewing, Members
<1>2. DOMAIN s.ready = Priorities(s.entries, metas)
  BY ViewOfTier
<1>3. \A tier : OfferAt(s, kind, tier) \cap ok
                  = {a \in Offer(s, kind, ok) : metas[a].priority = tier}
  BY DEF OfferAt, ReadyAt, Offer
<1>4. \A a \in Offer(s, kind, ok) : metas[a].priority \in Priorities(s.entries, metas)
  BY DEF Offer, Priorities
<1>5. Tiers(s, kind, ok) = {p \in DOMAIN s.ready : OfferAt(s, kind, p) \cap ok # {}}
  BY <1>1 DEF Tiers
<1>6. Tiers(s, kind, ok) = {metas[a].priority : a \in Offer(s, kind, ok)}
  BY <1>2, <1>3, <1>4, <1>5
<1>7. \A tier \in Tiers(s, kind, ok) : tier \in DOMAIN s.ready
  BY <1>5
<1> QED BY <1>1, <1>3, <1>6, <1>7

(* A shard stays indexed when a pick turns one of its views. *)
LEMMA TurnedIsIndexed ==
  ASSUME NEW s, Indexed(s, metas), NEW kind \in Kinds, NEW tier \in DOMAIN s.ready,
         NEW v \in Viewing(OfferAt(s, kind, tier))
  PROVE  /\ Indexed([s EXCEPT !.ready[tier][kind] = v], metas)
         /\ [s EXCEPT !.ready[tier][kind] = v].entries = s.entries
<1> DEFINE t == [s EXCEPT !.ready[tier][kind] = v]
           e == s.entries
           bucket == [s.ready[tier] EXCEPT ![kind] = v]
           ready == [s.ready EXCEPT ![tier] = bucket]
<1>1. s \in [built : {TRUE}, entries : {e}, ready : {s.ready}]
      /\ e = [a \in DOMAIN e |-> e[a]]
      /\ s.ready = [p \in Priorities(e, metas) |-> s.ready[p]]
      /\ \A p \in Priorities(e, metas) :
           s.ready[p] \in Buckets(ReadyAt(e, metas, p), SocketsAt(e, metas, p))
  BY DEF Indexed
<1>2. t \in [built : {TRUE}, entries : {e}, ready : {ready}]
  <2>1. t = [s EXCEPT !.ready = ready]
    OBVIOUS
  <2> HIDE DEF t, ready, e
  <2> QED BY <1>1, <2>1
<1>3. DOMAIN s.ready = Priorities(e, metas)
  BY <1>1
<1>4. bucket \in Buckets(ReadyAt(e, metas, tier), SocketsAt(e, metas, tier))
  <2>1. s.ready[tier] \in Buckets(ReadyAt(e, metas, tier), SocketsAt(e, metas, tier))
    BY <1>1, <1>3
  <2>2. CASE kind = "all"
    <3>1. v \in Viewing(ReadyAt(e, metas, tier))
      BY <2>2 DEF OfferAt
    <3> QED BY <2>1, <2>2, <3>1 DEF Buckets
  <2>3. CASE kind = "ws"
    <3>1. OfferAt(s, kind, tier) = SocketsAt(e, metas, tier)
      BY <2>3 DEF OfferAt, SocketsAt
    <3>2. v \in Viewing(SocketsAt(e, metas, tier))
      BY <3>1
    <3> QED BY <2>1, <2>3, <3>2 DEF Buckets
  <2> QED BY <2>2, <2>3 DEF Kinds
<1> HIDE DEF bucket
<1>5. ready = [p \in Priorities(e, metas) |-> ready[p]]
      /\ \A p \in Priorities(e, metas) :
           ready[p] \in Buckets(ReadyAt(e, metas, p), SocketsAt(e, metas, p))
  <2>1. DOMAIN ready = Priorities(e, metas) /\ ready[tier] = bucket
        /\ \A p \in Priorities(e, metas) \ {tier} : ready[p] = s.ready[p]
    BY <1>3
  <2>2. ready = [p \in DOMAIN ready |-> ready[p]]
    BY <1>1
  <2> HIDE DEF ready
  <2> QED BY <1>1, <1>4, <2>1, <2>2
<1> HIDE DEF t, ready, e
<1>6. t.built = TRUE /\ t.entries = e /\ t.ready = ready
  BY <1>2
<1>7. Indexed(t, metas)
  BY <1>1, <1>2, <1>5, <1>6 DEF Indexed
<1> QED BY <1>6, <1>7 DEF t, e

(* Putting an up-to-date shard in its place leaves the shards in order. *)
LEMMA CurrentInPlace ==
  ASSUME SchedInv, NEW p \in Providers, NEW m \in Models, NEW s, Current(s, p, m, metas)
  PROVE  Shelves([shards EXCEPT ![<<p, m>>] = s], metas)
<1> DEFINE k == <<p, m>>
           sh == [shards EXCEPT ![k] = s]
<1>1. shards = [q \in Providers \X Models |-> shards[q]]
      /\ \A q \in Providers \X Models : shards[q] = NoShard \/ Kept(shards[q], q[1], q[2], metas)
  BY DEF SchedInv, Shelves
<1>2. k \in Providers \X Models /\ k[1] = p /\ k[2] = m
  OBVIOUS
<1>3. Kept(s, k[1], k[2], metas)
  BY <1>2 DEF Current, Kept
<1> HIDE DEF k
<1>4. sh = [q \in Providers \X Models |-> sh[q]]
  BY <1>1
<1>5. sh[k] = s /\ \A q \in Providers \X Models : q # k => sh[q] = shards[q]
  BY <1>1, <1>2
<1> HIDE DEF sh
<1>6. Shelves(sh, metas)
  BY <1>1, <1>3, <1>4, <1>5 DEF Shelves
<1> QED BY <1>6 DEF sh, k

(* Under weighted picks, a request matches credentials of positive weight  *)
(* only.                                                                   *)
Weighty(ok) ==
  strategy = "weighted-round-robin" => \A a \in ok \cap DOMAIN metas : metas[a].weight > 0

(* pickReadyLocked takes one of the best of what is offered, or refuses;   *)
(* either way the shards stay in order.                                    *)
LEMMA PickReadyAnswers ==
  ASSUME SchedInv, NEW p \in Providers, NEW m \in Models, NEW s, Current(s, p, m, metas),
         NEW ok, Weighty(ok), NEW kind \in Kinds
  PROVE  /\ Offer(s, kind, ok) # {} => PickReady(p, m, ok, s, kind).auth \in Top(Offer(s, kind, ok))
         /\ Offer(s, kind, ok) = {} =>
              /\ PickReady(p, m, ok, s, kind).auth = NoAuth
              /\ PickReady(p, m, ok, s, kind).error = Refusal(Entries(s, ok)).error
              /\ PickReady(p, m, ok, s, kind).until = Refusal(Entries(s, ok)).until
         /\ Orderly(PickReady(p, m, ok, s, kind))
<1> DEFINE offer == Offer(s, kind, ok)
           tiers == Tiers(s, kind, ok)
           tier == Max(tiers)
           o == PickReady(p, m, ok, s, kind)
<1>1. Indexed(s, metas) /\ DOMAIN s.entries = Supported(p, m, metas)
  BY DEF Current
<1>2. /\ tiers = {metas[a].priority : a \in offer}
      /\ \A t \in tiers : /\ t \in DOMAIN s.ready
                          /\ Members(s.ready[t][kind]) \cap ok = {a \in offer : metas[a].priority = t}
  BY <1>1, TiersOfOffer
<1>3. offer \in SUBSET DOMAIN metas /\ offer \subseteq ok
  BY <1>1 DEF Offer, Supported
<1>4. DOMAIN metas \in SUBSET Auths /\ \A a \in DOMAIN metas : metas[a] \in Profiles[a]
  BY DEF SchedInv, Known
<1>5. \A a \in DOMAIN metas : metas[a].priority \in Int /\ metas[a].weight \in Int
  BY <1>4, ProfileFacts
<1>6. mixedCursors \in [Models -> Slots] /\ mixedCredits \in [Models -> Credits]
  BY DEF SchedInv
<1>7. CASE offer = {}
  <2>1. tiers = {}
    BY <1>2, <1>7
  <2>2. o = Refused(Refusal(Entries(s, ok)), [shards EXCEPT ![<<p, m>>] = s])
    BY <2>1 DEF PickReady
  <2>3. /\ o.auth = NoAuth /\ o.error = Refusal(Entries(s, ok)).error
        /\ o.until = Refusal(Entries(s, ok)).until
        /\ o.shards = [shards EXCEPT ![<<p, m>>] = s]
        /\ o.cursors = mixedCursors /\ o.credits = mixedCredits
    BY <2>2 DEF Refused, Outcome
  <2>4. Orderly(o)
    BY <1>6, <2>3, CurrentInPlace DEF Orderly
  <2> QED BY <1>7, <2>3, <2>4
<1>8. CASE offer # {}
  <2>1. Top(offer) # {}
    BY <1>3, <1>8, TopOfSome
  <2>2. PICK best \in offer : \A b \in offer : metas[b].priority <= metas[best].priority
    BY <2>1 DEF Top
  <2>3. tier = metas[best].priority
    <3>1. metas[best].priority \in tiers /\ \A t \in tiers : t <= metas[best].priority
      BY <1>2, <2>2
    <3>2. \A t \in tiers : t \in Int
      BY <1>2, <1>3, <1>5
    <3> HIDE DEF tiers
    <3>3. PICK x \in tiers : \A t \in tiers : t <= x /\ (x <= t => t = x)
      BY <3>1, <3>2
    <3>4. Max(tiers) \in tiers /\ \A t \in tiers : Max(tiers) >= t
      <4>1. \E y \in tiers : \A t \in tiers : y >= t
        BY <3>1, <3>2
      <4> QED BY <4>1, Zenon DEF Max
    <3> QED BY <3>1, <3>2, <3>4
  <2>4. tier \in tiers
    BY <1>2, <2>2, <2>3
  <2> DEFINE S == OfferAt(s, kind, tier)
             view == s.ready[tier][kind]
             got == PickFrom(view, ok, strategy)
  <2>5. tier \in DOMAIN s.ready /\ Members(view) \cap ok = {a \in offer : metas[a].priority = tier}
    BY <1>2, <2>4
  <2>6. view \in Viewing(S)
    BY <1>1, <2>5, ViewOfTier
  <2>7. Members(view) = S
    BY <2>6 DEF Viewing, Members
  <2>8. S \in SUBSET Auths
    BY <1>1, <1>4 DEF OfferAt, ReadyAt, Supported
  <2>9. S \cap ok = {a \in offer : metas[a].priority = tier}
    BY <2>5, <2>7
  <2>10. S \cap ok # {}
    BY <2>2, <2>3, <2>9
  <2>11. S \cap ok \subseteq Top(offer)
    BY <2>2, <2>3, <2>9 DEF Top
  <2>12. strategy = "weighted-round-robin" =>
           \A a \in S \cap ok : metas[a].weight \in Int /\ metas[a].weight > 0
    BY <1>3, <1>5, <2>9 DEF Weighty
  <2> HIDE DEF S, view, offer, tiers, tier
  <2>13. got.auth \in S \cap ok /\ got.view \in Viewing(S)
    BY <2>6, <2>8, <2>10, <2>12, PickFromTakes
  <2>14. o = PickTier(p, m, ok, s, kind, tier)
    <3>1. tiers # {}
      BY <2>4
    <3> QED BY <3>1 DEF PickReady, tiers, tier
  <2> DEFINE new == [s EXCEPT !.ready[tier][kind] = got.view]
  <2>15. o.auth = got.auth /\ o.shards = [shards EXCEPT ![<<p, m>>] = new]
         /\ o.cursors = mixedCursors /\ o.credits = mixedCredits
    BY <2>14 DEF PickTier, Picked, Outcome, view
  <2> HIDE DEF o, got
  <2>16. Indexed(new, metas) /\ new.entries = s.entries
    BY <1>1, <2>5, <2>13, TurnedIsIndexed DEF S
  <2>17. Current(new, p, m, metas)
    <3> HIDE DEF new
    <3> QED BY <2>16 DEF Current
  <2>18. Shelves([shards EXCEPT ![<<p, m>>] = new], metas)
    <3> HIDE DEF new
    <3> QED BY <2>17, CurrentInPlace
  <2>19. Orderly(o)
    BY <1>6, <2>15, <2>18 DEF Orderly
  <2> QED BY <1>8, <2>11, <2>13, <2>15, <2>19 DEF offer, o
<1> QED BY <1>7, <1>8

(* A request to one provider is answered as the credentials say. *)
LEMMA PickShardAnswers ==
  ASSUME SchedInv, NEW p \in Providers, NEW m \in Models, NEW ok, Weighty(ok),
         NEW preferWebsocket \in BOOLEAN
  PROVE  /\ Answers(PickShard(p, m, ok, preferWebsocket), Supported(p, m, metas) \cap ok, m,
                    preferWebsocket)
         /\ Orderly(PickShard(p, m, ok, preferWebsocket))
<1> DEFINE U == Supported(p, m, metas) \cap ok
<1>1. PICK s : s = EnsureModel(p, m)
  OBVIOUS
<1> DEFINE kind == PreferredKind(s, ok, preferWebsocket)
<1>2. Current(s, p, m, metas)
  BY <1>1, EnsuredIsCurrent
<1>3. Indexed(s, metas) /\ DOMAIN s.entries = Supported(p, m, metas)
      /\ \A a \in DOMAIN s.entries : s.entries[a] = Classify(metas[a], m)
  BY <1>2 DEF Current
<1>4. U \in SUBSET DOMAIN metas
  BY DEF Supported
<1>5. Offer(s, "all", ok) = {a \in U : Free(a, m)}
  BY <1>3, <1>4, ClassifyIsRight DEF Offer
<1>6. Offer(s, "ws", ok) = {a \in U : Free(a, m) /\ metas[a].websocket}
  BY <1>3, <1>4, ClassifyIsRight DEF Offer
<1>7. kind \in Kinds /\ Offer(s, kind, ok) = Preferred(U, m, preferWebsocket)
  <2>1. Tiers(s, "ws", ok) = {metas[a].priority : a \in Offer(s, "ws", ok)}
    BY <1>3, TiersOfOffer DEF Kinds
  <2>2. Tiers(s, "ws", ok) # {} <=> Offer(s, "ws", ok) # {}
    BY <2>1
  <2>3. CASE preferWebsocket /\ Offer(s, "ws", ok) # {}
    <3>1. kind = "ws"
      BY <2>2, <2>3 DEF PreferredKind
    <3>2. Preferred(U, m, preferWebsocket) = {a \in {x \in U : Free(x, m)} : metas[a].websocket}
      BY <1>6, <2>3 DEF Preferred
    <3> QED BY <1>6, <3>1, <3>2 DEF Kinds
  <2>4. CASE ~(preferWebsocket /\ Offer(s, "ws", ok) # {})
    <3>1. kind = "all"
      BY <2>2, <2>4 DEF PreferredKind
    <3>2. Preferred(U, m, preferWebsocket) = {a \in U : Free(a, m)}
      BY <1>6, <2>4 DEF Preferred
    <3> QED BY <1>5, <3>1, <3>2 DEF Kinds
  <2> QED BY <2>3, <2>4
<1>8. PickShard(p, m, ok, preferWebsocket) = PickReady(p, m, ok, s, kind)
  BY <1>1 DEF PickShard
<1> HIDE DEF kind
<1> DEFINE o == PickReady(p, m, ok, s, kind)
<1>9. /\ Offer(s, kind, ok) # {} => o.auth \in Top(Offer(s, kind, ok))
      /\ Offer(s, kind, ok) = {} => /\ o.auth = NoAuth
                                    /\ o.error = Refusal(Entries(s, ok)).error
                                    /\ o.until = Refusal(Entries(s, ok)).until
      /\ Orderly(o)
  BY <1>2, <1>7, PickReadyAnswers
<1>10. Entries(s, ok) = {Classify(metas[a], m) : a \in U}
  BY <1>3 DEF Entries
<1>11. Truthful(Refusal(Entries(s, ok)), U, m)
  BY <1>4, <1>10, RefusalIsTruthful
<1> HIDE DEF o, U
<1>12. Offer(s, kind, ok) = {} => o.auth = NoAuth /\ Truthful(o, U, m)
  BY <1>9, <1>11 DEF Truthful
<1>13. Top({}) = {}
  BY DEF Top
<1>14. Answers(o, U, m, preferWebsocket)
  BY <1>7, <1>9, <1>12, <1>13 DEF Answers
<1> QED BY <1>8, <1>9, <1>14 DEF o, U

-----------------------------------------------------------------------------
(* Picking across providers *)

End(C, i) == Total([j \in 1 .. i |-> C[j]])

(* The segment a slot falls into is not empty: an empty segment ends where *)
(* the one before it does.                                                 *)
LEMMA SegmentIsFilled ==
  ASSUME NEW n \in Nat, NEW C \in [1 .. n -> Nat]
  PROVE  /\ End(C, n) \in Nat
         /\ (\E i \in 1 .. n : C[i] > 0) => End(C, n) > 0
         /\ \A slot \in Nat : slot < End(C, n) =>
              \E seg \in 1 .. n : seg = Min({i \in 1 .. n : slot < End(C, i)}) /\ C[seg] > 0
<1> DEFINE Filled(i) == UNION {{j} \X (1 .. C[j]) : j \in 1 .. i}
<1>1. \A i \in 0 .. n : /\ IsFiniteSet(Filled(i)) /\ Cardinality(Filled(i)) \in Nat
                        /\ End(C, i) = Cardinality(Filled(i))
  <2>1. TAKE i \in 0 .. n
  <2>2. PICK f : f = [j \in 1 .. i |-> C[j]]
    OBVIOUS
  <2>3. f \in [1 .. i -> Nat] /\ DOMAIN f = 1 .. i /\ \A j \in 1 .. i : f[j] = C[j]
    BY <2>2
  <2>4. IsFiniteSet(1 .. i)
    <3>1. 1 \in Int /\ i \in Int
      OBVIOUS
    <3> QED BY <3>1, FS_Interval
  <2>5. Total(f) \in Nat /\ IsFiniteSet(UNION {{j} \X (1 .. f[j]) : j \in 1 .. i})
    BY <2>3, <2>4, TotalIsNumber
  <2>6. UNION {{j} \X (1 .. f[j]) : j \in 1 .. i} = Filled(i)
    BY <2>3
  <2>7. Total(f) = Cardinality(Filled(i))
    BY <2>3, <2>6 DEF Total
  <2> QED BY <2>2, <2>5, <2>6, <2>7 DEF End
<1>2. End(C, n) \in Nat
  <2>1. n \in 0 .. n
    OBVIOUS
  <2> HIDE DEF Filled
  <2> QED BY <1>1, <2>1
<1>3. (\E i \in 1 .. n : C[i] > 0) => End(C, n) > 0
  <2>1. SUFFICES ASSUME NEW i \in 1 .. n, C[i] > 0 PROVE End(C, n) > 0
    OBVIOUS
  <2>2. <<i, 1>> \in Filled(n)
    BY <2>1
  <2> HIDE DEF Filled
  <2>3. Cardinality(Filled(n)) # 0
    BY <1>1, <2>2, FS_EmptySet
  <2> QED BY <1>1, <2>3
<1>4. ASSUME NEW slot \in Nat, slot < End(C, n)
      PROVE  \E seg \in 1 .. n : seg = Min({i \in 1 .. n : slot < End(C, i)}) /\ C[seg] > 0
  <2> DEFINE ends == {i \in 1 .. n : slot < End(C, i)}
             seg == Min(ends)
  <2>1. n # 0
    <3>1. Filled(0) = {}
      OBVIOUS
    <3> HIDE DEF Filled
    <3>2. End(C, 0) = 0
      BY <1>1, <3>1, FS_EmptySet
    <3> QED BY <1>4, <3>2
  <2>2. ends \in SUBSET Nat /\ ends # {}
    <3>1. n \in ends
      BY <1>4, <2>1
    <3> QED BY <3>1
  <2>3. seg \in ends /\ \A i \in ends : seg <= i
    <3> HIDE DEF ends
    <3> QED BY <2>2, MinIsLeast
  <2>4. PICK k : k = seg
    OBVIOUS
  <2>5. k \in 1 .. n /\ slot < End(C, k)
    BY <2>3, <2>4
  <2>6. ~(k - 1 \in 1 .. n /\ slot < End(C, k - 1))
    <3>1. k - 1 \notin ends
      <4> HIDE DEF ends
      <4> QED BY <2>3, <2>4, <2>5
    <3> QED BY <3>1
  <2>7. ASSUME C[k] = 0 PROVE FALSE
    <3>1. Filled(k) = Filled(k - 1)
      <4>1. 1 .. k = (1 .. k - 1) \cup {k}
        BY <2>5
      <4>2. {k} \X (1 .. C[k]) = {}
        BY <2>7
      <4> QED BY <4>1, <4>2
    <3>2. k \in 0 .. n /\ k - 1 \in 0 .. n
      BY <2>5
    <3>3. End(C, k) = End(C, k - 1)
      BY <1>1, <3>1, <3>2
    <3>4. CASE k = 1
      <4>1. Filled(0) = {}
        OBVIOUS
      <4> HIDE DEF Filled
      <4>2. End(C, 0) = 0
        BY <1>1, <4>1, FS_EmptySet
      <4> QED BY <2>5, <3>3, <3>4, <4>2
    <3>5. CASE k # 1
      BY <2>5, <2>6, <3>3, <3>5
    <3> QED BY <3>4, <3>5
  <2>8. C[k] > 0
    BY <2>5, <2>7
  <2> QED BY <2>4, <2>5, <2>8
<1> QED BY <1>2, <1>3, <1>4

(* The segments of disjoint sets of credentials are not longer than all    *)
(* credentials.                                                            *)
LEMMA SegmentsFit ==
  ASSUME NEW n \in Nat, NEW C \in [1 .. n -> Nat], NEW W \in [1 .. n -> SUBSET Auths],
         \A i \in 1 .. n : C[i] = Cardinality(W[i]),
         \A i, j \in 1 .. n : W[i] \cap W[j] # {} => i = j
  PROVE  End(C, n) <= Cardinality(Auths)
<1> DEFINE S == UNION {{j} \X (1 .. C[j]) : j \in 1 .. n}
           G == [i \in 1 .. n |-> CHOOSE g : g \in Bijection(1 .. C[i], W[i])]
           f == [x \in S |-> G[x[1]][x[2]]]
<1>1. \A i \in 1 .. n : G[i] \in Bijection(1 .. C[i], W[i])
  <2>1. TAKE i \in 1 .. n
  <2>2. PICK T, k : T = W[i] /\ k = C[i]
    OBVIOUS
  <2>3. T \in SUBSET Auths /\ k \in Nat /\ Cardinality(T) = k
    BY <2>2
  <2>4. IsFiniteSet(T)
    BY <2>3, AuthsAreNumbers, FS_Subset
  <2>5. IsFiniteSet(1 .. k) /\ Cardinality(1 .. k) = k
    <3>1. 1 \in Int /\ k \in Int /\ (IF 1 > k THEN 0 ELSE k - 1 + 1) = k
      BY <2>3
    <3> QED BY <3>1, FS_Interval
  <2>6. ExistsBijection(1 .. k, T)
    BY <2>3, <2>4, <2>5, FS_SameCardinalityBij
  <2>7. \E g : g \in Bijection(1 .. k, T)
    BY <2>6, Zenon DEF ExistsBijection
  <2>8. (CHOOSE g : g \in Bijection(1 .. k, T)) \in Bijection(1 .. k, T)
    BY <2>7, Zenon
  <2> QED BY <2>2, <2>8
<1> HIDE DEF G
<1>2. \A i \in 1 .. n : /\ G[i] \in [1 .. C[i] -> W[i]]
                        /\ \A j, k \in 1 .. C[i] : G[i][j] = G[i][k] => j = k
  BY <1>1 DEF Bijection, Injection, IsInjective
<1>3. \A x \in S : x[1] \in 1 .. n /\ x[2] \in 1 .. C[x[1]] /\ x = <<x[1], x[2]>>
  OBVIOUS
<1>4. \A x \in S : f[x] \in W[x[1]] /\ f[x] \in Auths
  BY <1>2, <1>3
<1>5. ASSUME NEW x \in S, NEW y \in S, f[x] = f[y] PROVE x = y
  <2>1. x[1] = y[1]
    BY <1>3, <1>4, <1>5
  <2>2. G[x[1]][x[2]] = G[x[1]][y[2]]
    BY <1>5, <2>1
  <2>3. x[2] = y[2]
    BY <1>2, <1>3, <2>1, <2>2
  <2> QED BY <1>3, <2>1, <2>3
<1>6. f \in Injection(S, Auths)
  <2>1. f \in [S -> Auths] /\ DOMAIN f = S
    BY <1>4
  <2> HIDE DEF f, S
  <2> QED BY <1>5, <2>1 DEF Injection, IsInjective
<1>7. End(C, n) = Cardinality(S)
  <2>1. PICK c : c = [j \in 1 .. n |-> C[j]]
    OBVIOUS
  <2>2. DOMAIN c = 1 .. n /\ \A j \in 1 .. n : c[j] = C[j]
    BY <2>1
  <2>3. UNION {{j} \X (1 .. c[j]) : j \in 1 .. n} = S
    BY <2>2
  <2>4. Total(c) = Cardinality(UNION {{j} \X (1 .. c[j]) : j \in 1 .. n})
    BY <2>2, Zenon DEF Total
  <2> QED BY <2>1, <2>3, <2>4 DEF End
<1> HIDE DEF f, S
<1> QED BY <1>6, <1>7, AuthsAreNumbers, FS_Injection

(* The shards once pickMixed has brought those of its model up to date. *)
Ensured(m) ==
  [q \in DOMAIN shards |-> IF q[2] = m /\ q[1] \in providers THEN EnsureModel(q[1], q[2]) ELSE shards[q]]

(* They are in order, those of the providers known up to date. *)
LEMMA EnsuredInOrder ==
  ASSUME SchedInv, NEW m \in Models
  PROVE  /\ Shelves(Ensured(m), metas)
         /\ \A p \in providers : p \in Providers /\ Current(Ensured(m)[<<p, m>>], p, m, metas)
<1>1. shards = [q \in Providers \X Models |-> shards[q]]
      /\ \A q \in Providers \X Models : shards[q] = NoShard \/ Kept(shards[q], q[1], q[2], metas)
  BY DEF SchedInv, Shelves
<1>2. DOMAIN shards = Providers \X Models /\ providers \in SUBSET Providers
  BY <1>1 DEF SchedInv
<1>3. ASSUME NEW p \in providers
      PROVE  p \in Providers /\ Current(Ensured(m)[<<p, m>>], p, m, metas)
  <2>1. p \in Providers /\ <<p, m>> \in DOMAIN shards
    BY <1>2, <1>3
  <2>2. Ensured(m)[<<p, m>>] = EnsureModel(p, m)
    BY <1>3, <2>1 DEF Ensured
  <2> QED BY <2>1, <2>2, EnsuredIsCurrent
<1>4. Ensured(m) = [q \in Providers \X Models |-> Ensured(m)[q]]
  BY <1>2 DEF Ensured
<1>5. ASSUME NEW q \in Providers \X Models
      PROVE  Ensured(m)[q] = NoShard \/ Kept(Ensured(m)[q], q[1], q[2], metas)
  <2>1. CASE q[2] = m /\ q[1] \in providers
    <3>1. Ensured(m)[q] = EnsureModel(q[1], q[2])
      BY <1>2, <2>1 DEF Ensured
    <3>2. q[1] \in Providers /\ q[2] \in Models
      OBVIOUS
    <3>3. Current(EnsureModel(q[1], q[2]), q[1], q[2], metas)
      BY <3>2, EnsuredIsCurrent
    <3> QED BY <3>1, <3>3 DEF Current, Kept
  <2>2. CASE ~(q[2] = m /\ q[1] \in providers)
    <3>1. Ensured(m)[q] = shards[q]
      BY <1>2, <2>2 DEF Ensured
    <3> QED BY <1>1, <3>1
  <2> QED BY <2>1, <2>2
<1> QED BY <1>3, <1>4, <1>5 DEF Shelves

(* The route lists the providers. *)
LEMMA RouteFacts ==
  /\ Len(Route) \in Nat /\ DOMAIN Route = 1 .. Len(Route)
  /\ \A i \in 1 .. Len(Route) : Route[i] \in Providers
  /\ \A p \in Providers : \E i \in 1 .. Len(Route) : Route[i] = p
<1>1. Len(Route) \in Nat /\ DOMAIN Route = 1 .. Len(Route)
  BY SchedulerAssumption
<1> QED BY <1>1 DEF Providers, Range

(* No provider is on the route twice. *)
LEMMA RouteOnce == \A i, j \in 1 .. Len(Route) : Route[i] = Route[j] => i = j
<1>1. PICK n : n = Len(Route)
  OBVIOUS
<1>2. n \in Nat /\ Route \in [1 .. n -> Providers]
  BY <1>1, SchedulerAssumption
<1>3. Route \in Surjection(1 .. n, Providers)
  BY <1>1, <1>2, RouteFacts DEF Surjection
<1>4. IsFiniteSet(1 .. n) /\ Cardinality(1 .. n) = n
  <2>1. 1 \in Int /\ n \in Int /\ (IF 1 > n THEN 0 ELSE n - 1 + 1) = n
    BY <1>2
  <2> QED BY <2>1, FS_Interval
<1>5. Cardinality(1 .. n) = Cardinality(Providers)
  BY <1>1, <1>4, SchedulerAssumption
<1>6. Route \in Injection(1 .. n, Providers)
  BY <1>3, <1>4, <1>5, FS_SurjSameCardinalityImpliesInj
<1>7. \A i, j \in 1 .. n : Route[i] = Route[j] => i = j
  BY <1>6 DEF Injection, IsInjective
<1> QED BY <1>1, <1>7

(* The views of a tier list, for each provider, the credentials of V, and  *)
(* the pool is those of them that the request may use.                     *)
Shown(m, ok, tier, views, V, pool) ==
  /\ \A p \in Providers : V[p] \in SUBSET DOMAIN metas /\ views[p] \in Viewing(V[p])
  /\ \A p \in Providers : V[p] # {} =>
       /\ p \in providers /\ tier \in DOMAIN Ensured(m)[<<p, m>>].ready
       /\ V[p] = OfferAt(Ensured(m)[<<p, m>>], "all", tier)
  /\ pool = UNION {V[p] \cap ok : p \in Providers}

(* Whatever the strategy, a pick across providers takes a credential of    *)
(* the pool, and the shards stay in order.                                 *)
LEMMA PickViewsTakes ==
  ASSUME SchedInv, NEW m \in Models, NEW ok, Weighty(ok), NEW tier, NEW views, NEW V,
         NEW pool, Shown(m, ok, tier, views, V, pool), pool # {}
  PROVE  /\ PickViews(m, ok, Ensured(m), tier, views).auth \in pool
         /\ Orderly(PickViews(m, ok, Ensured(m), tier, views))
<1> DEFINE n == Len(Route)
           Count(i) == Cardinality(Members(views[Route[i]]) \cap ok)
           C == [i \in 1 .. n |-> Count(i)]
           SegmentEnd(i) == Total([j \in 1 .. i |-> Count(j)])
           all == UNION {Members(views[p]) \cap ok : p \in Providers}
           slot == mixedCursors[m] % SegmentEnd(n)
           start == Route[Min({i \in DOMAIN Route : slot < SegmentEnd(i)})]
           first == Route[Min({i \in DOMAIN Route : Count(i) > 0})]
           spent == Spend(mixedCredits[m], all)
           turn == PickRoundRobin(views[start], ok)
           o == PickViews(m, ok, Ensured(m), tier, views)
<1>0. /\ \A p \in Providers : V[p] \in SUBSET DOMAIN metas /\ views[p] \in Viewing(V[p])
      /\ \A p \in Providers : V[p] # {} =>
           /\ p \in providers /\ tier \in DOMAIN Ensured(m)[<<p, m>>].ready
           /\ V[p] = OfferAt(Ensured(m)[<<p, m>>], "all", tier)
      /\ pool = UNION {V[p] \cap ok : p \in Providers} /\ pool # {}
  BY DEF Shown
<1> USE <1>0
<1>1. mixedCursors \in [Models -> Slots] /\ mixedCredits \in [Models -> Credits]
      /\ strategy \in Strategies
  BY DEF SchedInv
<1>2. DOMAIN metas \in SUBSET Auths /\ \A a \in DOMAIN metas : metas[a] \in Profiles[a]
  BY DEF SchedInv, Known
<1>3. \A p \in Providers : Members(views[p]) = V[p]
  BY DEF Viewing, Members
<1>4. all = pool
  BY <1>3
<1>5. \A i \in 1 .. n : /\ Count(i) = Cardinality(V[Route[i]] \cap ok)
                        /\ Count(i) \in Nat /\ (Count(i) > 0 <=> V[Route[i]] \cap ok # {})
  <2>1. TAKE i \in 1 .. n
  <2>2. PICK S : S = V[Route[i]] \cap ok
    OBVIOUS
  <2>3. Route[i] \in Providers
    BY <2>1, RouteFacts
  <2>4. Count(i) = Cardinality(S)
    BY <1>3, <2>2, <2>3
  <2>5. S \in SUBSET Auths
    BY <1>2, <2>2, <2>3
  <2>6. IsFiniteSet(S)
    BY <2>5, AuthsAreNumbers, FS_Subset
  <2>7. Cardinality(S) \in Nat /\ (Cardinality(S) = 0 <=> S = {})
    BY <2>6, FS_CardinalityType, FS_EmptySet
  <2> QED BY <2>2, <2>4, <2>7
<1>6. PICK i0 \in 1 .. n : Count(i0) > 0
  <2>1. PICK p \in Providers : V[p] \cap ok # {}
    OBVIOUS
  <2>2. PICK i \in 1 .. n : Route[i] = p
    BY RouteFacts
  <2> QED BY <1>5, <2>1, <2>2
<1>7. ASSUME NEW i \in 1 .. n, Count(i) > 0
      PROVE  /\ Route[i] \in Providers /\ V[Route[i]] \cap ok # {}
             /\ V[Route[i]] \cap ok \subseteq pool
  <2>1. Route[i] \in Providers
    BY RouteFacts
  <2>2. V[Route[i]] \cap ok # {}
    BY <1>5, <1>7
  <2> QED BY <2>1, <2>2
<1>8. CASE strategy = "fill-first"
  <2> DEFINE S == {i \in DOMAIN Route : Count(i) > 0}
  <2>1. o = Picked(PickFirst(views[first], ok).auth, Ensured(m), mixedCursors, mixedCredits, all,
                   Lane("all", TRUE, Providers, m, tier), TRUE)
    BY <1>8 DEF PickViews
  <2>2. o.auth = PickFirst(views[first], ok).auth /\ o.shards = Ensured(m)
        /\ o.cursors = mixedCursors /\ o.credits = mixedCredits
    BY <2>1 DEF Picked, Outcome
  <2>3. S \in SUBSET Nat /\ i0 \in S
    BY <1>6, RouteFacts
  <2>4. Min(S) \in S
    <3> HIDE DEF S
    <3> QED BY <2>3, MinIsLeast
  <2>5. PICK i \in 1 .. n : i = Min(S) /\ Count(i) > 0
    BY <2>4, RouteFacts
  <2>6. first = Route[i]
    BY <2>5
  <2>7. first \in Providers /\ V[first] \cap ok # {} /\ V[first] \cap ok \subseteq pool
    BY <1>7, <2>5, <2>6
  <2> HIDE DEF first, o
  <2>8. PickFirst(views[first], ok).auth \in V[first] \cap ok
    BY <2>7, PickFirstTakes
  <2>9. Orderly(o)
    BY <1>1, <2>2, EnsuredInOrder DEF Orderly
  <2> QED BY <2>2, <2>7, <2>8, <2>9 DEF o
<1>9. CASE strategy = "weighted-round-robin"
  <2>1. o = Picked(spent.auth, Ensured(m), mixedCursors, [mixedCredits EXCEPT ![m] = spent.credits],
                   all, Lane("all", TRUE, Providers, m, tier), spent.clean)
    BY <1>9 DEF PickViews
  <2>2. o.auth = spent.auth /\ o.shards = Ensured(m)
        /\ o.cursors = mixedCursors /\ o.credits = [mixedCredits EXCEPT ![m] = spent.credits]
    BY <2>1 DEF Picked, Outcome
  <2>3. pool \in SUBSET DOMAIN metas /\ pool \subseteq ok
    OBVIOUS
  <2>4. \A a \in pool : metas[a].weight \in Int /\ metas[a].weight > 0
    BY <1>2, <1>9, <2>3, ProfileFacts DEF Weighty
  <2>5. mixedCredits[m] \in Credits /\ pool \in SUBSET Auths
    BY <1>1, <1>2, <2>3
  <2>6. spent.auth \in pool /\ spent.credits \in Credits
    <3> HIDE DEF all
    <3> QED BY <1>4, <2>4, <2>5, SpendTakes
  <2> HIDE DEF spent, o
  <2>7. [mixedCredits EXCEPT ![m] = spent.credits] \in [Models -> Credits]
    BY <1>1, <2>6
  <2>8. Orderly(o)
    BY <1>1, <2>2, <2>7, EnsuredInOrder DEF Orderly
  <2> QED BY <2>2, <2>6, <2>8 DEF o
<1>10. CASE strategy = "round-robin"
  <2> DEFINE S == {i \in DOMAIN Route : slot < SegmentEnd(i)}
             new == [Ensured(m) EXCEPT ![<<start, m>>].ready[tier].all = turn.view]
  <2>1. o = Picked(turn.auth, new, [mixedCursors EXCEPT ![m] = slot + 1], mixedCredits, all,
                   Lane("all", TRUE, Providers, m, tier), TRUE)
    BY <1>10 DEF PickViews
  <2>2. o.auth = turn.auth /\ o.shards = new /\ o.credits = mixedCredits
        /\ o.cursors = [mixedCursors EXCEPT ![m] = slot + 1]
    <3> HIDE DEF o, new, turn, slot, all
    <3> QED BY <2>1 DEF Picked, Outcome
  <2>3. n \in Nat /\ C \in [1 .. n -> Nat] /\ \E i \in 1 .. n : C[i] > 0
    BY <1>5, <1>6, RouteFacts
  <2>4. \A i \in 1 .. n : SegmentEnd(i) = End(C, i) /\ C[i] = Count(i)
    <3>1. TAKE i \in 1 .. n
    <3>2. [j \in 1 .. i |-> Count(j)] = [j \in 1 .. i |-> C[j]]
      BY <2>3
    <3> QED BY <3>2 DEF End
  <2>5. n \in 1 .. n
    BY <2>3
  <2>6. SegmentEnd(n) = End(C, n) /\ End(C, n) \in Nat /\ End(C, n) > 0
    <3>1. SegmentEnd(n) = End(C, n)
      BY <2>4, <2>5
    <3> HIDE DEF C, SegmentEnd
    <3> QED BY <2>3, <3>1, SegmentIsFilled
  <2>7. slot \in Nat /\ slot < End(C, n)
    <3>1. mixedCursors[m] \in Nat
      BY <1>1, AuthCount
    <3> HIDE DEF C, SegmentEnd
    <3> QED BY <2>6, <3>1
  <2>8. S = {i \in 1 .. n : slot < End(C, i)}
    <3> HIDE DEF C, SegmentEnd, slot
    <3> QED BY <2>4, RouteFacts
  <2>9. PICK seg \in 1 .. n : seg = Min(S) /\ C[seg] > 0
    <3> HIDE DEF C, slot, S
    <3> QED BY <2>3, <2>7, <2>8, SegmentIsFilled
  <2>fit. End(C, n) <= Cardinality(Auths)
    <3>1. PICK W : W = [i \in 1 .. n |-> V[Route[i]] \cap ok]
      OBVIOUS
    <3>2. \A i \in 1 .. n : W[i] = V[Route[i]] \cap ok /\ Route[i] \in Providers
      BY <3>1, RouteFacts
    <3>3. W \in [1 .. n -> SUBSET Auths]
      BY <1>2, <3>1, <3>2
    <3>4. \A i \in 1 .. n : C[i] = Cardinality(W[i])
      BY <1>5, <2>4, <3>2
    <3>5. ASSUME NEW p \in Providers, NEW a \in V[p] PROVE metas[a].provider = p
      <4>1. PICK s : s = Ensured(m)[<<p, m>>]
        OBVIOUS
      <4>2. p \in providers /\ V[p] = OfferAt(s, "all", tier)
        BY <3>5, <4>1
      <4>3. DOMAIN s.entries = Supported(p, m, metas)
        BY <4>1, <4>2, EnsuredInOrder DEF Current
      <4> QED BY <3>5, <4>2, <4>3 DEF OfferAt, ReadyAt, Supported
    <3>6. \A i, j \in 1 .. n : W[i] \cap W[j] # {} => i = j
      BY <3>2, <3>5, RouteOnce
    <3> HIDE DEF C, n
    <3> QED BY <2>3, <3>3, <3>4, <3>6, SegmentsFit
  <2>10. start = Route[seg] /\ Count(seg) > 0
    BY <2>4, <2>9
  <2>11. start \in Providers /\ V[start] \cap ok # {} /\ V[start] \cap ok \subseteq pool
    BY <1>7, <2>10
  <2> HIDE DEF start, slot, o, S, C
  <2>12. turn.auth \in V[start] \cap ok /\ turn.view \in Viewing(V[start])
    BY <2>11, PickRoundRobinTakes
  <2> HIDE DEF turn
  <2>13. PICK k : k = <<start, m>>
    OBVIOUS
  <2>14. PICK s : s = Ensured(m)[k]
    OBVIOUS
  <2>15. start \in providers /\ tier \in DOMAIN s.ready /\ V[start] = OfferAt(s, "all", tier)
         /\ Current(s, start, m, metas)
    BY <2>11, <2>13, <2>14, EnsuredInOrder
  <2> DEFINE t == [s EXCEPT !.ready[tier]["all"] = turn.view]
  <2>16. Indexed(t, metas) /\ t.entries = s.entries
    BY <2>12, <2>15, TurnedIsIndexed DEF Current, Kinds
  <2>17. new = [Ensured(m) EXCEPT ![k] = t]
    BY <2>13, <2>14
  <2> HIDE DEF t, new
  <2>18. Kept(t, start, m, metas)
    BY <2>15, <2>16 DEF Current, Kept
  <2>19. Ensured(m) = [q \in Providers \X Models |-> Ensured(m)[q]]
         /\ \A q \in Providers \X Models : Ensured(m)[q] = NoShard
                                           \/ Kept(Ensured(m)[q], q[1], q[2], metas)
    BY EnsuredInOrder DEF Shelves
  <2>20. k \in Providers \X Models /\ k[1] = start /\ k[2] = m
    BY <2>11, <2>13
  <2>21. Shelves(new, metas)
    <3>1. PICK E : E = Ensured(m)
      OBVIOUS
    <3>2. E = [q \in Providers \X Models |-> E[q]] /\ new = [E EXCEPT ![k] = t]
      BY <2>17, <2>19, <3>1
    <3>3. new = [q \in Providers \X Models |-> new[q]]
      BY <3>2
    <3>4. new[k] = t /\ \A q \in Providers \X Models : q # k => new[q] = E[q]
      BY <2>20, <3>2
    <3> QED BY <2>18, <2>19, <2>20, <3>1, <3>3, <3>4 DEF Shelves
  <2>22. [mixedCursors EXCEPT ![m] = slot + 1] \in [Models -> Slots]
    <3>1. End(C, n) <= Cardinality(Auths)
      BY <2>fit
    <3>2. slot + 1 \in Slots
      BY <2>6, <2>7, <3>1, AuthCount DEF Slots
    <3> HIDE DEF Slots
    <3> QED BY <1>1, <3>2
  <2>23. Orderly(o)
    BY <1>1, <2>2, <2>21, <2>22 DEF Orderly
  <2> QED BY <2>2, <2>11, <2>12, <2>23 DEF o
<1> QED BY <1>1, <1>8, <1>9, <1>10 DEF Strategies

(* A request to all providers is answered as the credentials say. *)
LEMMA PickMixedAnswers ==
  ASSUME SchedInv, NEW m \in Models, NEW ok, Weighty(ok),
         NEW tiers, tiers = UNION {Tiers(Ensured(m)[<<p, m>>], "all", ok) : p \in providers},
         NEW U, U = {a \in DOMAIN metas \cap ok : m \in metas[a].supports}
  PROVE  /\ Answers(PickMixedTier(m, ok, Ensured(m), tiers), U, m, FALSE)
         /\ Orderly(PickMixedTier(m, ok, Ensured(m), tiers))
<1> DEFINE free == {a \in U : Free(a, m)}
           S(p) == Ensured(m)[<<p, m>>]
           o == PickMixedTier(m, ok, Ensured(m), tiers)
<1>1. \A p \in providers : /\ p \in Providers /\ Current(S(p), p, m, metas)
                           /\ Indexed(S(p), metas) /\ DOMAIN S(p).entries = Supported(p, m, metas)
                           /\ \A a \in DOMAIN S(p).entries : S(p).entries[a] = Classify(metas[a], m)
  BY EnsuredInOrder DEF Current
<1>2. /\ DOMAIN metas \in SUBSET Auths
      /\ \A a \in DOMAIN metas : metas[a] \in Profiles[a] /\ metas[a].provider \in providers
  BY DEF SchedInv, Known
<1>3. U \in SUBSET DOMAIN metas /\ \A a \in U : a \in ok /\ m \in metas[a].supports
  OBVIOUS
<1>4. \A p \in providers : Offer(S(p), "all", ok) = {a \in free : metas[a].provider = p}
  <2>1. TAKE p \in providers
  <2>2. PICK s : s = S(p)
    OBVIOUS
  <2>3. DOMAIN s.entries = Supported(p, m, metas)
        /\ \A a \in DOMAIN s.entries : s.entries[a] = Classify(metas[a], m)
    BY <1>1, <2>2
  <2>4. \A a \in DOMAIN s.entries : s.entries[a].state = "ready" <=> Free(a, m)
    BY <2>3, ClassifyIsRight DEF Supported
  <2>5. Offer(s, "all", ok) = {a \in free : metas[a].provider = p}
    BY <2>3, <2>4 DEF Offer, Supported
  <2> QED BY <2>2, <2>5
<1>5. \A p \in providers : Tiers(S(p), "all", ok)
                             = {metas[a].priority : a \in {x \in free : metas[x].provider = p}}
  <2>1. TAKE p \in providers
  <2>2. "all" \in Kinds /\ Indexed(S(p), metas)
    BY <1>1 DEF Kinds
  <2>3. Tiers(S(p), "all", ok) = {metas[a].priority : a \in Offer(S(p), "all", ok)}
    <3> HIDE DEF S
    <3> QED BY <2>2, TiersOfOffer
  <2> QED BY <1>4, <2>3
<1>6. tiers = {metas[a].priority : a \in free}
  <2>1. \A a \in free : metas[a].provider \in providers
    BY <1>2, <1>3
  <2>2. \A t : t \in tiers <=> \E p \in providers : t \in Tiers(S(p), "all", ok)
    OBVIOUS
  <2> HIDE DEF S, free
  <2>3. \A p \in providers : \A t :
          t \in Tiers(S(p), "all", ok) <=> \E a \in free : metas[a].provider = p /\ metas[a].priority = t
    BY <1>5
  <2>4. \A t : t \in tiers <=> \E a \in free : metas[a].priority = t
    <3>1. TAKE t
    <3>2. ASSUME t \in tiers PROVE \E a \in free : metas[a].priority = t
      <4>1. PICK p \in providers : t \in Tiers(S(p), "all", ok)
        BY <2>2, <3>2
      <4> QED BY <2>3, <4>1
    <3>3. ASSUME NEW a \in free, metas[a].priority = t PROVE t \in tiers
      <4>1. PICK p \in providers : metas[a].provider = p
        BY <2>1
      <4>2. t \in Tiers(S(p), "all", ok)
        BY <2>3, <3>3, <4>1
      <4> QED BY <2>2, <4>2
    <3> QED BY <3>2, <3>3
  <2> QED BY <2>4
<1>7. Preferred(U, m, FALSE) = free
  BY DEF Preferred
<1>8. CASE free = {}
  <2> DEFINE E == UNION {Entries(S(p), ok) : p \in providers}
  <2>1. tiers = {}
    BY <1>6, <1>8
  <2>2. o = Refused(Refusal(E), Ensured(m))
    BY <2>1 DEF PickMixedTier
  <2>3. o.auth = NoAuth /\ o.error = Refusal(E).error /\ o.until = Refusal(E).until
        /\ o.shards = Ensured(m) /\ o.cursors = mixedCursors /\ o.credits = mixedCredits
    <3> HIDE DEF o, E
    <3> QED BY <2>2 DEF Refused, Outcome
  <2>4. E = {Classify(metas[a], m) : a \in U}
    <3>1. \A p \in providers : Entries(S(p), ok)
                                 = {Classify(metas[a], m) : a \in {x \in U : metas[x].provider = p}}
      BY <1>1 DEF Entries, Supported
    <3>2. \A a \in U : metas[a].provider \in providers
      BY <1>2, <1>3
    <3>3. \A x : x \in E <=> \E p \in providers : x \in Entries(S(p), ok)
      OBVIOUS
    <3> HIDE DEF S, E
    <3>4. \A p \in providers : \A x : x \in Entries(S(p), ok)
                                  <=> \E a \in U : metas[a].provider = p /\ x = Classify(metas[a], m)
      BY <3>1
    <3>5. \A x : x \in E <=> \E a \in U : x = Classify(metas[a], m)
      BY <3>2, <3>3, <3>4
    <3> QED BY <3>5
  <2>5. Truthful(Refusal(E), U, m)
    <3> HIDE DEF E
    <3> QED BY <1>3, <2>4, RefusalIsTruthful
  <2> HIDE DEF o, E
  <2>6. Truthful(o, U, m)
    BY <2>3, <2>5 DEF Truthful
  <2>7. Top({}) = {}
    BY DEF Top
  <2>8. Answers(o, U, m, FALSE)
    BY <1>7, <1>8, <2>3, <2>6, <2>7 DEF Answers
  <2>9. Orderly(o)
    BY <2>3, EnsuredInOrder DEF Orderly, SchedInv
  <2> QED BY <2>8, <2>9 DEF o
<1>9. CASE free # {}
  <2>1. PICK best \in free : \A b \in free : metas[b].priority <= metas[best].priority
    <3>1. free \in SUBSET DOMAIN metas
      BY <1>3
    <3> HIDE DEF free
    <3>2. Top(free) # {}
      BY <1>9, <3>1, TopOfSome
    <3> QED BY <3>2 DEF Top
  <2>2. Max(tiers) = metas[best].priority
    <3>1. metas[best].priority \in tiers /\ \A t \in tiers : t <= metas[best].priority
      BY <1>6, <2>1
    <3>2. \A t \in tiers : t \in Int
      BY <1>2, <1>3, <1>6, ProfileFacts
    <3>3. \E y \in tiers : \A t \in tiers : y >= t
      BY <3>1, <3>2
    <3>4. Max(tiers) \in tiers /\ \A t \in tiers : Max(tiers) >= t
      BY <3>3, Zenon DEF Max
    <3>5. PICK x, y : x = Max(tiers) /\ y = metas[best].priority
      OBVIOUS
    <3>6. x \in Int /\ y \in Int /\ x >= y /\ x <= y
      BY <3>1, <3>2, <3>4, <3>5
    <3> QED BY <3>5, <3>6
  <2>3. PICK tier : tier = Max(tiers)
    OBVIOUS
  <2> DEFINE listed(p) == p \in providers /\ tier \in DOMAIN S(p).ready
             V == [p \in Providers |-> IF listed(p) THEN OfferAt(S(p), "all", tier) ELSE {}]
             views == TierViews(m, Ensured(m), tier)
             pool == UNION {V[p] \cap ok : p \in Providers}
  <2>4. o = PickViews(m, ok, Ensured(m), tier, views)
    <3>1. tiers # {}
      <4>1. metas[best].priority \in tiers
        BY <1>6, <2>1
      <4> QED BY <4>1
    <3> QED BY <2>3, <3>1 DEF PickMixedTier
  <2>5. ASSUME NEW p \in Providers
        PROVE  /\ V[p] \in SUBSET DOMAIN metas /\ views[p] \in Viewing(V[p])
               /\ V[p] # {} => /\ p \in providers /\ tier \in DOMAIN Ensured(m)[<<p, m>>].ready
                               /\ V[p] = OfferAt(Ensured(m)[<<p, m>>], "all", tier)
    <3>1. CASE listed(p)
      <4>1. V[p] = OfferAt(S(p), "all", tier) /\ views[p] = S(p).ready[tier].all
        BY <3>1 DEF TierViews
      <4>2. PICK s : s = S(p)
        OBVIOUS
      <4>3. Indexed(s, metas) /\ DOMAIN s.entries = Supported(p, m, metas)
            /\ tier \in DOMAIN s.ready
        BY <1>1, <3>1, <4>2
      <4>4. s.ready[tier]["all"] \in Viewing(OfferAt(s, "all", tier))
        BY <4>3, ViewOfTier DEF Kinds
      <4>5. OfferAt(s, "all", tier) \in SUBSET DOMAIN metas
        BY <4>3 DEF OfferAt, ReadyAt, Supported
      <4> QED BY <3>1, <4>1, <4>2, <4>4, <4>5
    <3>2. CASE ~listed(p)
      <4>1. V[p] = {} /\ views[p] = NoView
        BY <3>2 DEF TierViews
      <4> QED BY <4>1, NoViewOK
    <3> QED BY <3>1, <3>2
  <2>6. pool = {a \in free : metas[a].priority = tier}
    <3>1. ASSUME NEW p \in Providers
          PROVE  V[p] \cap ok = {a \in free : metas[a].priority = tier /\ metas[a].provider = p}
      <4>1. CASE p \in providers
        <5>1. PICK s : s = S(p)
          OBVIOUS
        <5>2. Indexed(s, metas) /\ Offer(s, "all", ok) = {a \in free : metas[a].provider = p}
          BY <1>1, <1>4, <4>1, <5>1
        <5>3. DOMAIN s.ready = Priorities(s.entries, metas)
          BY <5>2, ViewOfTier DEF Kinds
        <5>4. OfferAt(s, "all", tier) \cap ok = {a \in Offer(s, "all", ok) : metas[a].priority = tier}
          BY DEF OfferAt, ReadyAt, Offer
        <5>5. tier \notin DOMAIN s.ready => OfferAt(s, "all", tier) = {}
          BY <5>3 DEF OfferAt, ReadyAt, Priorities
        <5>6. V[p] = OfferAt(s, "all", tier)
          BY <4>1, <5>1, <5>5
        <5> QED BY <5>2, <5>4, <5>6
      <4>2. CASE p \notin providers
        <5>1. V[p] = {}
          BY <4>2
        <5>2. \A a \in free : metas[a].provider # p
          BY <1>2, <1>3, <4>2
        <5> QED BY <5>1, <5>2
      <4> QED BY <4>1, <4>2
    <3>2. \A a \in free : metas[a].provider \in Providers
      BY <1>1, <1>2, <1>3
    <3> HIDE DEF V, free
    <3> QED BY <3>1, <3>2
  <2>7. best \in pool /\ pool \subseteq Top(free)
    BY <2>1, <2>2, <2>3, <2>6 DEF Top
  <2> HIDE DEF V, views, pool, o, free
  <2>8. o.auth \in pool /\ Orderly(o)
    <3>1. pool = UNION {V[p] \cap ok : p \in Providers} /\ pool # {}
      BY <2>7 DEF pool
    <3>2. \A p \in Providers : V[p] \in SUBSET DOMAIN metas /\ views[p] \in Viewing(V[p])
      BY <2>5
    <3>3. \A p \in Providers : V[p] # {} =>
            /\ p \in providers /\ tier \in DOMAIN Ensured(m)[<<p, m>>].ready
            /\ V[p] = OfferAt(Ensured(m)[<<p, m>>], "all", tier)
      BY <2>5
    <3>4. /\ PickViews(m, ok, Ensured(m), tier, views).auth \in pool
          /\ Orderly(PickViews(m, ok, Ensured(m), tier, views))
      <4>1. Shown(m, ok, tier, views, V, pool)
        BY <3>1, <3>2, <3>3 DEF Shown
      <4> QED BY <4>1, <3>1, PickViewsTakes
    <3> QED BY <2>4, <3>4
  <2>9. Answers(o, U, m, FALSE)
    BY <1>7, <2>7, <2>8 DEF Answers
  <2> QED BY <2>8, <2>9 DEF o
<1> QED BY <1>8, <1>9

-----------------------------------------------------------------------------
(* Every request is answered as the credentials say *)

(* When the scheduler prefers websockets: pickSingleWithStrategy. *)
Prefers(r) == r.kind = "single" /\ r.websocket /\ r.pinned = NoAuth /\ r.provider \in WebsocketProviders

(* The scheduler answers every request in kind and stays in order. *)
LEMMA ServeAnswers ==
  ASSUME SchedInv, NEW r \in Requests
  PROVE  Answers(Serve(r), Usable(r), r.model, Prefers(r)) /\ Orderly(Serve(r))
<1> DEFINE ok == Matching(r)
           m == r.model
<1>1. /\ r.kind \in {"single", "mixed"} /\ r.provider \in Providers /\ r.model \in Models
      /\ r.websocket \in BOOLEAN /\ r.pinned \in Auths \cup {NoAuth}
  BY SchedulerAssumption DEF RequestType
<1>2. /\ DOMAIN metas \in SUBSET Auths /\ providers \in SUBSET Providers
      /\ \A a \in DOMAIN metas : metas[a] \in Profiles[a] /\ metas[a].provider \in providers
  BY DEF SchedInv, Known
<1>3. Weighty(ok)
  BY DEF Weighty, Matching
<1>4. NoAuth \notin DOMAIN metas
  BY <1>2, AuthsAreNumbers
<1>5. Usable(r) = {a \in DOMAIN metas \cap ok : m \in metas[a].supports
                                                /\ (r.kind = "single" => metas[a].provider = r.provider)}
  BY DEF Usable, Matching
<1>6. Orderly(Refused(NotFound, shards))
  <2>1. PICK o : o = Refused(NotFound, shards)
    OBVIOUS
  <2>2. o.shards = shards /\ o.cursors = mixedCursors /\ o.credits = mixedCredits
    BY <2>1 DEF Refused, Outcome
  <2>3. Orderly(o)
    BY <2>2 DEF Orderly, SchedInv
  <2> QED BY <2>1, <2>3
<1>7. ASSUME Usable(r) = {}
      PROVE  Answers(Refused(NotFound, shards), Usable(r), m, Prefers(r))
  <2>1. PICK o : o = Refused(NotFound, shards)
    OBVIOUS
  <2>2. o.auth = NoAuth /\ o.error = "auth_not_found"
    BY <2>1 DEF Refused, Outcome, NotFound
  <2>3. Preferred({}, m, Prefers(r)) = {} /\ Top({}) = {}
    BY DEF Preferred, Top
  <2>4. Truthful(o, {}, m)
    BY <2>2 DEF Truthful
  <2>5. Answers(o, {}, m, Prefers(r))
    BY <2>2, <2>3, <2>4 DEF Answers
  <2> QED BY <1>7, <2>1, <2>5
<1>8. CASE r.kind = "single"
  <2>1. Serve(r) = PickSingle(r)
    BY <1>8 DEF Serve
  <2>2. CASE r.provider \notin providers
    <3>1. Serve(r) = Refused(NotFound, shards)
      BY <2>1, <2>2 DEF PickSingle
    <3>2. Usable(r) = {}
      BY <1>2, <1>5, <1>8, <2>2
    <3> QED BY <1>6, <1>7, <3>1, <3>2
  <2>3. CASE r.provider \in providers
    <3> DEFINE prefer == r.websocket /\ r.provider \in WebsocketProviders /\ r.pinned = NoAuth
    <3>1. Serve(r) = PickShard(r.provider, m, ok, prefer)
      BY <2>1, <2>3 DEF PickSingle
    <3>2. prefer = Prefers(r) /\ prefer \in BOOLEAN
      BY <1>1, <1>8 DEF Prefers
    <3>3. Supported(r.provider, m, metas) \cap ok = Usable(r)
      BY <1>5, <1>8 DEF Supported
    <3> HIDE DEF prefer, ok
    <3>4. Answers(PickShard(r.provider, m, ok, prefer), Supported(r.provider, m, metas) \cap ok, m, prefer)
          /\ Orderly(PickShard(r.provider, m, ok, prefer))
      BY <1>1, <1>3, <3>2, PickShardAnswers
    <3> QED BY <3>1, <3>2, <3>3, <3>4
  <2> QED BY <2>2, <2>3
<1>9. CASE r.kind = "mixed" /\ r.pinned # NoAuth
  <2>1. Serve(r) = PickPinned(r) /\ Prefers(r) = FALSE
    BY <1>9 DEF Serve, Prefers
  <2>2. \A a \in ok : a = r.pinned
    BY <1>9 DEF Matching
  <2>3. CASE r.pinned \notin DOMAIN metas
    <3>1. Serve(r) = Refused(NotFound, shards)
      BY <2>1, <2>3 DEF PickPinned
    <3>2. Usable(r) = {}
      BY <1>5, <2>2, <2>3
    <3> QED BY <1>6, <1>7, <3>1, <3>2
  <2>4. CASE r.pinned \in DOMAIN metas
    <3>1. PICK p : p = metas[r.pinned].provider
      OBVIOUS
    <3>2. p \in Providers
      BY <1>2, <2>4, <3>1
    <3>3. Serve(r) = PickShard(p, m, ok, FALSE)
      BY <2>1, <2>4, <3>1 DEF PickPinned
    <3>4. Supported(p, m, metas) \cap ok = Usable(r)
      BY <1>5, <1>9, <2>2, <3>1 DEF Supported
    <3> HIDE DEF ok
    <3>5. Answers(PickShard(p, m, ok, FALSE), Supported(p, m, metas) \cap ok, m, FALSE)
          /\ Orderly(PickShard(p, m, ok, FALSE))
      BY <1>1, <1>3, <3>2, PickShardAnswers
    <3> QED BY <2>1, <3>3, <3>4, <3>5
  <2> QED BY <2>3, <2>4
<1>10. CASE r.kind = "mixed" /\ r.pinned = NoAuth
  <2> DEFINE tiers == UNION {Tiers(Ensured(m)[<<p, m>>], "all", ok) : p \in providers}
             U == {a \in DOMAIN metas \cap ok : m \in metas[a].supports}
  <2>1. Serve(r) = PickMixed(r) /\ Prefers(r) = FALSE
    BY <1>10 DEF Serve, Prefers
  <2>2. PickMixed(r) = PickMixedTier(m, ok, Ensured(m), tiers)
    BY DEF PickMixed, Ensured
  <2>3. Usable(r) = U
    BY <1>5, <1>10
  <2>4. Answers(PickMixedTier(m, ok, Ensured(m), tiers), U, m, FALSE)
        /\ Orderly(PickMixedTier(m, ok, Ensured(m), tiers))
    <3> HIDE DEF ok
    <3> QED BY <1>1, <1>3, PickMixedAnswers
  <2> HIDE DEF tiers, U, ok
  <2> QED BY <2>1, <2>2, <2>3, <2>4
<1> QED BY <1>1, <1>8, <1>9, <1>10

(* While the invariant holds, requests get the best credentials. *)
LEMMA InvGivesBest == SchedInv => PickIsBest
<1> SUFFICES ASSUME SchedInv, NEW r \in Requests, NEW o, o = Serve(r), NEW usable, usable = Usable(r)
             PROVE  IF Best(r) # {} THEN o.auth \in Best(r)
                    ELSE /\ o.auth = NoAuth
                         /\ o.error = "auth_not_found" <=> usable = {}
                         /\ o.error = "model_cooldown" <=>
                              usable # {} /\ \A a \in usable : Cooling(a, r.model)
                         /\ o.error = "model_cooldown"
                              => o.until = Min({metas[a].block[r.model].until : a \in usable})
  BY DEF PickIsBest
<1>1. Answers(o, usable, r.model, Prefers(r))
  BY ServeAnswers
<1>2. Best(r) = Top(Preferred(usable, r.model, Prefers(r)))
  BY DEF Best, Top, Preferred, Prefers
<1> QED BY <1>1, <1>2 DEF Answers, Truthful

-----------------------------------------------------------------------------
(* The invariant is kept *)

(* The scheduler starts in order. *)
LEMMA SchedStart == SchedulerInit => SchedInv
<1> SUFFICES ASSUME SchedulerInit PROVE SchedInv
  OBVIOUS
<1>1. Known(metas, providers)
  <2>1. metas = <<>>
    BY DEF SchedulerInit
  <2>2. DOMAIN metas = {} /\ metas = [a \in DOMAIN metas |-> metas[a]]
    BY <2>1
  <2> QED BY <2>2 DEF Known
<1>2. Shelves(shards, metas)
  BY DEF SchedulerInit, Shelves
<1>3. mixedCursors \in [Models -> Slots] /\ mixedCredits \in [Models -> Credits]
  BY NoCreditsOK, AuthCount DEF SchedulerInit
<1>4. now \in 1 .. MaxTime /\ strategy \in Strategies /\ providers \in SUBSET Providers
  BY SchedulerAssumption DEF SchedulerInit
<1> QED BY <1>1, <1>2, <1>3, <1>4 DEF SchedInv

(* What is said of shards and credentials is still true in the next state  *)
(* when these are the next ones and no time has passed.                    *)
LEMMA ShelvesFrame ==
  ASSUME NEW sh, NEW ms, Shelves(sh, ms), shards' = sh, metas' = ms, now' = now
  PROVE  Shelves(shards, metas)'
<1>1. \A meta, m : Classify(meta, m)' = Classify(meta, m)
  BY DEF Classify
<1>2. \A entry, block : Overdue(entry, block)' <=> Overdue(entry, block)
  BY DEF Overdue
<1>3. \A s, p, m : Kept(s, p, m, ms) => Kept(s, p, m, ms)'
  BY <1>1, <1>2 DEF Kept
<1> QED BY <1>3 DEF Shelves

(* Filing a credential keeps the invariant. *)
LEMMA FileKeeps ==
  ASSUME SchedInv, NEW a \in Auths, NEW ms, File(a, ms), Changed(a, ms), Known(ms, providers'),
         providers' \in SUBSET Providers
  PROVE  SchedInv'
<1>1. shards' = Filed(a, ms) /\ metas' = ms /\ now' = now /\ strategy' = strategy
      /\ mixedCursors' = mixedCursors /\ mixedCredits' = mixedCredits
  BY DEF File, Refile
<1>2. PICK sh : sh = Filed(a, ms)
  OBVIOUS
<1>3. PICK ps : ps = providers'
  OBVIOUS
<1>4. Shelves(sh, ms)
  BY <1>2, <1>3, FiledKeeps
<1>5. Shelves(shards, metas)'
  BY <1>1, <1>2, <1>4, ShelvesFrame
<1>6. Known(metas, providers)'
  BY <1>1 DEF Known
<1> QED BY <1>1, <1>5, <1>6 DEF SchedInv

(* So does removing one. *)
LEMMA RemoveAuthKeeps ==
  ASSUME SchedInv, NEW a \in Auths, RemoveAuth(a)
  PROVE  SchedInv'
<1>1. PICK ms : ms = Restrict(metas, DOMAIN metas \ {a})
  OBVIOUS
<1>2. DOMAIN ms = DOMAIN metas \ {a} /\ ms = [x \in DOMAIN ms |-> ms[x]]
      /\ \A x \in DOMAIN ms : ms[x] = metas[x]
  BY <1>1 DEF Restrict
<1>3. File(a, ms) /\ providers' = providers
  BY <1>1 DEF RemoveAuth
<1>4. Known(metas, providers) /\ providers \in SUBSET Providers
  BY DEF SchedInv
<1>5. Changed(a, ms)
  BY <1>2 DEF Changed
<1>6. Known(ms, providers')
  BY <1>2, <1>3, <1>4 DEF Known
<1> QED BY <1>3, <1>4, <1>5, <1>6, FileKeeps

(* And so does filing one. *)
LEMMA UpsertAuthKeeps ==
  ASSUME SchedInv, NEW a \in Auths, NEW profile \in Profiles[a], UpsertAuth(a, profile)
  PROVE  SchedInv'
<1>1. CASE profile.disabled
  <2>1. RemoveAuth(a)
    BY <1>1 DEF UpsertAuth
  <2> QED BY <2>1, RemoveAuthKeeps
<1>2. CASE ~profile.disabled
  <2>1. PICK ms : ms = [x \in DOMAIN metas \cup {a} |-> IF x = a THEN profile ELSE metas[x]]
    OBVIOUS
  <2>2. /\ DOMAIN ms = DOMAIN metas \cup {a} /\ ms = [x \in DOMAIN ms |-> ms[x]]
        /\ ms[a] = profile /\ \A x \in DOMAIN metas \ {a} : ms[x] = metas[x]
    BY <2>1
  <2>3. File(a, ms) /\ providers' = providers \cup {profile.provider}
    BY <1>2, <2>1 DEF UpsertAuth
  <2>4. Known(metas, providers) /\ providers \in SUBSET Providers
    BY DEF SchedInv
  <2>5. Changed(a, ms)
    BY <2>2 DEF Changed
  <2>6. Known(ms, providers')
    BY <2>2, <2>3, <2>4 DEF Known
  <2>7. providers' \in SUBSET Providers
    BY <2>3, <2>4, ProfileFacts
  <2> QED BY <2>3, <2>5, <2>6, <2>7, FileKeeps
<1> QED BY <1>1, <1>2

(* rebuild starts over from the credentials known. *)
LEMMA RebuildKeeps ==
  ASSUME SchedInv, Rebuild
  PROVE  SchedInv'
<1>1. Known(metas, providers) /\ providers \in SUBSET Providers
      /\ DOMAIN shards = Providers \X Models
  BY DEF SchedInv, Shelves
<1>2. /\ providers' = {metas[a].provider : a \in DOMAIN metas}
      /\ shards' = [q \in DOMAIN shards |-> NoShard]
      /\ mixedCursors' = [m \in Models |-> 0] /\ mixedCredits' = [m \in Models |-> NoCredits]
      /\ now' = now /\ strategy' = strategy /\ metas' = metas
  BY DEF Rebuild
<1>3. Known(metas, providers)' /\ providers' \in SUBSET Providers
  BY <1>1, <1>2 DEF Known
<1>4. Shelves(shards, metas)'
  <2>1. shards' = [q \in Providers \X Models |-> shards'[q]]
        /\ \A q \in Providers \X Models : shards'[q] = NoShard
    BY <1>1, <1>2
  <2> QED BY <2>1 DEF Shelves
<1>5. mixedCursors' \in [Models -> Slots] /\ mixedCredits' \in [Models -> Credits]
  BY <1>2, NoCreditsOK, AuthCount
<1> QED BY <1>2, <1>3, <1>4, <1>5 DEF SchedInv

(* setSelector drops the route's cursors only. *)
LEMMA SetSelectorKeeps ==
  ASSUME SchedInv, NEW st \in Strategies, SetSelector(st)
  PROVE  SchedInv'
<1>1. /\ strategy' = st /\ now' = now /\ providers' = providers /\ metas' = metas /\ shards' = shards
      /\ mixedCursors' = [m \in Models |-> 0] /\ mixedCredits' = [m \in Models |-> NoCredits]
  BY DEF SetSelector
<1>2. PICK sh, ms : sh = shards /\ ms = metas
  OBVIOUS
<1>3. Shelves(sh, ms)
  BY <1>2 DEF SchedInv
<1>4. Shelves(shards, metas)'
  BY <1>1, <1>2, <1>3, ShelvesFrame
<1>5. Known(metas, providers)'
  BY <1>1 DEF SchedInv, Known
<1>6. mixedCursors' \in [Models -> Slots] /\ mixedCredits' \in [Models -> Credits]
  BY <1>1, NoCreditsOK, AuthCount
<1> QED BY <1>1, <1>4, <1>5, <1>6 DEF SchedInv

(* A pick leaves the shards in order. *)
LEMMA PickKeeps ==
  ASSUME SchedInv, NEW r \in Requests, Pick(r)
  PROVE  SchedInv'
<1>1. PICK o : o = Serve(r)
  OBVIOUS
<1>2. /\ shards' = o.shards /\ mixedCursors' = o.cursors /\ mixedCredits' = o.credits
      /\ now' = now /\ strategy' = strategy /\ providers' = providers /\ metas' = metas
  BY <1>1 DEF Pick
<1>3. Orderly(o)
  BY <1>1, ServeAnswers
<1>4. PICK sh, ms : sh = o.shards /\ ms = metas
  OBVIOUS
<1>5. Shelves(sh, ms)
  BY <1>3, <1>4 DEF Orderly
<1>6. Shelves(shards, metas)'
  BY <1>2, <1>4, <1>5, ShelvesFrame
<1>7. Known(metas, providers)'
  BY <1>2 DEF SchedInv, Known
<1> QED BY <1>2, <1>3, <1>6, <1>7 DEF SchedInv, Orderly

(* When time passes, an entry as filed stays so or becomes overdue. *)
LEMMA TickKeeps ==
  ASSUME SchedInv, Tick
  PROVE  SchedInv'
<1>1. /\ now' = now + 1 /\ strategy' = strategy /\ providers' = providers /\ metas' = metas
      /\ shards' = shards /\ mixedCursors' = mixedCursors /\ mixedCredits' = mixedCredits
  BY DEF Tick
<1>2. now \in Nat /\ Known(metas, providers) /\ Shelves(shards, metas)
  BY DEF SchedInv
<1>3. ASSUME NEW a \in DOMAIN metas, NEW m \in Models, NEW entry,
             entry = Classify(metas[a], m) \/ Overdue(entry, metas[a].block[m])
      PROVE  (entry = Classify(metas[a], m) \/ Overdue(entry, metas[a].block[m]))'
  <2>1. PICK meta, b : meta = metas[a] /\ b = metas[a].block[m] /\ b = meta.block[m]
    OBVIOUS
  <2>2. /\ b.reason \in Reasons /\ b.until \in Nat
        /\ b.reason = "cooldown" => b.until > 0
        /\ b.reason = "disabled" => b.until = 0
    BY <1>2, <2>1, ProfileFacts DEF Known
  <2>3. metas'[a] = meta /\ metas'[a].block[m] = b
    BY <1>1, <2>1
  <2>4. CASE Overdue(entry, b)
    <3>1. Overdue(entry, b)'
      BY <1>1, <1>2, <2>2, <2>4 DEF Overdue
    <3> QED BY <2>3, <3>1
  <2>5. CASE entry = Classify(meta, m) /\ b.reason = "disabled"
    <3>1. Classify(meta, m) = [state |-> "disabled", next |-> 0]
      BY <1>2, <2>1, <2>2, <2>5 DEF Classify
    <3>2. Classify(meta, m)' = [state |-> "disabled", next |-> 0]
      BY <1>1, <1>2, <2>1, <2>2, <2>5 DEF Classify
    <3> QED BY <2>3, <2>5, <3>1, <3>2
  <2>6. CASE entry = Classify(meta, m) /\ b.reason # "disabled"
             /\ (b.reason = "none" \/ b.until \in 1 .. now)
    <3>1. Classify(meta, m) = [state |-> "ready", next |-> 0]
      BY <1>2, <2>1, <2>2, <2>6 DEF Classify
    <3>2. Classify(meta, m)' = [state |-> "ready", next |-> 0]
      BY <1>1, <1>2, <2>1, <2>2, <2>6 DEF Classify
    <3> QED BY <2>3, <2>6, <3>1, <3>2
  <2>7. CASE entry = Classify(meta, m) /\ b.reason = "cooldown" /\ b.until > now
    <3>1. entry = [state |-> "cooldown", next |-> b.until]
      BY <1>2, <2>1, <2>2, <2>7 DEF Classify
    <3>2. CASE b.until > now + 1
      <4>1. Classify(meta, m)' = [state |-> "cooldown", next |-> b.until]
        BY <1>1, <1>2, <2>1, <2>2, <2>7, <3>2 DEF Classify
      <4> QED BY <2>3, <3>1, <4>1
    <3>3. CASE ~(b.until > now + 1)
      <4>1. Overdue(entry, b)'
        BY <1>1, <1>2, <2>2, <2>7, <3>1, <3>3 DEF Overdue
      <4> QED BY <2>3, <4>1
    <3> QED BY <3>2, <3>3
  <2>8. CASE entry = Classify(meta, m) /\ b.reason = "other" /\ b.until \notin 1 .. now
    <3>1. entry = [state |-> "blocked", next |-> b.until]
      BY <1>2, <2>1, <2>2, <2>8 DEF Classify
    <3>2. CASE b.until \notin 1 .. now + 1
      <4>1. Classify(meta, m)' = [state |-> "blocked", next |-> b.until]
        BY <1>1, <1>2, <2>1, <2>2, <2>8, <3>2 DEF Classify
      <4> QED BY <2>3, <3>1, <4>1
    <3>3. CASE b.until \in 1 .. now + 1
      <4>1. Overdue(entry, b)'
        BY <1>1, <1>2, <2>2, <2>8, <3>1, <3>3 DEF Overdue
      <4> QED BY <2>3, <4>1
    <3> QED BY <3>2, <3>3
  <2>9. b.reason = "cooldown" => b.until \in 1 .. now \/ b.until > now
    BY <1>2, <2>2
  <2> QED BY <1>3, <2>1, <2>2, <2>4, <2>5, <2>6, <2>7, <2>8, <2>9 DEF Reasons
<1>4. Shelves(shards, metas)'
  <2>1. ASSUME NEW q \in Providers \X Models, NEW s, s = shards[q], s # NoShard
        PROVE  Kept(s, q[1], q[2], metas)'
    <3>1. Kept(s, q[1], q[2], metas) /\ q[2] \in Models
      BY <1>2, <2>1 DEF Shelves
    <3>2. Indexed(s, metas) /\ DOMAIN s.entries = Supported(q[1], q[2], metas)
      BY <3>1 DEF Kept
    <3>3. \A a \in DOMAIN s.entries : a \in DOMAIN metas
      BY <3>2 DEF Supported
    <3>4. ASSUME NEW a \in DOMAIN s.entries
          PROVE  (s.entries[a] = Classify(metas[a], q[2]) \/ Overdue(s.entries[a], metas[a].block[q[2]]))'
      <4>1. s.entries[a] = Classify(metas[a], q[2]) \/ Overdue(s.entries[a], metas[a].block[q[2]])
        BY <3>1 DEF Kept
      <4>2. PICK entry, m : entry = s.entries[a] /\ m = q[2]
        OBVIOUS
      <4>3. a \in DOMAIN metas /\ m \in Models
        BY <3>1, <3>3, <4>2
      <4> QED BY <1>3, <4>1, <4>2, <4>3
    <3> QED BY <1>1, <3>2, <3>4 DEF Kept
  <2> QED BY <1>1, <1>2, <2>1 DEF Shelves
<1>5. Known(metas, providers)'
  BY <1>1, <1>2 DEF Known
<1>6. now' \in 1 .. MaxTime
  BY <1>1, <1>2, SchedulerAssumption DEF Tick
<1> QED BY <1>1, <1>2, <1>4, <1>5, <1>6 DEF SchedInv, Slots

(* Every step of the scheduler keeps the invariant. *)
LEMMA SchedStep == SchedInv /\ [SchedulerNext]_vars => SchedInv'
<1> SUFFICES ASSUME SchedInv, [SchedulerNext]_vars PROVE SchedInv'
  OBVIOUS
<1>1. CASE \E a \in Auths : RemoveAuth(a) \/ \E profile \in Profiles[a] : UpsertAuth(a, profile)
  BY <1>1, RemoveAuthKeeps, UpsertAuthKeeps
<1>2. CASE Rebuild
  BY <1>2, RebuildKeeps
<1>3. CASE \E st \in Strategies : SetSelector(st)
  BY <1>3, SetSelectorKeeps
<1>4. CASE \E r \in Requests : Pick(r)
  BY <1>4, PickKeeps
<1>5. CASE Tick
  BY <1>5, TickKeeps
<1>6. CASE UNCHANGED vars
  <2>1. /\ now' = now /\ strategy' = strategy /\ providers' = providers /\ metas' = metas
        /\ shards' = shards /\ mixedCursors' = mixedCursors /\ mixedCredits' = mixedCredits
    BY <1>6 DEF vars
  <2>2. PICK sh, ms : sh = shards /\ ms = metas
    OBVIOUS
  <2>3. Shelves(sh, ms)
    BY <2>2 DEF SchedInv
  <2>4. Shelves(shards, metas)'
    BY <2>1, <2>2, <2>3, ShelvesFrame
  <2>5. Known(metas, providers)'
    BY <2>1 DEF SchedInv, Known
  <2> QED BY <2>1, <2>4, <2>5 DEF SchedInv
<1> QED BY <1>1, <1>2, <1>3, <1>4, <1>5, <1>6 DEF SchedulerNext

(* The scheduler is always in order. *)
LEMMA SchedulerInOrder == SchedulerSpec => []SchedInv
BY SchedStart, SchedStep, PTL DEF SchedulerSpec

(* For any credentials, profiles, providers, models and requests, and      *)
(* whatever was filed, changed, moved, removed and promoted before, a      *)
(* request gets one of the best credentials that are free, is refused only *)
(* when there is none, and the refusal says why and until when             *)
(* (pickSingleWithStrategy, pickMixedWithStrategy).                        *)
THEOREM PicksAreBest == SchedulerSpec => []PickIsBest
BY SchedulerInOrder, InvGivesBest, PTL

(* A cursor of a view points at most one past its end, the cursor of a     *)
(* route at most one past all credentials, credits are held only for       *)
(* credentials of the view, and a shard holds known credentials only,      *)
(* whatever was filed, removed and rebuilt between the picks               *)
(* (restoreReadyViewCursors, pickRoundRobin, pickMixedWithStrategy).       *)
THEOREM SchedulerTypeCorrect == SchedulerSpec => []SchedulerTypeOK
<1>1. SchedInv => SchedulerTypeOK
  <2> SUFFICES ASSUME SchedInv PROVE SchedulerTypeOK
    OBVIOUS
  <2>1. \A v \in Views : ViewOK(v)
    BY DEF Views, AnyViews, ViewOK, Range
  <2>2. ASSUME NEW q \in Providers \X Models, NEW s, s = shards[q]
        PROVE  /\ DOMAIN s.entries \subseteq DOMAIN metas
               /\ \A p \in DOMAIN s.ready : ViewOK(s.ready[p].all) /\ ViewOK(s.ready[p].ws)
    <3>1. s = NoShard \/ Kept(s, q[1], q[2], metas)
      BY <2>2 DEF SchedInv, Shelves
    <3>2. DOMAIN s.entries \subseteq DOMAIN metas
      BY <3>1 DEF NoShard, Kept, Supported
    <3>3. Shelved(s)
      BY <3>1, NoShardIsShelved, IndexedIsShelved DEF Kept
    <3> QED BY <2>1, <3>2, <3>3 DEF Shelved
  <2>3. DOMAIN shards = Providers \X Models
    BY DEF SchedInv, Shelves
  <2>4. /\ now \in 1 .. MaxTime /\ strategy \in Strategies /\ providers \subseteq Providers
        /\ DOMAIN metas \subseteq Auths
        /\ \A a \in DOMAIN metas : metas[a] \in Profiles[a] /\ metas[a].provider \in providers
        /\ \A m \in Models : mixedCursors[m] \in 0 .. Cardinality(Auths)
    BY DEF SchedInv, Known, Slots
  <2> QED BY <2>2, <2>3, <2>4 DEF SchedulerTypeOK
<1> QED BY <1>1, SchedulerInOrder, PTL

-----------------------------------------------------------------------------
(* The record of which the manager hands the scheduler a copy *)

(* The instance's two models are a finite set. *)
LEMMA CopyModelsFinite == Copy!IsFiniteSet({m1, m2})
<1>1. IsFiniteSet({m1, m2})
  BY FS_EmptySet, FS_AddElement, {m1, m2} = ({} \cup {m1}) \cup {m2}
<1> QED
  BY <1>1 DEF IsFiniteSet, Copy!IsFiniteSet

(* The instance is one CredentialCooldown is about. *)
LEMMA CopyIsInstance == Copy!CooldownAssumption
BY CopyAssumption, CopyModelsFinite DEF Copy!CooldownAssumption

(* The record moves as CredentialCooldown says, or not at all. *)
LEMMA CopyMoves ==
  ASSUME [MCNext]_<<vars, copyVars, part>>
  PROVE  [Copy!CooldownNext]_Copy!vars
<1>1. CASE UNCHANGED copyVars
  BY <1>1 DEF copyVars, Copy!vars
<1>2. CASE Copy!CooldownNext
  BY <1>2
<1> QED
  BY <1>1, <1>2 DEF MCNext

(* The invariant of CredentialCooldown, here. *)
LEMMA CopyCools == MCSpec => []Copy!CoolInv
<1>1. MCInit => Copy!CoolInv
  BY CopyIsInstance, Copy!CoolInitially DEF MCInit
<1>2. Copy!CoolInv /\ [MCNext]_<<vars, copyVars, part>> => Copy!CoolInv'
  BY CopyIsInstance, CopyMoves, Copy!CoolAlways
<1> QED
  BY <1>1, <1>2, PTL DEF MCSpec

(* A burst of quota failures (quotaCooldownAfterFailure) climbs one rung   *)
(* of the backoff per window, here, where neither Cloudflare answers nor   *)
(* configuration changes are among the operations.                         *)
THEOREM CopyLadderNeedsTime == MCSpec => []LadderNeedsTimeAlone
<1>1. MCInit => Copy!Climbing
  BY CopyIsInstance, Copy!ClimbInitially DEF MCInit
<1>2. Copy!CoolInv /\ Copy!Climbing /\ [MCNext]_<<vars, copyVars, part>> => Copy!Climbing'
  BY CopyIsInstance, CopyMoves, Copy!ClimbAlways
<1>3. Copy!Climbing => LadderNeedsTimeAlone
  BY CopyIsInstance, Copy!ClimbTakesTime DEF LadderNeedsTimeAlone
<1> QED
  BY <1>1, <1>2, <1>3, CopyCools, PTL DEF MCSpec

(* The scheduler's copy of a credential (upsertAuth) leads to the same     *)
(* routing decision as the manager's record once no operation is under     *)
(* way, here, where one goroutine runs the operations.                     *)
THEOREM CopySchedulerAgrees == MCSpec => []SchedulerAgreesAlone
<1>1. MCInit => Copy!Following
  BY CopyIsInstance, Copy!FollowInitially DEF MCInit
<1>2. Copy!CoolInv /\ Copy!Following /\ [MCNext]_<<vars, copyVars, part>> => Copy!Following'
  BY CopyIsInstance, CopyMoves, Copy!FollowAlways
<1>3. Copy!CoolInv /\ Copy!Following => SchedulerAgreesAlone
  BY CopyIsInstance, Copy!FollowerAgrees DEF SchedulerAgreesAlone
<1> QED
  BY <1>1, <1>2, <1>3, CopyCools, PTL DEF MCSpec

=============================================================================
