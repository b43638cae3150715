--------------------------- MODULE SatSolverProofs ---------------------------
(***************************************************************************)
(* Proofs about the clause-learning solver, for any number of variables,   *)
(* any formulas, lemmas and limits: its types, that every reason stays in  *)
(* force, that propagation misses nothing, that answers are right, and     *)
(* that the proof it logs checks.                                          *)
(*                                                                         *)
(* One inductive invariant, Inv, gives the first four.  Its parts are      *)
(* operators of clauses, watches and a trail, so that what attaching a     *)
(* clause, an assignment, a jump back or a renumbering does to each is a   *)
(* lemma of its own, and the proof of a step puts these together.  The     *)
(* last one needs another, ProofInv, which holds on top of it: the         *)
(* checker holds a copy of every clause the solver relies on.              *)
(***************************************************************************)
EXTENDS SatSolver, TLAPS, FiniteSetTheorems, SequenceTheorems, WellFoundedInduction

-----------------------------------------------------------------------------
(* Numbers and sequences. *)

\* Every non-empty set of natural numbers has a least.
LEMMA LeastNat ==
  ASSUME NEW S \in SUBSET Nat, S # {}
  PROVE  \E n \in S : \A m \in S : n <= m
  <1> DEFINE R == {s \in Nat \X Nat : s[1] < s[2]}
  <1>1. IsWellFoundedOn(OpToRel(<, Nat), Nat)
    BY NatLessThanWellFounded
  <1>2. OpToRel(<, Nat) = R
    BY DEF OpToRel
  <1>3. IsWellFoundedOn(R, Nat)
    BY <1>1, <1>2
  <1>4. \E x \in S : \A y \in S : ~ (<<y, x>> \in R)
    BY <1>3, WFMin
  <1>5. PICK n \in S : \A m \in S : <<m, n>> \notin R
    BY <1>4
  <1>6. ASSUME NEW m \in S PROVE n <= m
    <2>1. <<m, n>> \in Nat \X Nat /\ <<m, n>>[1] = m /\ <<m, n>>[2] = n
      OBVIOUS
    <2>2. ~ (m < n)
      BY <1>5, <2>1
    <2> QED BY <2>2
  <1> QED BY <1>6

\* The greatest of a bounded set of natural numbers, and the least of any.
LEMMA MaxIs ==
  ASSUME NEW n \in Nat, NEW S \in SUBSET (0 .. n), S # {}
  PROVE  Max(S) \in S /\ \A x \in S : x <= Max(S)
  <1> DEFINE D == {k \in Nat : n - k \in S}
  <1>1. D # {}
    <2>1. PICK x \in S : TRUE
      OBVIOUS
    <2>2. x \in Int /\ n - x \in Nat /\ n - (n - x) = x
      BY <2>1
    <2> QED BY <2>1, <2>2
  <1>2. PICK k \in D : \A m \in D : k <= m
    BY <1>1, LeastNat
  <1>3. n - k \in S /\ \A x \in S : n - k >= x
    <2>1. ASSUME NEW x \in S PROVE n - k >= x
      <3>1. x \in 0 .. n /\ n - x \in Nat /\ n - (n - x) = x
        OBVIOUS
      <3>2. n - x \in D
        BY <3>1
      <3>3. k <= n - x
        BY <1>2, <3>2
      <3> QED BY <3>1, <3>3
    <2> QED BY <2>1
  <1> DEFINE mx == CHOOSE x \in S : \A y \in S : x >= y
  <1>4. mx \in S /\ \A y \in S : mx >= y
    BY <1>3
  <1>5. Max(S) = mx
    BY DEF Max
  <1>6. \A x \in S : x \in Int
    OBVIOUS
  <1> QED BY <1>4, <1>5, <1>6
LEMMA MinIs ==
  ASSUME NEW S \in SUBSET Nat, S # {}
  PROVE  Min(S) \in S /\ \A x \in S : Min(S) <= x
  <1>1. \E x \in S : \A y \in S : x =< y
    BY LeastNat
  <1> QED BY <1>1 DEF Min

\* The numbers of a set in order: each of them once.
LEMMA InOrderIs ==
  ASSUME NEW S \in SUBSET Int, IsFiniteSet(S)
  PROVE  /\ Cardinality(S) \in Nat
         /\ InOrder(S) \in [1 .. Cardinality(S) -> S]
         /\ \A i, j \in 1 .. Cardinality(S) : InOrder(S)[i] = InOrder(S)[j] => i = j
         /\ \A x \in S : /\ Cardinality({y \in S : y <= x}) \in 1 .. Cardinality(S)
                         /\ InOrder(S)[Cardinality({y \in S : y <= x})] = x
  <1> DEFINE n == Cardinality(S)
             Below(x) == {y \in S : y <= x}
             rank == [x \in S |-> Cardinality(Below(x))]
  <1>1. n \in Nat
    BY FS_CardinalityType
  <1>2. ASSUME NEW x \in S PROVE /\ IsFiniteSet(Below(x)) /\ rank[x] \in 1 .. n
                                 /\ rank[x] = Cardinality(Below(x))
    <2>1. Below(x) \in SUBSET S /\ x \in Below(x)
      OBVIOUS
    <2>2. IsFiniteSet(Below(x)) /\ Cardinality(Below(x)) <= n
      BY <2>1, FS_Subset
    <2>3. Cardinality(Below(x)) \in Nat /\ Cardinality(Below(x)) # 0
      BY <2>1, <2>2, FS_CardinalityType, FS_EmptySet
    <2> QED BY <2>2, <2>3, <1>1
  <1>3. ASSUME NEW x \in S, NEW z \in S, x < z PROVE rank[x] # rank[z]
    <2>1. Below(x) \in SUBSET Below(z)
      <3>1. ASSUME NEW y \in S, y <= x PROVE y <= z
        BY <3>1, <1>3
      <3> QED BY <3>1
    <2>4. z \in Below(z) /\ z \notin Below(x)
      BY <1>3
    <2>2. Below(x) # Below(z)
      BY <2>4
    <2>3. Cardinality(Below(z)) # Cardinality(Below(x))
      BY <2>1, <2>2, <1>2, FS_Subset
    <2> QED BY <2>3, <1>2
  <1>4. \A x, z \in S : rank[x] = rank[z] => x = z
    <2>1. SUFFICES ASSUME NEW x \in S, NEW z \in S, rank[x] = rank[z], x # z PROVE FALSE
      OBVIOUS
    <2>2. x < z \/ z < x
      BY <2>1
    <2> QED BY <2>1, <2>2, <1>3
  <1>5. rank \in [S -> 1 .. n]
    BY <1>2
  <1> HIDE DEF rank
  <1>6. rank \in Injection(S, 1 .. n)
    BY <1>4, <1>5 DEF Injection, IsInjective
  <1>7. IsFiniteSet(1 .. n) /\ Cardinality(1 .. n) = n
    BY <1>1, FS_Interval
  <1>8. rank \in Surjection(S, 1 .. n)
    BY <1>6, <1>7, FS_Injection
  <1>9. \A i \in 1 .. n : \E x \in S : rank[x] = i
    BY <1>8 DEF Surjection
  <1>10. \A i \in 1 .. n : InOrder(S)[i] = CHOOSE x \in S : Cardinality(Below(x)) = i
    BY DEF InOrder
  <1>11. ASSUME NEW i \in 1 .. n PROVE InOrder(S)[i] \in S /\ rank[InOrder(S)[i]] = i
    <2>1. \E x \in S : Cardinality(Below(x)) = i
      BY <1>9, <1>2
    <2>2. InOrder(S)[i] \in S /\ Cardinality(Below(InOrder(S)[i])) = i
      BY <2>1, <1>10
    <2> QED BY <2>2, <1>2
  <1>12. InOrder(S) \in [1 .. n -> S]
    <2>1. InOrder(S) = [i \in 1 .. n |-> InOrder(S)[i]]
      BY DEF InOrder
    <2> QED BY <2>1, <1>11
  <1>13. ASSUME NEW x \in S PROVE InOrder(S)[rank[x]] = x
    BY <1>2, <1>4, <1>11
  <1> QED BY <1>1, <1>2, <1>11, <1>12, <1>13

Upto(K, k) == {j \in K : j <= k}
\* What a sequence has at some of its places, in their order.
LEMMA OnlyIs ==
  ASSUME NEW T, NEW s \in Seq(T), NEW K \in SUBSET DOMAIN s
  PROVE  /\ Cardinality(K) \in Nat /\ Only(s, K) \in Seq(T) /\ Len(Only(s, K)) = Cardinality(K)
         /\ DOMAIN Only(s, K) = 1 .. Cardinality(K)
         /\ InOrder(K) \in [1 .. Cardinality(K) -> K]
         /\ \A i \in 1 .. Cardinality(K) : Only(s, K)[i] = s[InOrder(K)[i]]
         /\ \A i, j \in 1 .. Cardinality(K) : InOrder(K)[i] = InOrder(K)[j] => i = j
         /\ \A k \in K : Cardinality(Upto(K, k)) \in 1 .. Cardinality(K) /\ InOrder(K)[Cardinality(Upto(K, k))] = k
  <1>1. Len(s) \in Nat /\ DOMAIN s = 1 .. Len(s) /\ \A i \in 1 .. Len(s) : s[i] \in T
    BY LenProperties
  <1>2. IsFiniteSet(1 .. Len(s))
    BY <1>1, FS_Interval
  <1>3. K \in SUBSET (1 .. Len(s)) /\ IsFiniteSet(K) /\ K \in SUBSET Int
    BY <1>1, <1>2, FS_Subset
  <1> DEFINE n == Cardinality(K)
             o == InOrder(K)
  <1>4. /\ n \in Nat /\ o \in [1 .. n -> K]
        /\ \A i, j \in 1 .. n : o[i] = o[j] => i = j
        /\ \A x \in K : /\ Cardinality({y \in K : y <= x}) \in 1 .. n
                         /\ o[Cardinality({y \in K : y <= x})] = x
    BY <1>3, InOrderIs
  <1>5. Only(s, K) = [i \in 1 .. n |-> s[o[i]]]
    BY DEF Only
  <1> HIDE DEF n, o
  <1>6. \A i \in 1 .. n : s[o[i]] \in T
    BY <1>1, <1>3, <1>4
  <1>7. Only(s, K) \in [1 .. n -> T]
    BY <1>5, <1>6
  <1>8. Only(s, K) \in Seq(T) /\ Len(Only(s, K)) = n
    BY <1>4, <1>7
  <1> QED BY <1>4, <1>5, <1>8 DEF n, o, Upto

\* A set as a sequence: each element once.
LEMMA SetToSeqIs ==
  ASSUME NEW S, IsFiniteSet(S)
  PROVE  /\ Cardinality(S) \in Nat
         /\ SetToSeq(S) \in [1 .. Cardinality(S) -> S]
         /\ SetToSeq(S) \in Seq(S) /\ Len(SetToSeq(S)) = Cardinality(S)
         /\ \A i, j \in 1 .. Cardinality(S) : SetToSeq(S)[i] = SetToSeq(S)[j] => i = j
         /\ \A x \in S : \E i \in 1 .. Cardinality(S) : SetToSeq(S)[i] = x
  <1> DEFINE n == Cardinality(S)
             f == SetToSeq(S)
  <1>1. n \in Nat /\ ExistsBijection(1 .. n, S)
    BY FS_CardinalityType
  <1>2. \E g \in [1 .. n -> S] : IsInjective(g)
    BY <1>1 DEF ExistsBijection, Bijection, Injection
  <1>3. f \in [1 .. n -> S] /\ IsInjective(f)
    BY <1>2 DEF SetToSeq
  <1> HIDE DEF f
  <1>4. \A i, j \in 1 .. n : f[i] = f[j] => i = j
    BY <1>3 DEF IsInjective
  <1>5. f \in Injection(1 .. n, S)
    BY <1>3 DEF Injection
  <1>6. IsFiniteSet(1 .. n) /\ Cardinality(1 .. n) = n
    BY <1>1, FS_Interval
  <1>7. f \in Surjection(1 .. n, S)
    BY <1>5, <1>6, FS_Injection
  <1>8. \A x \in S : \E i \in 1 .. n : f[i] = x
    BY <1>7 DEF Surjection
  <1>9. f \in Seq(S) /\ Len(f) = n
    BY <1>1, <1>3
  <1> QED BY <1>1, <1>3, <1>4, <1>8, <1>9 DEF f
-----------------------------------------------------------------------------
(* Literals and the sequences of a clause. *)

LEMMA LitFacts ==
  ASSUME NEW l \in Lits
  PROVE  /\ l \in Int /\ l # 0 /\ -l \in Lits /\ -(-l) = l /\ l # -l
         /\ Var(l) \in Vars /\ Var(l) \in Lits /\ Var(-l) = Var(l)
  <1>1. \/ l \in Vars
        \/ \E v \in Vars : l = -v
    BY DEF Lits
  <1>2. CASE l \in Vars
    BY <1>2, VarsAssumption DEF Lits, Vars, Var
  <1>3. ASSUME NEW v \in Vars, l = -v PROVE /\ l \in Int /\ l # 0 /\ -l = v /\ -(-l) = l /\ l # -l
                                            /\ Var(l) = v /\ Var(v) = v
    BY <1>3, VarsAssumption DEF Vars, Var
  <1>4. \A v \in Vars : v \in Lits
    BY DEF Lits
  <1> QED BY <1>1, <1>2, <1>3, <1>4
LEMMA SameVar ==
  ASSUME NEW l \in Lits, NEW m \in Lits, Var(l) = Var(m)
  PROVE  l = m \/ l = -m
  <1>1. l \in Int /\ m \in Int
    BY LitFacts
  <1> QED BY <1>1 DEF Var
LEMMA LitsFinite ==
  /\ IsFiniteSet(Lits) /\ IsFiniteSet(Vars)
  /\ \A c \in SUBSET Lits : IsFiniteSet(c) /\ Cardinality(c) \in Nat
  <1>1. IsFiniteSet(Vars)
    BY VarsAssumption, FS_Interval DEF Vars
  <1> DEFINE neg == [v \in Vars |-> -v]
             N == {-v : v \in Vars}
  <1>2. neg \in Surjection(Vars, N)
    BY DEF Surjection
  <1>3. IsFiniteSet(N)
    BY <1>1, <1>2, FS_Surjection
  <1>4. IsFiniteSet(Lits)
    BY <1>1, <1>3, FS_Union DEF Lits
  <1> QED BY <1>1, <1>4, FS_Subset, FS_CardinalityType

Elements(s) == {s[i] : i \in DOMAIN s}
Distinct(s) == \A i, j \in DOMAIN s : s[i] = s[j] => i = j

\* A sequence that is another in a different order.
Reordered(t, s, T) ==
  /\ t \in Seq(T) /\ Len(t) = Len(s) /\ Elements(t) = Elements(s)
  /\ Distinct(s) => Distinct(t)

LEMMA SwapIs ==
  ASSUME NEW T, NEW s \in Seq(T), NEW i \in DOMAIN s, NEW j \in DOMAIN s
  PROVE  /\ Reordered(Swap(s, i, j), s, T) /\ DOMAIN Swap(s, i, j) = DOMAIN s
         /\ Swap(s, i, j)[i] = s[j] /\ Swap(s, i, j)[j] = s[i]
         /\ \A k \in DOMAIN s \ {i, j} : Swap(s, i, j)[k] = s[k]
  <1> DEFINE t == Swap(s, i, j)
  <1>1. Len(s) \in Nat /\ DOMAIN s = 1 .. Len(s) /\ s \in [1 .. Len(s) -> T]
    BY LenProperties
  <1>2. t = [s EXCEPT ![i] = s[j], ![j] = s[i]]
    BY DEF Swap
  <1>3. DOMAIN t = DOMAIN s /\ t \in [1 .. Len(s) -> T]
    BY <1>1, <1>2
  <1>4. \A k \in DOMAIN s : t[k] = IF k = j THEN s[i] ELSE IF k = i THEN s[j] ELSE s[k]
    BY <1>2
  <1> HIDE DEF t
  <1>5. t \in Seq(T) /\ Len(t) = Len(s)
    BY <1>1, <1>3
  <1>6. Elements(t) = Elements(s)
    <2>1. ASSUME NEW k \in DOMAIN s PROVE \E n \in DOMAIN s : t[k] = s[n]
      BY <1>4
    <2>2. ASSUME NEW k \in DOMAIN s PROVE \E n \in DOMAIN s : s[k] = t[n]
      BY <1>4
    <2>3. \A x : x \in Elements(s) <=> \E n \in DOMAIN s : x = s[n]
      BY DEF Elements
    <2>4. \A x : x \in Elements(t) <=> \E n \in DOMAIN t : x = t[n]
      BY DEF Elements
    <2>5. \A x : x \in Elements(t) <=> x \in Elements(s)
      BY <2>1, <2>2, <2>3, <2>4, <1>3
    <2> QED BY <2>5
  <1>7. Distinct(s) => Distinct(t)
    BY <1>3, <1>4 DEF Distinct
  <1> QED BY <1>3, <1>4, <1>5, <1>6, <1>7 DEF Reordered, t

LEMMA BroughtIs ==
  ASSUME NEW T, NEW s \in Seq(T), NEW place \in Nat \ {0}, NEW l
  PROVE  Reordered(Brought(s, place, l), s, T)
  <1> DEFINE at == {i \in place .. Len(s) : s[i] = l}
  <1>1. Len(s) \in Nat /\ DOMAIN s = 1 .. Len(s)
    BY LenProperties
  <1>2. CASE at = {}
    BY <1>2 DEF Brought, Reordered
  <1>3. CASE at # {}
    <2>1. at \in SUBSET Nat
      BY <1>1
    <2>2. Min(at) \in at
      BY <1>3, <2>1, MinIs
    <2>3. Min(at) \in DOMAIN s /\ place \in DOMAIN s
      BY <2>2, <1>1
    <2>4. Brought(s, place, l) = Swap(s, place, Min(at))
      BY <1>3 DEF Brought
    <2> QED BY <2>3, <2>4, SwapIs
  <1> QED BY <1>2, <1>3

LEMMA SortedIs ==
  ASSUME NEW c \in SUBSET Lits, ~Tautology(c)
  PROVE  /\ Sorted(c) \in Seq(Lits) /\ Len(Sorted(c)) = Cardinality(c)
         /\ Elements(Sorted(c)) = c /\ Distinct(Sorted(c))
  <1> DEFINE vs == {Var(l) : l \in c}
             n == Cardinality(vs)
             o == InOrder(vs)
             t == Sorted(c)
             var == [l \in c |-> Var(l)]
             It(v) == IF v \in c THEN v ELSE -v
  <1>1. \A l \in c : Var(l) \in vs /\ Var(l) \in Vars /\ l \in Lits
    BY LitFacts
  <1>2. \A l \in c : It(Var(l)) = l
    <2>1. SUFFICES ASSUME NEW l \in c PROVE It(Var(l)) = l
      OBVIOUS
    <2>2. l \in Int /\ -(-l) = l /\ l # 0
      BY LitFacts
    <2>3. -l \notin c
      BY DEF Tautology
    <2>4. CASE l > 0
      BY <2>2, <2>4 DEF Var
    <2>5. CASE ~ (l > 0)
      <3>1. Var(l) = -l
        BY <2>5 DEF Var
      <3> QED BY <3>1, <2>2, <2>3
    <2> QED BY <2>4, <2>5
  <1>3. IsFiniteSet(c) /\ Cardinality(c) \in Nat
    BY LitsFinite
  <1>4. var \in Surjection(c, vs)
    BY DEF Surjection
  <1>5. var \in Injection(c, vs)
    BY <1>2, <1>4 DEF Surjection, Injection, IsInjective
  <1>6. IsFiniteSet(vs) /\ n = Cardinality(c)
    BY <1>3, <1>4, <1>5, FS_Surjection
  <1>7. vs \in SUBSET Int
    BY <1>1, VarsAssumption DEF Vars
  <1>8. /\ n \in Nat /\ o \in [1 .. n -> vs]
        /\ \A i, j \in 1 .. n : o[i] = o[j] => i = j
        /\ \A x \in vs : \E i \in 1 .. n : o[i] = x
    BY <1>6, <1>7, InOrderIs
  <1>9. t = [i \in 1 .. n |-> It(o[i])]
    <2>1. t = [i \in DOMAIN o |-> It(o[i])]
      BY DEF Sorted
    <2> QED BY <2>1, <1>8
  <1>10. \A v \in vs : It(v) \in c /\ Var(It(v)) = v
    BY <1>2
  <1> HIDE DEF vs, o, n, t, It
  <1>11. \A i \in 1 .. n : o[i] \in vs /\ t[i] = It(o[i])
    BY <1>8, <1>9
  <1>12. t \in [1 .. n -> c]
    BY <1>9, <1>10, <1>11
  <1>13. t \in [1 .. n -> Lits]
    BY <1>12
  <1>14. t \in Seq(Lits) /\ Len(t) = n /\ DOMAIN t = 1 .. n
    BY <1>8, <1>13
  <1>15. \A l \in c : \E i \in 1 .. n : t[i] = l
    BY <1>1, <1>2, <1>8, <1>11
  <1>16. Elements(t) = c
    BY <1>12, <1>14, <1>15 DEF Elements
  <1>17. Distinct(t)
    <2>1. SUFFICES ASSUME NEW i \in 1 .. n, NEW j \in 1 .. n, t[i] = t[j] PROVE i = j
      BY <1>14 DEF Distinct
    <2>2. o[i] = o[j]
      BY <2>1, <1>10, <1>11
    <2> QED BY <2>2, <1>8
  <1> QED BY <1>6, <1>14, <1>16, <1>17 DEF t

LEMMA WatchedIs ==
  ASSUME NEW c \in SUBSET Lits, ~Tautology(c), NEW hint
  PROVE  /\ Watched(c, hint) \in Seq(Lits) /\ Len(Watched(c, hint)) = Cardinality(c)
         /\ Elements(Watched(c, hint)) = c /\ Distinct(Watched(c, hint))
  <1> DEFINE s == Sorted(c)
             place == IF hint[1] \in c THEN 2 ELSE 1
             t == Brought(s, 1, hint[1])
             u == Brought(t, place, hint[2])
  <1>1. /\ s \in Seq(Lits) /\ Len(s) = Cardinality(c)
        /\ Elements(s) = c /\ Distinct(s)
    BY SortedIs
  <1>2. CASE hint = <<>>
    BY <1>1, <1>2 DEF Watched
  <1>3. CASE hint # <<>>
    <2>1. Reordered(t, s, Lits)
      BY <1>1, BroughtIs
    <2>2. t \in Seq(Lits)
      BY <2>1 DEF Reordered
    <2>3. Reordered(u, t, Lits)
      BY <2>2, BroughtIs
    <2>4. Watched(c, hint) = u
      BY <1>3 DEF Watched
    <2> HIDE DEF s, t, u
    <2> QED BY <1>1, <2>1, <2>3, <2>4 DEF Reordered
  <1> QED BY <1>2, <1>3
-----------------------------------------------------------------------------
(* The parts of the inductive invariant, of clauses cs, watches ws, a trail *)
(* tr and the lengths lm it had at the decisions.                            *)

ClauseType == [lits : Seq(Lits), learnt : BOOLEAN, glue : BOOLEAN, deleted : BOOLEAN]
WatchType == [clause : Nat, blocker : Lits]
StepType == [lit : Lits, reason : Nat]

\* A clause has two literals or more, each once; a binary one is glue, which stays.
Proper(c) ==
  /\ c \in ClauseType /\ Len(c.lits) >= 2 /\ Distinct(c.lits)
  /\ Long(c) \/ c.glue
  /\ c.glue => ~c.deleted
ClausesOK(cs) == cs \in Seq(ClauseType) /\ \A id \in DOMAIN cs : Proper(cs[id])

\* A variable is assigned once.
TrailOK(tr, lm) ==
  /\ tr \in Seq(StepType) /\ lm \in Seq(Nat)
  /\ \A i, j \in DOMAIN tr : Var(tr[i].lit) = Var(tr[j].lit) => i = j
  /\ \A k \in DOMAIN lm : lm[k] <= Len(tr)
  /\ \A j, k \in DOMAIN lm : j <= k => lm[j] <= lm[k]

Because(cs, tr, i) ==
  /\ tr[i].reason \in DOMAIN cs /\ ~cs[tr[i].reason].deleted
  /\ tr[i].lit \in LitsOf(cs[tr[i].reason])
  /\ \A q \in LitsOf(cs[tr[i].reason]) : q = tr[i].lit \/ \E k \in 1 .. i - 1 : q = -tr[k].lit
  /\ Long(cs[tr[i].reason]) => cs[tr[i].reason].lits[1] = tr[i].lit
ReasonsOK(cs, tr) == \A i \in DOMAIN tr : tr[i].reason # None => Because(cs, tr, i)

\* A watch of p is one of a clause that has -p first or second, and a binary clause's
\* blocker is the other of the two.
Pair(c) == {c.lits[1], c.lits[2]}
Fits(cs, p, w) ==
  /\ w.clause \in DOMAIN cs
  /\ w.blocker \in LitsOf(cs[w.clause])
  /\ ~cs[w.clause].deleted => -p \in Pair(cs[w.clause])
  /\ ~Long(cs[w.clause]) => w.blocker # -p
Once(s) == \A i, j \in DOMAIN s : s[i].clause = s[j].clause => i = j
Has(s, id) == \E i \in DOMAIN s : s[i].clause = id
ListOK(cs, p, s) == s \in Seq(WatchType) /\ (\A i \in DOMAIN s : Fits(cs, p, s[i])) /\ Once(s)
WatchesOK(cs, ws) == DOMAIN ws = Lits /\ ws = [l \in Lits |-> ws[l]] /\ \A p \in Lits : ListOK(cs, p, ws[p])

\* The watches still to be visited are none of those already looked at, and both watched
\* literals of a clause have a watch.
Apart(s, vis) == \A i \in DOMAIN vis : ~Has(s, vis[i].clause)
VisitOK(cs, ws, p, vis) == ListOK(cs, p, vis) /\ Apart(ws[p], vis)
Complete(cs, ws, p, vis) ==
  \A id \in DOMAIN cs : ~cs[id].deleted =>
    \A l \in Pair(cs[id]) : Has(ws[-l], id) \/ (p = -l /\ Has(vis, id))

\* Decisions are made when everything was propagated.
HeadOK(tr, lm, q, vis, cf) ==
  /\ q \in Nat /\ q <= Len(tr)
  /\ \A k \in DOMAIN lm : lm[k] <= q
  /\ vis # <<>> => q > 0 /\ cf = None /\ \A k \in DOMAIN lm : lm[k] < q

\* All literals of the clause in conflict are false, and one of the last level.
ConflictOK(cs, tr, lm, cf) ==
  cf # None =>
    /\ cf \in DOMAIN cs /\ ~cs[cf].deleted
    /\ \A x \in LitsOf(cs[cf]) : \E k \in DOMAIN tr : x = -tr[k].lit
    /\ \E k \in DOMAIN tr : -tr[k].lit \in LitsOf(cs[cf]) /\ \A n \in DOMAIN lm : lm[n] < k

\* Only decisions and what is known at the top level have no reason.
DecisionsOK(tr, lm) ==
  \A i \in DOMAIN tr :
    tr[i].reason = None => lm = <<>> \/ i <= lm[1] \/ \E k \in DOMAIN lm : i = lm[k] + 1

\* When a watched literal was found false, another literal of the clause is true, assigned
\* at no later level: it stays as long as the other stays false.
Covered(c, tr, lm, i) ==
  \E b \in DOMAIN tr : tr[b].lit \in LitsOf(c) /\ \A k \in DOMAIN lm : i <= lm[k] => b <= lm[k]
Caught(cs, tr, lm, q, vis) ==
  \A id \in DOMAIN cs : ~cs[id].deleted =>
    \A i \in DOMAIN tr : -tr[i].lit \in Pair(cs[id]) /\ i <= q /\ (i # q \/ ~Has(vis, id)) =>
      Covered(cs[id], tr, lm, i)
\* After a conflict only what was assigned before the last decision is known to be found.
SafeHead(q, lm, cf) == IF cf = None THEN q ELSE IF lm = <<>> THEN 0 ELSE lm[Len(lm)]

\* A model of the premises satisfies the clauses and has what is assigned at the top level.
Holds(m, l) == IF l > 0 THEN l \in m ELSE -l \notin m
Fulfils(m, P) == \A c \in P : Satisfies(m, c)
TopLevel(lm, i) == \A k \in DOMAIN lm : i <= lm[k]
Agrees(m, cs, tr, lm) ==
  /\ \A id \in DOMAIN cs : Satisfies(m, LitsOf(cs[id]))
  /\ \A i \in DOMAIN tr : TopLevel(lm, i) => Holds(m, tr[i].lit)

\* A premise is kept as a clause of a part of it, unless it holds at the top level.
Kept1(c, cs, tr, lm) ==
  \/ Tautology(c)
  \/ \E i \in DOMAIN tr : tr[i].lit \in c /\ TopLevel(lm, i)
  \/ \E id \in DOMAIN cs : cs[id].glue /\ LitsOf(cs[id]) \subseteq c
AllKept(P, cs, tr, lm) == \A c \in P : Kept1(c, cs, tr, lm)

-----------------------------------------------------------------------------
(* Going back to a level. *)

CutOf(tr, lm, n) == IF Len(lm) <= n THEN Len(tr) ELSE lm[n + 1]
Backed(t, m, h, tr, lm, q) ==
  /\ t \in Seq(StepType) /\ m \in Seq(Nat) /\ h \in Nat
  /\ Len(t) <= Len(tr) /\ \A i \in 1 .. Len(t) : t[i] = tr[i]
  /\ Len(m) <= Len(lm) /\ \A k \in 1 .. Len(m) : m[k] = lm[k] /\ m[k] <= Len(t)
  /\ \/ m = lm /\ t = tr /\ h = q
     \/ Len(m) < Len(lm) /\ Len(t) = lm[Len(m) + 1] /\ h = Len(t)

LEMMA BackedHolds ==
  ASSUME NEW tr, NEW lm, TrailOK(tr, lm), NEW q \in Nat, NEW n \in Nat
  PROVE  Backed(SubSeq(tr, 1, CutOf(tr, lm, n)), IF Len(lm) <= n THEN lm ELSE SubSeq(lm, 1, n),
                IF Len(lm) <= n THEN q ELSE CutOf(tr, lm, n), tr, lm, q)
  <1> DEFINE c == CutOf(tr, lm, n)
             t == SubSeq(tr, 1, c)
             m == IF Len(lm) <= n THEN lm ELSE SubSeq(lm, 1, n)
  <1>1. /\ tr \in Seq(StepType) /\ lm \in Seq(Nat)
        /\ \A k \in DOMAIN lm : lm[k] <= Len(tr)
        /\ \A j, k \in DOMAIN lm : j <= k => lm[j] <= lm[k]
    BY DEF TrailOK
  <1>2. /\ Len(tr) \in Nat /\ DOMAIN tr = 1 .. Len(tr) /\ \A i \in 1 .. Len(tr) : tr[i] \in StepType
        /\ Len(lm) \in Nat /\ DOMAIN lm = 1 .. Len(lm) /\ \A i \in 1 .. Len(lm) : lm[i] \in Nat
    BY <1>1, LenProperties, ElementOfSeq
  <1>3. CASE Len(lm) <= n
    <2>1. c = Len(tr) /\ m = lm
      BY <1>3 DEF CutOf
    <2>2. t = tr
      BY <2>1, <1>1, SubSeqFull
    <2>3. \A k \in 1 .. Len(lm) : lm[k] <= Len(tr)
      BY <1>1, <1>2
    <2>4. Backed(tr, lm, q, tr, lm, q)
      BY <2>3, <1>1, <1>2 DEF Backed
    <2> QED BY <2>1, <2>2, <2>4, <1>3
  <1>4. CASE ~ (Len(lm) <= n)
    <2>1. c = lm[n + 1] /\ n + 1 \in 1 .. Len(lm) /\ m = SubSeq(lm, 1, n)
      BY <1>2, <1>4 DEF CutOf
    <2>2. c \in Nat /\ c <= Len(tr)
      BY <2>1, <1>1, <1>2
    <2> HIDE DEF c
    <2>3. t \in Seq(StepType) /\ Len(t) = c /\ \A i \in 1 .. c : t[i] = tr[i]
      BY <2>2, <1>1, <1>2, SubSeqProperties
    <2>4. SubSeq(lm, 1, n) \in Seq(Nat) /\ Len(SubSeq(lm, 1, n)) = n
          /\ \A k \in 1 .. n : SubSeq(lm, 1, n)[k] = lm[k]
      BY <2>1, <1>1, <1>2, SubSeqProperties
    <2> HIDE DEF t
    <2>5. m \in Seq(Nat) /\ Len(m) = n /\ \A k \in 1 .. n : m[k] = lm[k]
      BY <2>1, <2>4
    <2> HIDE DEF m
    <2>6. ASSUME NEW k \in 1 .. n PROVE m[k] = lm[k] /\ m[k] <= c
      <3>1. k \in DOMAIN lm /\ n + 1 \in DOMAIN lm /\ k <= n + 1
        BY <2>1, <1>2
      <3>2. lm[k] <= lm[n + 1]
        BY <3>1, <1>1
      <3> QED BY <3>2, <2>1, <2>5
    <2>8. Len(m) < Len(lm) /\ Len(m) <= Len(lm)
      BY <2>5, <1>2, <1>4
    <2>9. Len(t) = lm[Len(m) + 1] /\ Len(t) <= Len(tr)
      BY <2>1, <2>2, <2>3, <2>5
    <2>10. \A k \in 1 .. Len(m) : m[k] = lm[k] /\ m[k] <= Len(t)
      BY <2>3, <2>5, <2>6
    <2>11. \A i \in 1 .. Len(t) : t[i] = tr[i]
      BY <2>3
    <2>7. Backed(t, m, c, tr, lm, q)
      BY <2>2, <2>3, <2>5, <2>8, <2>9, <2>10, <2>11 DEF Backed
    <2> QED BY <2>7, <1>4 DEF c, t, m
  <1> QED BY <1>3, <1>4

LEMMA BackTrail ==
  ASSUME NEW tr, NEW lm, TrailOK(tr, lm), NEW q, NEW t, NEW m, NEW h, Backed(t, m, h, tr, lm, q)
  PROVE  /\ TrailOK(t, m)
         /\ Len(t) \in Nat /\ Len(m) \in Nat /\ DOMAIN t = 1 .. Len(t) /\ DOMAIN m = 1 .. Len(m)
         /\ Len(tr) \in Nat /\ DOMAIN tr = 1 .. Len(tr) /\ Len(lm) \in Nat /\ DOMAIN lm = 1 .. Len(lm)
         /\ \A k \in DOMAIN lm : lm[k] \in Nat
         /\ DOMAIN t \subseteq DOMAIN tr /\ DOMAIN m \subseteq DOMAIN lm
         /\ \A k \in DOMAIN lm : k > Len(m) => Len(t) <= lm[k]
  <1>1. /\ tr \in Seq(StepType) /\ lm \in Seq(Nat)
        /\ \A i, j \in DOMAIN tr : Var(tr[i].lit) = Var(tr[j].lit) => i = j
        /\ \A k \in DOMAIN lm : lm[k] <= Len(tr)
        /\ \A j, k \in DOMAIN lm : j <= k => lm[j] <= lm[k]
    BY DEF TrailOK
  <1>2. /\ t \in Seq(StepType) /\ m \in Seq(Nat)
        /\ Len(t) <= Len(tr) /\ \A i \in 1 .. Len(t) : t[i] = tr[i]
        /\ Len(m) <= Len(lm) /\ \A k \in 1 .. Len(m) : m[k] = lm[k] /\ m[k] <= Len(t)
    BY DEF Backed
  <1>11. m = lm \/ (Len(m) < Len(lm) /\ Len(t) = lm[Len(m) + 1])
    BY DEF Backed
  <1>3. /\ Len(tr) \in Nat /\ DOMAIN tr = 1 .. Len(tr)
        /\ Len(lm) \in Nat /\ DOMAIN lm = 1 .. Len(lm) /\ \A i \in 1 .. Len(lm) : lm[i] \in Nat
    BY <1>1, LenProperties, ElementOfSeq
  <1>4. /\ Len(t) \in Nat /\ DOMAIN t = 1 .. Len(t)
        /\ Len(m) \in Nat /\ DOMAIN m = 1 .. Len(m)
    BY <1>2, LenProperties
  <1>10. DOMAIN t \subseteq DOMAIN tr /\ DOMAIN m \subseteq DOMAIN lm
    <2>1. ASSUME NEW i \in 1 .. Len(t) PROVE i \in 1 .. Len(tr)
      BY <1>2, <1>3, <1>4
    <2>2. ASSUME NEW i \in 1 .. Len(m) PROVE i \in 1 .. Len(lm)
      BY <1>2, <1>3, <1>4
    <2> QED BY <2>1, <2>2, <1>3, <1>4
  <1>5. \A i, j \in DOMAIN t : Var(t[i].lit) = Var(t[j].lit) => i = j
    <2>1. \A i \in DOMAIN t : i \in DOMAIN tr /\ t[i] = tr[i]
      BY <1>2, <1>4, <1>10
    <2> QED BY <2>1, <1>1
  <1>6. \A k \in DOMAIN m : m[k] <= Len(t)
    BY <1>2, <1>4
  <1>7. \A j, k \in DOMAIN m : j <= k => m[j] <= m[k]
    <2>1. \A k \in DOMAIN m : k \in DOMAIN lm /\ m[k] = lm[k]
      BY <1>2, <1>4, <1>10
    <2> QED BY <2>1, <1>1
  <1>8. TrailOK(t, m)
    BY <1>2, <1>5, <1>6, <1>7 DEF TrailOK
  <1>9. ASSUME NEW k \in DOMAIN lm, k > Len(m) PROVE Len(t) <= lm[k]
    <2>1. m # lm
      BY <1>3, <1>4, <1>9
    <2>2. Len(m) < Len(lm) /\ Len(t) = lm[Len(m) + 1]
      BY <2>1, <1>11
    <2>3. Len(m) + 1 \in DOMAIN lm /\ Len(m) + 1 <= k
      BY <2>2, <1>3, <1>4, <1>9
    <2> QED BY <2>2, <2>3, <1>1
  <1> QED BY <1>3, <1>4, <1>8, <1>9, <1>10

LEMMA BackTop ==
  ASSUME NEW tr, NEW lm, TrailOK(tr, lm), NEW q, NEW t, NEW m, NEW h, Backed(t, m, h, tr, lm, q)
  PROVE  /\ \A i \in DOMAIN t : i \in DOMAIN tr /\ t[i] = tr[i] /\ (TopLevel(m, i) => TopLevel(lm, i))
         /\ \A i \in DOMAIN tr : TopLevel(lm, i) => i \in DOMAIN t /\ TopLevel(m, i)
  <1>1. /\ Len(t) \in Nat /\ Len(m) \in Nat /\ DOMAIN t = 1 .. Len(t) /\ DOMAIN m = 1 .. Len(m)
        /\ Len(tr) \in Nat /\ DOMAIN tr = 1 .. Len(tr) /\ Len(lm) \in Nat /\ DOMAIN lm = 1 .. Len(lm)
        /\ \A k \in DOMAIN lm : lm[k] \in Nat
        /\ DOMAIN t \subseteq DOMAIN tr /\ DOMAIN m \subseteq DOMAIN lm
        /\ \A k \in DOMAIN lm : k > Len(m) => Len(t) <= lm[k]
    BY BackTrail
  <1>2. /\ \A i \in 1 .. Len(t) : t[i] = tr[i]
        /\ \A k \in 1 .. Len(m) : m[k] = lm[k] /\ m[k] <= Len(t)
    BY DEF Backed
  <1>3. t = tr \/ (Len(m) < Len(lm) /\ Len(t) = lm[Len(m) + 1])
    BY DEF Backed
  <1>4. ASSUME NEW i \in DOMAIN t, TopLevel(m, i) PROVE TopLevel(lm, i)
    <2>1. SUFFICES ASSUME NEW k \in DOMAIN lm PROVE i <= lm[k]
      BY DEF TopLevel
    <2>2. CASE k \in DOMAIN m
      BY <2>2, <1>1, <1>2, <1>4 DEF TopLevel
    <2>3. CASE k \notin DOMAIN m
      <3>1. k > Len(m)
        BY <2>3, <1>1
      <3>2. Len(t) <= lm[k] /\ i <= Len(t) /\ lm[k] \in Nat /\ i \in Nat
        BY <3>1, <1>1
      <3> QED BY <3>2, <1>1
    <2> QED BY <2>2, <2>3
  <1>5. ASSUME NEW i \in DOMAIN tr, TopLevel(lm, i) PROVE i \in DOMAIN t /\ TopLevel(m, i)
    <2>1. TopLevel(m, i)
      BY <1>1, <1>2, <1>5 DEF TopLevel
    <2>2. CASE Len(m) < Len(lm) /\ Len(t) = lm[Len(m) + 1]
      <3>1. Len(m) + 1 \in DOMAIN lm
        BY <2>2, <1>1
      <3>2. i <= Len(t)
        BY <3>1, <2>2, <1>5 DEF TopLevel
      <3> QED BY <2>1, <3>2, <1>1
    <2> QED BY <2>1, <2>2, <1>3
  <1> QED BY <1>1, <1>2, <1>4, <1>5

LEMMA BackReasons ==
  ASSUME NEW cs, NEW tr, NEW lm, TrailOK(tr, lm), NEW q, NEW t, NEW m, NEW h, Backed(t, m, h, tr, lm, q),
         ReasonsOK(cs, tr)
  PROVE  ReasonsOK(cs, t)
  <1>1. /\ Len(t) \in Nat /\ DOMAIN t = 1 .. Len(t)
        /\ \A i \in DOMAIN t : i \in DOMAIN tr /\ t[i] = tr[i]
    BY BackTrail, BackTop
  <1>2. SUFFICES ASSUME NEW i \in DOMAIN t, t[i].reason # None PROVE Because(cs, t, i)
    BY DEF ReasonsOK
  <1>3. Because(cs, tr, i) /\ t[i] = tr[i]
    BY <1>1, <1>2 DEF ReasonsOK
  <1>4. \A k \in 1 .. i - 1 : t[k] = tr[k]
    <2>1. \A k \in 1 .. i - 1 : k \in 1 .. Len(t)
      BY <1>1
    <2> QED BY <2>1, <1>1
  <1>5. \A x \in LitsOf(cs[t[i].reason]) : x = t[i].lit \/ \E k \in 1 .. i - 1 : x = -t[k].lit
    BY <1>3, <1>4 DEF Because
  <1> QED BY <1>3, <1>5 DEF Because

LEMMA BackHead ==
  ASSUME NEW tr, NEW lm, TrailOK(tr, lm), NEW q, NEW t, NEW m, NEW h, Backed(t, m, h, tr, lm, q),
         NEW vis, NEW cf, HeadOK(tr, lm, q, vis, cf)
  PROVE  HeadOK(t, m, h, <<>>, None) /\ h <= q
  <1>1. /\ Len(t) \in Nat /\ Len(m) \in Nat /\ DOMAIN t = 1 .. Len(t) /\ DOMAIN m = 1 .. Len(m)
        /\ Len(tr) \in Nat /\ DOMAIN tr = 1 .. Len(tr) /\ Len(lm) \in Nat /\ DOMAIN lm = 1 .. Len(lm)
    BY BackTrail
  <1>2. q \in Nat /\ q <= Len(tr) /\ \A k \in DOMAIN lm : lm[k] <= q
    BY DEF HeadOK
  <1>3. CASE m = lm /\ t = tr /\ h = q
    BY <1>2, <1>3 DEF HeadOK
  <1>4. CASE Len(m) < Len(lm) /\ Len(t) = lm[Len(m) + 1] /\ h = Len(t)
    <2>1. Len(m) + 1 \in DOMAIN lm
      BY <1>1, <1>4
    <2>2. h <= q /\ h \in Nat /\ h <= Len(t)
      BY <2>1, <1>1, <1>2, <1>4
    <2>3. \A k \in DOMAIN m : m[k] <= h
      BY <1>1, <1>4 DEF Backed
    <2> QED BY <2>2, <2>3 DEF HeadOK
  <1> QED BY <1>3, <1>4 DEF Backed

LEMMA BackDecisions ==
  ASSUME NEW tr, NEW lm, TrailOK(tr, lm), NEW q, NEW t, NEW m, NEW h, Backed(t, m, h, tr, lm, q),
         DecisionsOK(tr, lm)
  PROVE  DecisionsOK(t, m)
  <1>1. /\ Len(t) \in Nat /\ Len(m) \in Nat /\ DOMAIN t = 1 .. Len(t) /\ DOMAIN m = 1 .. Len(m)
        /\ Len(tr) \in Nat /\ DOMAIN tr = 1 .. Len(tr) /\ Len(lm) \in Nat /\ DOMAIN lm = 1 .. Len(lm)
        /\ \A k \in DOMAIN lm : lm[k] \in Nat
        /\ DOMAIN t \subseteq DOMAIN tr /\ DOMAIN m \subseteq DOMAIN lm
        /\ \A k \in DOMAIN lm : k > Len(m) => Len(t) <= lm[k]
    BY BackTrail
  <1>2. \A k \in 1 .. Len(m) : m[k] = lm[k]
    BY DEF Backed
  <1>3. m \in Seq(Nat)
    BY DEF Backed
  <1>4. SUFFICES ASSUME NEW i \in DOMAIN t, t[i].reason = None, m # <<>>, ~ (i <= m[1])
                 PROVE \E k \in DOMAIN m : i = m[k] + 1
    BY DEF DecisionsOK
  <1>5. Len(m) # 0 /\ 1 \in DOMAIN m /\ 1 \in DOMAIN lm /\ m[1] = lm[1]
    BY <1>1, <1>2, <1>3, <1>4, EmptySeq
  <1>6. t[i] = tr[i] /\ i \in DOMAIN tr
    BY BackTop
  <1>7. lm # <<>>
    BY <1>5
  <1>8. PICK k \in DOMAIN lm : i = lm[k] + 1
    BY <1>4, <1>5, <1>6, <1>7 DEF DecisionsOK
  <1>9. k <= Len(m)
    <2>1. SUFFICES ASSUME k > Len(m) PROVE FALSE
      BY <1>1
    <2>2. Len(t) <= lm[k] /\ lm[k] \in Nat
      BY <2>1, <1>1
    <2> QED BY <2>2, <1>1, <1>8
  <1>10. k \in DOMAIN m
    BY <1>1, <1>9
  <1> QED BY <1>1, <1>2, <1>8, <1>10

LEMMA BackCaught ==
  ASSUME NEW cs, NEW tr, NEW lm, TrailOK(tr, lm), NEW q, NEW t, NEW m, NEW h, Backed(t, m, h, tr, lm, q),
         NEW vis, NEW cf, HeadOK(tr, lm, q, vis, cf), Caught(cs, tr, lm, SafeHead(q, lm, cf), vis),
         m = lm => vis = <<>> /\ cf = None
  PROVE  Caught(cs, t, m, h, <<>>)
  <1>1. /\ Len(t) \in Nat /\ Len(m) \in Nat /\ DOMAIN t = 1 .. Len(t) /\ DOMAIN m = 1 .. Len(m)
        /\ Len(tr) \in Nat /\ DOMAIN tr = 1 .. Len(tr) /\ Len(lm) \in Nat /\ DOMAIN lm = 1 .. Len(lm)
        /\ \A k \in DOMAIN lm : lm[k] \in Nat
        /\ DOMAIN t \subseteq DOMAIN tr /\ DOMAIN m \subseteq DOMAIN lm
        /\ \A k \in DOMAIN lm : k > Len(m) => Len(t) <= lm[k]
    BY BackTrail
  <1>2. \A k \in 1 .. Len(m) : m[k] = lm[k]
    BY DEF Backed
  <1>3. CASE m = lm /\ t = tr /\ h = q
    BY <1>3 DEF SafeHead
  <1>4. CASE Len(m) < Len(lm) /\ Len(t) = lm[Len(m) + 1] /\ h = Len(t)
    <2> DEFINE n == Len(m) + 1
               last == Len(lm)
    <2>1. n \in DOMAIN lm /\ last \in DOMAIN lm /\ n <= last
      BY <1>1, <1>4
    <2>2. h = lm[n] /\ lm[n] <= lm[last] /\ lm[last] <= q /\ lm[n] \in Nat /\ lm[last] \in Nat /\ q \in Nat
      BY <2>1, <1>1, <1>4 DEF TrailOK, HeadOK
    <2>3. lm # <<>>
      BY <2>1
    <2>4. SUFFICES ASSUME NEW id \in DOMAIN cs, ~cs[id].deleted, NEW i \in DOMAIN t,
                          -t[i].lit \in Pair(cs[id]), i <= h
                   PROVE Covered(cs[id], t, m, i)
      BY DEF Caught
    <2>5. i \in DOMAIN tr /\ t[i] = tr[i] /\ i \in Nat
      BY <1>1, BackTop
    <2>6. i <= SafeHead(q, lm, cf) /\ (i # SafeHead(q, lm, cf) \/ ~Has(vis, id))
      <3>1. CASE cf # None
        <4>1. SafeHead(q, lm, cf) = lm[last] /\ vis = <<>>
          BY <3>1, <2>3 DEF SafeHead, HeadOK
        <4>2. ~Has(<<>>, id)
          BY DEF Has
        <4> QED BY <4>1, <4>2, <2>2, <2>4, <2>5
      <3>2. CASE cf = None
        <4>1. SafeHead(q, lm, cf) = q
          BY <3>2 DEF SafeHead
        <4>2. CASE vis = <<>>
          <5>1. ~Has(<<>>, id)
            BY DEF Has
          <5> QED BY <5>1, <4>1, <4>2, <2>2, <2>4, <2>5
        <4>3. CASE vis # <<>>
          <5>1. lm[last] < q
            BY <4>3, <2>1 DEF HeadOK
          <5> QED BY <5>1, <4>1, <2>2, <2>4, <2>5
        <4> QED BY <4>2, <4>3
      <3> QED BY <3>1, <3>2
    <2>7. Covered(cs[id], tr, lm, i)
      BY <2>4, <2>5, <2>6 DEF Caught
    <2>8. PICK b \in DOMAIN tr : tr[b].lit \in LitsOf(cs[id]) /\ \A k \in DOMAIN lm : i <= lm[k] => b <= lm[k]
      BY <2>7 DEF Covered
    <2>9. b <= Len(t)
      BY <2>1, <2>2, <2>4, <2>8, <1>4
    <2>10. b \in DOMAIN t /\ t[b] = tr[b]
      <3>1. b \in DOMAIN t
        BY <2>9, <1>1
      <3> QED BY <3>1, BackTop
    <2>11. \A k \in DOMAIN m : i <= m[k] => b <= m[k]
      BY <2>8, <1>1, <1>2
    <2> QED BY <2>8, <2>10, <2>11 DEF Covered
  <1> QED BY <1>3, <1>4 DEF Backed

LEMMA BackAgrees ==
  ASSUME NEW cs, NEW tr, NEW lm, TrailOK(tr, lm), NEW q, NEW t, NEW m, NEW h, Backed(t, m, h, tr, lm, q),
         NEW mo, Agrees(mo, cs, tr, lm)
  PROVE  Agrees(mo, cs, t, m)
  BY BackTop DEF Agrees
LEMMA BackKept ==
  ASSUME NEW cs, NEW tr, NEW lm, TrailOK(tr, lm), NEW q, NEW t, NEW m, NEW h, Backed(t, m, h, tr, lm, q),
         NEW P, AllKept(P, cs, tr, lm)
  PROVE  AllKept(P, cs, t, m)
  <1>1. SUFFICES ASSUME NEW c \in P PROVE Kept1(c, cs, t, m)
    BY DEF AllKept
  <1>2. Kept1(c, cs, tr, lm)
    BY DEF AllKept
  <1>3. ASSUME NEW i \in DOMAIN tr, tr[i].lit \in c, TopLevel(lm, i) PROVE Kept1(c, cs, t, m)
    <2>1. i \in DOMAIN t /\ TopLevel(m, i) /\ t[i] = tr[i]
      BY <1>3, BackTop
    <2> QED BY <2>1, <1>3 DEF Kept1
  <1> QED BY <1>2, <1>3 DEF Kept1

-----------------------------------------------------------------------------
(* Assigning literals, and making a decision. *)

Longer(u, tr) ==
  /\ u \in Seq(StepType) /\ tr \in Seq(StepType)
  /\ Len(tr) <= Len(u) /\ \A i \in 1 .. Len(tr) : u[i] = tr[i]
LEMMA LongerFacts ==
  ASSUME NEW tr, NEW u, Longer(u, tr)
  PROVE  /\ Len(u) \in Nat /\ DOMAIN u = 1 .. Len(u) /\ Len(tr) \in Nat /\ DOMAIN tr = 1 .. Len(tr)
         /\ \A i \in DOMAIN u : u[i].lit \in Lits /\ u[i].reason \in Nat
         /\ \A i \in DOMAIN tr : i \in DOMAIN u /\ u[i] = tr[i]
         /\ \A i \in DOMAIN u : i \in DOMAIN tr \/ i > Len(tr)
  <1>1. Len(u) \in Nat /\ DOMAIN u = 1 .. Len(u) /\ Len(tr) \in Nat /\ DOMAIN tr = 1 .. Len(tr)
    BY LenProperties DEF Longer
  <1>2. \A i \in 1 .. Len(u) : u[i] \in StepType
    BY ElementOfSeq DEF Longer
  <1>3. \A i \in DOMAIN u : u[i].lit \in Lits /\ u[i].reason \in Nat
    BY <1>1, <1>2 DEF StepType
  <1>4. Len(tr) <= Len(u) /\ \A i \in 1 .. Len(tr) : u[i] = tr[i]
    BY DEF Longer
  <1>5. \A i \in 1 .. Len(tr) : i \in 1 .. Len(u)
    BY <1>1, <1>4
  <1> QED BY <1>1, <1>3, <1>4, <1>5

LEMMA GrowReasons ==
  ASSUME NEW cs, NEW tr, NEW u, Longer(u, tr), ReasonsOK(cs, tr),
         \A i \in DOMAIN u : i > Len(tr) /\ u[i].reason # None => Because(cs, u, i)
  PROVE  ReasonsOK(cs, u)
  <1>1. SUFFICES ASSUME NEW i \in DOMAIN u, u[i].reason # None PROVE Because(cs, u, i)
    BY DEF ReasonsOK
  <1>2. CASE i > Len(tr)
    BY <1>1, <1>2
  <1>3. CASE i \in DOMAIN tr
    <2>1. u[i] = tr[i] /\ Because(cs, tr, i)
      BY <1>1, <1>3, LongerFacts DEF ReasonsOK
    <2>2. \A k \in 1 .. i - 1 : u[k] = tr[k]
      <3>1. \A k \in 1 .. i - 1 : k \in DOMAIN tr
        BY <1>3, LongerFacts
      <3> QED BY <3>1, LongerFacts
    <2>3. \A x \in LitsOf(cs[u[i].reason]) : x = u[i].lit \/ \E k \in 1 .. i - 1 : x = -u[k].lit
      BY <2>1, <2>2 DEF Because
    <2> QED BY <2>1, <2>3 DEF Because
  <1> QED BY <1>2, <1>3, LongerFacts

LEMMA GrowCaught ==
  ASSUME NEW cs, NEW tr, NEW u, Longer(u, tr), NEW lm, NEW q, q <= Len(tr), q \in Nat, NEW vis,
         Caught(cs, tr, lm, q, vis)
  PROVE  Caught(cs, u, lm, q, vis)
  <1>1. SUFFICES ASSUME NEW id \in DOMAIN cs, ~cs[id].deleted, NEW i \in DOMAIN u,
                        -u[i].lit \in Pair(cs[id]), i <= q, i # q \/ ~Has(vis, id)
                 PROVE Covered(cs[id], u, lm, i)
    BY DEF Caught
  <1>2. i \in DOMAIN tr /\ u[i] = tr[i]
    BY <1>1, LongerFacts
  <1>3. Covered(cs[id], tr, lm, i)
    BY <1>1, <1>2 DEF Caught
  <1> QED BY <1>3, LongerFacts DEF Covered

LEMMA GrowHead ==
  ASSUME NEW tr, NEW u, Longer(u, tr), NEW lm, NEW q, NEW vis, NEW cf, HeadOK(tr, lm, q, vis, cf)
  PROVE  HeadOK(u, lm, q, vis, cf)
  <1>1. q \in Nat /\ q <= Len(tr) /\ Len(tr) <= Len(u) /\ Len(tr) \in Nat /\ Len(u) \in Nat
    BY LongerFacts DEF HeadOK, Longer
  <1>2. q <= Len(u)
    BY <1>1
  <1> QED BY <1>1, <1>2 DEF HeadOK

LEMMA GrowDecisions ==
  ASSUME NEW tr, NEW u, Longer(u, tr), NEW lm, DecisionsOK(tr, lm),
         \A i \in DOMAIN u : i > Len(tr) => \/ u[i].reason # None \/ lm = <<>>
                                             \/ \E k \in DOMAIN lm : i = lm[k] + 1
  PROVE  DecisionsOK(u, lm)
  <1>1. SUFFICES ASSUME NEW i \in DOMAIN u, u[i].reason = None
                 PROVE lm = <<>> \/ i <= lm[1] \/ \E k \in DOMAIN lm : i = lm[k] + 1
    BY DEF DecisionsOK
  <1>2. CASE i \in DOMAIN tr
    BY <1>1, <1>2, LongerFacts DEF DecisionsOK
  <1>3. CASE i > Len(tr)
    BY <1>1, <1>3
  <1> QED BY <1>2, <1>3, LongerFacts

\* One literal more, of a variable not assigned.
LEMMA AssignIs ==
  ASSUME NEW tr, NEW lm, TrailOK(tr, lm), NEW l \in Lits, NEW r \in Nat, Var(l) \notin Assigned(tr)
  PROVE  /\ Longer(Assign(tr, l, r), tr) /\ TrailOK(Assign(tr, l, r), lm)
         /\ Len(Assign(tr, l, r)) = Len(tr) + 1
         /\ Assign(tr, l, r)[Len(tr) + 1].lit = l /\ Assign(tr, l, r)[Len(tr) + 1].reason = r
         /\ True(Assign(tr, l, r)) = True(tr) \cup {l}
         /\ Assigned(Assign(tr, l, r)) = Assigned(tr) \cup {Var(l)}
  <1> DEFINE e == [lit |-> l, reason |-> r]
             u == Assign(tr, l, r)
  <1>1. /\ tr \in Seq(StepType) /\ lm \in Seq(Nat)
        /\ \A i, j \in DOMAIN tr : Var(tr[i].lit) = Var(tr[j].lit) => i = j
        /\ \A k \in DOMAIN lm : lm[k] <= Len(tr)
        /\ \A j, k \in DOMAIN lm : j <= k => lm[j] <= lm[k]
    BY DEF TrailOK
  <1>2. e \in StepType /\ e.lit = l /\ e.reason = r
    BY DEF StepType
  <1>3. u = Append(tr, e)
    BY DEF Assign
  <1> HIDE DEF e, u
  <1>4. /\ u \in Seq(StepType) /\ Len(u) = Len(tr) + 1 /\ u[Len(tr) + 1] = e
        /\ \A i \in 1 .. Len(tr) : u[i] = tr[i]
    BY <1>1, <1>2, <1>3, AppendProperties
  <1>5. /\ Len(tr) \in Nat /\ DOMAIN tr = 1 .. Len(tr)
        /\ DOMAIN u = 1 .. Len(tr) + 1 /\ Len(lm) \in Nat /\ DOMAIN lm = 1 .. Len(lm)
        /\ \A k \in 1 .. Len(lm) : lm[k] \in Nat
    BY <1>1, <1>4, LenProperties, ElementOfSeq
  <1>6. Longer(u, tr)
    BY <1>1, <1>4, <1>5 DEF Longer
  <1>7. \A i \in 1 .. Len(tr) : Var(tr[i].lit) # Var(l)
    BY <1>5 DEF Assigned
  <1>8. \A i, j \in DOMAIN u : Var(u[i].lit) = Var(u[j].lit) => i = j
    <2>1. SUFFICES ASSUME NEW i \in DOMAIN u, NEW j \in DOMAIN u, Var(u[i].lit) = Var(u[j].lit) PROVE i = j
      OBVIOUS
    <2>2. \A k \in DOMAIN u : k \in 1 .. Len(tr) \/ k = Len(tr) + 1
      BY <1>5
    <2>3. CASE i \in 1 .. Len(tr) /\ j \in 1 .. Len(tr)
      BY <2>1, <2>3, <1>1, <1>4, <1>5
    <2>4. CASE i = Len(tr) + 1 /\ j \in 1 .. Len(tr)
      BY <2>1, <2>4, <1>2, <1>4, <1>7
    <2>5. CASE j = Len(tr) + 1 /\ i \in 1 .. Len(tr)
      BY <2>1, <2>5, <1>2, <1>4, <1>7
    <2> QED BY <2>2, <2>3, <2>4, <2>5
  <1>9. \A k \in DOMAIN lm : lm[k] <= Len(u)
    BY <1>1, <1>4, <1>5
  <1>10. TrailOK(u, lm)
    BY <1>1, <1>4, <1>8, <1>9 DEF TrailOK
  <1>11. \A x : x \in True(u) <=> x \in True(tr) \/ x = l
    <2>1. \A x : x \in True(u) <=> \E i \in 1 .. Len(tr) + 1 : x = u[i].lit
      BY <1>5 DEF True
    <2>2. \A x : x \in True(tr) <=> \E i \in 1 .. Len(tr) : x = tr[i].lit
      BY <1>5 DEF True
    <2>3. 1 .. Len(tr) + 1 = (1 .. Len(tr)) \cup {Len(tr) + 1}
      BY <1>5
    <2> QED BY <2>1, <2>2, <2>3, <1>2, <1>4
  <1>12. \A x : x \in Assigned(u) <=> x \in Assigned(tr) \/ x = Var(l)
    <2>1. \A x : x \in Assigned(u) <=> \E i \in 1 .. Len(tr) + 1 : x = Var(u[i].lit)
      BY <1>5 DEF Assigned
    <2>2. \A x : x \in Assigned(tr) <=> \E i \in 1 .. Len(tr) : x = Var(tr[i].lit)
      BY <1>5 DEF Assigned
    <2>3. 1 .. Len(tr) + 1 = (1 .. Len(tr)) \cup {Len(tr) + 1}
      BY <1>5
    <2> QED BY <2>1, <2>2, <2>3, <1>2, <1>4
  <1>13. True(u) = True(tr) \cup {l} /\ Assigned(u) = Assigned(tr) \cup {Var(l)}
    BY <1>11, <1>12
  <1>14. u[Len(tr) + 1].lit = l /\ u[Len(tr) + 1].reason = r
    BY <1>2, <1>4
  <1> QED BY <1>4, <1>6, <1>10, <1>13, <1>14 DEF u

\* A new level, when everything was propagated.
LEMMA PushIs ==
  ASSUME NEW tr, NEW lm, TrailOK(tr, lm)
  PROVE  /\ TrailOK(tr, Append(lm, Len(tr))) /\ Len(Append(lm, Len(tr))) = Len(lm) + 1
         /\ DOMAIN Append(lm, Len(tr)) = 1 .. Len(lm) + 1
         /\ Append(lm, Len(tr))[Len(lm) + 1] = Len(tr)
         /\ HeadOK(tr, Append(lm, Len(tr)), Len(tr), <<>>, None)
         /\ \A cs, q : Caught(cs, tr, lm, q, <<>>) => Caught(cs, tr, Append(lm, Len(tr)), q, <<>>)
         /\ \A i \in DOMAIN tr : TopLevel(Append(lm, Len(tr)), i) <=> TopLevel(lm, i)
         /\ \A i : i > Len(tr) /\ i \in Nat => ~TopLevel(Append(lm, Len(tr)), i)
         /\ DecisionsOK(tr, lm) => DecisionsOK(tr, Append(lm, Len(tr)))
  <1> DEFINE m == Append(lm, Len(tr))
  <1>1. /\ tr \in Seq(StepType) /\ lm \in Seq(Nat)
        /\ \A i, j \in DOMAIN tr : Var(tr[i].lit) = Var(tr[j].lit) => i = j
        /\ \A k \in DOMAIN lm : lm[k] <= Len(tr)
        /\ \A j, k \in DOMAIN lm : j <= k => lm[j] <= lm[k]
    BY DEF TrailOK
  <1>2. /\ Len(tr) \in Nat /\ DOMAIN tr = 1 .. Len(tr) /\ Len(lm) \in Nat /\ DOMAIN lm = 1 .. Len(lm)
        /\ \A k \in 1 .. Len(lm) : lm[k] \in Nat
    BY <1>1, LenProperties, ElementOfSeq
  <1>3. /\ m \in Seq(Nat) /\ Len(m) = Len(lm) + 1 /\ m[Len(lm) + 1] = Len(tr)
        /\ \A k \in 1 .. Len(lm) : m[k] = lm[k]
    BY <1>1, <1>2, AppendProperties
  <1>4. DOMAIN m = 1 .. Len(lm) + 1
    BY <1>3, LenProperties
  <1> HIDE DEF m
  <1>5. \A k \in DOMAIN m : k \in DOMAIN lm \/ k = Len(lm) + 1
    BY <1>2, <1>4
  <1>6. \A k \in DOMAIN m : m[k] <= Len(tr) /\ m[k] \in Nat
    BY <1>1, <1>2, <1>3, <1>5
  <1>7. \A j, k \in DOMAIN m : j <= k => m[j] <= m[k]
    <2>1. SUFFICES ASSUME NEW j \in DOMAIN m, NEW k \in DOMAIN m, j <= k PROVE m[j] <= m[k]
      OBVIOUS
    <2>2. CASE k = Len(lm) + 1
      BY <2>2, <1>3, <1>6
    <2>3. CASE k \in DOMAIN lm
      <3>1. j \in DOMAIN lm
        BY <2>1, <2>3, <1>2, <1>4
      <3> QED BY <2>1, <2>3, <3>1, <1>1, <1>2, <1>3
    <2> QED BY <2>2, <2>3, <1>5
  <1>8. TrailOK(tr, m)
    BY <1>1, <1>3, <1>6, <1>7 DEF TrailOK
  <1>9. HeadOK(tr, m, Len(tr), <<>>, None)
    BY <1>2, <1>6 DEF HeadOK
  <1>10. ASSUME NEW cs, NEW q, Caught(cs, tr, lm, q, <<>>) PROVE Caught(cs, tr, m, q, <<>>)
    <2>1. ASSUME NEW c, NEW i \in DOMAIN tr, Covered(c, tr, lm, i) PROVE Covered(c, tr, m, i)
      <3>1. PICK b \in DOMAIN tr : tr[b].lit \in LitsOf(c) /\ \A k \in DOMAIN lm : i <= lm[k] => b <= lm[k]
        BY <2>1 DEF Covered
      <3>2. \A k \in DOMAIN m : i <= m[k] => b <= m[k]
        <4>1. b <= Len(tr)
          BY <1>2
        <4> QED BY <3>1, <4>1, <1>2, <1>3, <1>5
      <3> QED BY <3>1, <3>2 DEF Covered
    <2> QED BY <2>1, <1>10 DEF Caught
  <1>11. \A i \in DOMAIN tr : TopLevel(m, i) <=> TopLevel(lm, i)
    <2>1. ASSUME NEW i \in DOMAIN tr PROVE TopLevel(m, i) <=> TopLevel(lm, i)
      <3>1. i <= Len(tr)
        BY <1>2
      <3>2. \A k \in DOMAIN lm : k \in DOMAIN m
        BY <1>2, <1>4
      <3> QED BY <3>1, <3>2, <1>2, <1>3, <1>5 DEF TopLevel
    <2> QED BY <2>1
  <1>12. \A i : i > Len(tr) /\ i \in Nat => ~TopLevel(m, i)
    <2>1. Len(lm) + 1 \in DOMAIN m
      BY <1>2, <1>4
    <2> QED BY <2>1, <1>2, <1>3 DEF TopLevel
  <1>13. ASSUME DecisionsOK(tr, lm) PROVE DecisionsOK(tr, m)
    <2>1. SUFFICES ASSUME NEW i \in DOMAIN tr, tr[i].reason = None
                   PROVE i <= m[1] \/ \E k \in DOMAIN m : i = m[k] + 1
      BY DEF DecisionsOK
    <2>2. CASE lm = <<>>
      <3>1. Len(lm) = 0
        BY <2>2
      <3>2. m[1] = Len(tr)
        BY <3>1, <1>3
      <3> QED BY <3>2, <1>2
    <2>3. CASE lm # <<>>
      <3>1. Len(lm) # 0
        BY <2>3, <1>1, EmptySeq
      <3>2. m[1] = lm[1]
        BY <3>1, <1>2, <1>3
      <3>3. i <= lm[1] \/ \E k \in DOMAIN lm : i = lm[k] + 1
        BY <2>1, <2>3, <1>13 DEF DecisionsOK
      <3>4. \A k \in DOMAIN lm : k \in DOMAIN m /\ m[k] = lm[k]
        BY <1>2, <1>3, <1>4
      <3> QED BY <3>2, <3>3, <3>4
    <2> QED BY <2>2, <2>3
  <1>14. m[Len(lm) + 1] = Len(tr) /\ Len(m) = Len(lm) + 1
    BY <1>3
  <1> QED BY <1>4, <1>8, <1>9, <1>10, <1>11, <1>12, <1>13, <1>14 DEF m

-----------------------------------------------------------------------------
(* Watches, and a clause added. *)

LEMMA ListAppend ==
  ASSUME NEW cs, NEW p, NEW s, ListOK(cs, p, s), NEW w \in WatchType, Fits(cs, p, w), ~Has(s, w.clause)
  PROVE  /\ ListOK(cs, p, Append(s, w))
         /\ \A id : Has(Append(s, w), id) <=> Has(s, id) \/ id = w.clause
  <1> DEFINE u == Append(s, w)
  <1>1. s \in Seq(WatchType) /\ (\A i \in DOMAIN s : Fits(cs, p, s[i])) /\ Once(s)
    BY DEF ListOK
  <1>2. /\ u \in Seq(WatchType) /\ Len(u) = Len(s) + 1 /\ u[Len(s) + 1] = w
        /\ \A i \in 1 .. Len(s) : u[i] = s[i]
    BY <1>1, AppendProperties
  <1>3. Len(s) \in Nat /\ DOMAIN s = 1 .. Len(s) /\ DOMAIN u = 1 .. Len(s) + 1
    BY <1>1, <1>2, LenProperties
  <1> HIDE DEF u
  <1>4. \A i \in DOMAIN u : i \in DOMAIN s \/ i = Len(s) + 1
    BY <1>3
  <1>5. \A i \in DOMAIN s : i \in DOMAIN u /\ u[i] = s[i]
    BY <1>2, <1>3
  <1>6. \A i \in DOMAIN u : Fits(cs, p, u[i])
    BY <1>1, <1>2, <1>4, <1>5
  <1>7. Once(u)
    <2>1. \A i \in DOMAIN s : s[i].clause # w.clause
      BY DEF Has
    <2> QED BY <2>1, <1>1, <1>2, <1>4, <1>5 DEF Once
  <1>8. Len(s) + 1 \in DOMAIN u
    BY <1>3
  <1>9. \A id : Has(u, id) <=> Has(s, id) \/ id = w.clause
    BY <1>2, <1>4, <1>5, <1>8 DEF Has
  <1> QED BY <1>2, <1>6, <1>7, <1>9 DEF ListOK, u

\* What the clauses' first two literals and their marks decide, which survives other changes.
LEMMA ListMoves ==
  ASSUME NEW cs, NEW ds, NEW p, NEW s, ListOK(cs, p, s),
         \A w \in WatchType : Fits(cs, p, w) /\ Has(s, w.clause) => Fits(ds, p, w)
  PROVE  ListOK(ds, p, s)
  <1>1. s \in Seq(WatchType) /\ (\A i \in DOMAIN s : Fits(cs, p, s[i])) /\ Once(s)
    BY DEF ListOK
  <1>2. ASSUME NEW i \in DOMAIN s PROVE Fits(ds, p, s[i])
    <2>1. s[i] \in WatchType
      BY <1>1, LenProperties, ElementOfSeq
    <2>2. Has(s, s[i].clause)
      BY DEF Has
    <2> QED BY <2>1, <2>2, <1>1
  <1> QED BY <1>1, <1>2 DEF ListOK

Attached(ds, cs, c) ==
  /\ ds \in Seq(ClauseType) /\ Len(cs) \in Nat /\ DOMAIN cs = 1 .. Len(cs)
  /\ DOMAIN ds = 1 .. Len(cs) + 1 /\ Len(ds) = Len(cs) + 1
  /\ ds[Len(cs) + 1] = c /\ \A id \in DOMAIN cs : id \in DOMAIN ds /\ ds[id] = cs[id]
LEMMA AttachIs ==
  ASSUME NEW cs, ClausesOK(cs), NEW c, Proper(c)
  PROVE  ClausesOK(Append(cs, c)) /\ Attached(Append(cs, c), cs, c)
  <1> DEFINE ds == Append(cs, c)
  <1>1. cs \in Seq(ClauseType) /\ c \in ClauseType /\ \A id \in DOMAIN cs : Proper(cs[id])
    BY DEF ClausesOK, Proper
  <1>2. /\ ds \in Seq(ClauseType) /\ Len(ds) = Len(cs) + 1 /\ ds[Len(cs) + 1] = c
        /\ \A i \in 1 .. Len(cs) : ds[i] = cs[i]
    BY <1>1, AppendProperties
  <1>3. Len(cs) \in Nat /\ DOMAIN cs = 1 .. Len(cs) /\ DOMAIN ds = 1 .. Len(cs) + 1
    BY <1>1, <1>2, LenProperties
  <1> HIDE DEF ds
  <1>4. Attached(ds, cs, c)
    BY <1>2, <1>3 DEF Attached
  <1>5. \A id \in DOMAIN ds : id \in DOMAIN cs \/ id = Len(cs) + 1
    BY <1>3
  <1>6. ClausesOK(ds)
    BY <1>1, <1>2, <1>3, <1>5 DEF ClausesOK
  <1> QED BY <1>4, <1>6 DEF ds

LEMMA PairIn ==
  ASSUME NEW c, Proper(c)
  PROVE  /\ c.lits \in Seq(Lits) /\ Len(c.lits) \in Nat /\ DOMAIN c.lits = 1 .. Len(c.lits)
         /\ 1 \in DOMAIN c.lits /\ 2 \in DOMAIN c.lits /\ c.lits[1] # c.lits[2]
         /\ c.lits[1] \in Lits /\ c.lits[2] \in Lits /\ Pair(c) \subseteq LitsOf(c) /\ LitsOf(c) \subseteq Lits
         /\ ~Long(c) => LitsOf(c) = Pair(c) /\ DOMAIN c.lits = {1, 2}
         /\ LitsOf(c) = Elements(c.lits) /\ c.deleted \in BOOLEAN /\ c.glue \in BOOLEAN /\ c.learnt \in BOOLEAN
  <1>1. c.lits \in Seq(Lits) /\ Len(c.lits) >= 2 /\ Distinct(c.lits)
        /\ c.deleted \in BOOLEAN /\ c.glue \in BOOLEAN /\ c.learnt \in BOOLEAN
    BY DEF Proper, ClauseType
  <1>2. Len(c.lits) \in Nat /\ DOMAIN c.lits = 1 .. Len(c.lits) /\ \A i \in 1 .. Len(c.lits) : c.lits[i] \in Lits
    BY <1>1, LenProperties, ElementOfSeq
  <1>3. 1 \in DOMAIN c.lits /\ 2 \in DOMAIN c.lits
    BY <1>1, <1>2
  <1>4. c.lits[1] # c.lits[2]
    BY <1>1, <1>3 DEF Distinct
  <1>5. LitsOf(c) \subseteq Lits /\ Pair(c) \subseteq LitsOf(c) /\ LitsOf(c) = Elements(c.lits)
    BY <1>2, <1>3 DEF LitsOf, Pair, Elements
  <1>6. ASSUME ~Long(c) PROVE LitsOf(c) = Pair(c) /\ DOMAIN c.lits = {1, 2}
    <2>1. DOMAIN c.lits = {1, 2}
      BY <1>1, <1>2, <1>6 DEF Long
    <2> QED BY <2>1 DEF LitsOf, Pair
  <1> QED BY <1>1, <1>2, <1>3, <1>4, <1>5, <1>6

LEMMA AttachWatches ==
  ASSUME NEW cs, ClausesOK(cs), NEW c, Proper(c), NEW ws, WatchesOK(cs, ws)
  PROVE  /\ WatchesOK(Append(cs, c), Watching(ws, Len(cs) + 1, c))
         /\ \A p : Complete(cs, ws, p, <<>>) => Complete(Append(cs, c), Watching(ws, Len(cs) + 1, c), p, <<>>)
  <1> DEFINE ds == Append(cs, c)
             id == Len(cs) + 1
             vs == Watching(ws, id, c)
             l1 == c.lits[1]
             l2 == c.lits[2]
             w1 == Watch(id, l2)
             w2 == Watch(id, l1)
  <1>1. ClausesOK(ds) /\ Attached(ds, cs, c)
    BY AttachIs
  <1>2. /\ l1 \in Lits /\ l2 \in Lits /\ l1 # l2 /\ l1 \in LitsOf(c) /\ l2 \in LitsOf(c)
        /\ Pair(c) = {l1, l2}
    BY PairIn DEF Pair
  <1>3. /\ id \in Nat /\ DOMAIN cs = 1 .. Len(cs) /\ id \notin DOMAIN cs /\ ds[id] = c /\ id \in DOMAIN ds
        /\ \A i \in DOMAIN cs : i \in DOMAIN ds /\ ds[i] = cs[i]
        /\ \A i \in DOMAIN ds : i \in DOMAIN cs \/ i = id
    BY <1>1 DEF Attached
  <1>4. /\ -l1 \in Lits /\ -l2 \in Lits /\ -l1 # -l2 /\ -(-l1) = l1 /\ -(-l2) = l2
    BY <1>2, LitFacts
  <1>5. DOMAIN ws = Lits /\ ws = [l \in Lits |-> ws[l]] /\ \A p \in Lits : ListOK(cs, p, ws[p])
    BY DEF WatchesOK
  <1> DEFINE New(p) == IF p = -l2 THEN Append(ws[p], w2) ELSE IF p = -l1 THEN Append(ws[p], w1) ELSE ws[p]
  <1>6. vs = [p \in Lits |-> New(p)]
    <2>1. vs = [ws EXCEPT ![-l1] = Append(@, w1), ![-l2] = Append(@, w2)]
      BY DEF Watching
    <2>2. DOMAIN vs = Lits /\ vs = [p \in Lits |-> vs[p]]
      BY <2>1, <1>5
    <2>3. \A p \in Lits : vs[p] = New(p)
      BY <2>1, <1>4, <1>5
    <2> HIDE DEF vs
    <2> QED BY <2>2, <2>3
  <1>7. /\ w1 \in WatchType /\ w1.clause = id /\ w1.blocker = l2
        /\ w2 \in WatchType /\ w2.clause = id /\ w2.blocker = l1
    BY <1>2, <1>3 DEF Watch, WatchType
  <1> HIDE DEF ds, id, vs, w1, w2, l1, l2
  <1>8. \A p, w : Fits(cs, p, w) => Fits(ds, p, w) /\ w.clause # id
    BY <1>3 DEF Fits
  <1>9. ASSUME NEW p \in Lits PROVE ListOK(ds, p, ws[p]) /\ ~Has(ws[p], id)
    <2>1. ListOK(cs, p, ws[p])
      BY <1>5
    <2>2. ListOK(ds, p, ws[p])
      BY <2>1, <1>8, ListMoves
    <2>3. ~Has(ws[p], id)
      BY <2>1, <1>8 DEF ListOK, Has
    <2> QED BY <2>2, <2>3
  <1>10. Fits(ds, -l1, w1) /\ Fits(ds, -l2, w2)
    BY <1>2, <1>3, <1>4, <1>7 DEF Fits
  <1>11. ASSUME NEW p \in Lits
         PROVE  /\ ListOK(ds, p, vs[p]) /\ \A n : Has(ws[p], n) => Has(vs[p], n)
                /\ p \in {-l1, -l2} => Has(vs[p], id)
    <2>1. vs[p] = New(p)
      BY <1>6
    <2>2. CASE p = -l1
      <3>1. vs[p] = Append(ws[p], w1)
        BY <2>1, <2>2, <1>4
      <3>2. /\ ListOK(ds, p, Append(ws[p], w1))
            /\ \A n : Has(Append(ws[p], w1), n) <=> Has(ws[p], n) \/ n = w1.clause
        BY <1>7, <1>9, <1>10, <2>2, ListAppend
      <3> QED BY <3>1, <3>2, <1>7
    <2>3. CASE p = -l2
      <3>1. vs[p] = Append(ws[p], w2)
        BY <2>1, <2>3, <1>4
      <3>2. /\ ListOK(ds, p, Append(ws[p], w2))
            /\ \A n : Has(Append(ws[p], w2), n) <=> Has(ws[p], n) \/ n = w2.clause
        BY <1>7, <1>9, <1>10, <2>3, ListAppend
      <3> QED BY <3>1, <3>2, <1>7
    <2>4. CASE p # -l1 /\ p # -l2
      BY <2>1, <2>4, <1>9
    <2> QED BY <2>2, <2>3, <2>4
  <1>12. DOMAIN vs = Lits /\ vs = [l \in Lits |-> vs[l]]
    BY <1>6
  <1>13. WatchesOK(ds, vs)
    BY <1>11, <1>12 DEF WatchesOK
  <1>14. ASSUME NEW p, Complete(cs, ws, p, <<>>) PROVE Complete(ds, vs, p, <<>>)
    <2>1. \A n : ~Has(<<>>, n)
      BY DEF Has
    <2>2. SUFFICES ASSUME NEW n \in DOMAIN ds, ~ds[n].deleted, NEW l \in Pair(ds[n]) PROVE Has(vs[-l], n)
      BY DEF Complete
    <2>3. CASE n \in DOMAIN cs
      <3>1. ds[n] = cs[n] /\ Proper(cs[n])
        BY <2>3, <1>3 DEF ClausesOK
      <3>2. Has(ws[-l], n)
        BY <3>1, <2>1, <2>2, <2>3, <1>14 DEF Complete
      <3>3. -l \in Lits
        BY <3>1, <2>2, PairIn, LitFacts
      <3> QED BY <3>2, <3>3, <1>11
    <2>4. CASE n = id
      <3>1. l \in {l1, l2}
        BY <2>2, <2>4, <1>2, <1>3
      <3> QED BY <3>1, <2>4, <1>4, <1>11
    <2> QED BY <2>3, <2>4, <1>3
  <1> QED BY <1>13, <1>14 DEF ds, vs, id

\* The other parts when a clause is added.
LEMMA AttachRest ==
  ASSUME NEW cs, ClausesOK(cs), NEW c, Proper(c), NEW ds, Attached(ds, cs, c), NEW tr, NEW lm
  PROVE  /\ ReasonsOK(cs, tr) => ReasonsOK(ds, tr)
         /\ \A i \in DOMAIN tr : Because(cs, tr, i) => Because(ds, tr, i)
         /\ \A m : Agrees(m, cs, tr, lm) /\ Satisfies(m, LitsOf(c)) => Agrees(m, ds, tr, lm)
         /\ \A P : AllKept(P, cs, tr, lm) => AllKept(P, ds, tr, lm)
  <1>1. /\ DOMAIN cs = 1 .. Len(cs) /\ Len(cs) \in Nat
        /\ \A i \in DOMAIN cs : i \in DOMAIN ds /\ ds[i] = cs[i]
        /\ ds[Len(cs) + 1] = c
        /\ \A i \in DOMAIN ds : i \in DOMAIN cs \/ i = Len(cs) + 1
    BY DEF Attached
  <1>2. \A i \in DOMAIN tr : Because(cs, tr, i) => Because(ds, tr, i)
    BY <1>1 DEF Because
  <1>3. ReasonsOK(cs, tr) => ReasonsOK(ds, tr)
    BY <1>2 DEF ReasonsOK
  <1>4. \A m : Agrees(m, cs, tr, lm) /\ Satisfies(m, LitsOf(c)) => Agrees(m, ds, tr, lm)
    BY <1>1 DEF Agrees
  <1>5. ASSUME NEW P, AllKept(P, cs, tr, lm) PROVE AllKept(P, ds, tr, lm)
    BY <1>1, <1>5 DEF AllKept, Kept1
  <1> QED BY <1>2, <1>3, <1>4, <1>5
LEMMA AttachCaught ==
  ASSUME NEW cs, ClausesOK(cs), NEW c, Proper(c), NEW ds, Attached(ds, cs, c), NEW tr, NEW lm, NEW q,
         Caught(cs, tr, lm, q, <<>>),
         \A i \in DOMAIN tr : -tr[i].lit \in Pair(c) /\ i <= q => Covered(c, tr, lm, i)
  PROVE  Caught(ds, tr, lm, q, <<>>)
  <1>1. /\ \A i \in DOMAIN cs : i \in DOMAIN ds /\ ds[i] = cs[i]
        /\ ds[Len(cs) + 1] = c
        /\ \A i \in DOMAIN ds : i \in DOMAIN cs \/ i = Len(cs) + 1
    BY DEF Attached
  <1>2. SUFFICES ASSUME NEW id \in DOMAIN ds, ~ds[id].deleted, NEW i \in DOMAIN tr,
                        -tr[i].lit \in Pair(ds[id]), i <= q
                 PROVE Covered(ds[id], tr, lm, i)
    BY DEF Caught
  <1>3. \A n : ~Has(<<>>, n)
    BY DEF Has
  <1> QED BY <1>1, <1>2, <1>3 DEF Caught

-----------------------------------------------------------------------------
(* The invariant. *)

\* Clauses, watches, trail and conflict fit together, when the watches vis of the literal
\* before place q + 1 of the trail are still to be looked at.
Structure(cs, ws, tr, lm, q, vis, cf) ==
  /\ ClausesOK(cs) /\ TrailOK(tr, lm) /\ ReasonsOK(cs, tr) /\ WatchesOK(cs, ws)
  /\ HeadOK(tr, lm, q, vis, cf) /\ ConflictOK(cs, tr, lm, cf)
  /\ VisitOK(cs, ws, tr[q].lit, vis) /\ Complete(cs, ws, tr[q].lit, vis) /\ cf \in Nat

Tasks == {"idle", "top", "probe", "unit", "search"}
AddType == [lits : SUBSET Lits, hint : {<<>>} \cup (Lits \X Lits)]

\* Types: the type of every variable (db, of which only the checker of the proof knows, is
\* left out).
TypeOK ==
  /\ clauses \in Seq(ClauseType) /\ watches \in [Lits -> Seq(WatchType)]
  /\ trail \in Seq(StepType) /\ lims \in Seq(Nat) /\ qhead \in Nat
  /\ visiting \in Seq(WatchType) /\ conflict \in Nat
  /\ heap \subseteq Vars /\ phase \in [Vars -> BOOLEAN] /\ unsat \in BOOLEAN
  /\ task \in Tasks /\ lemma \subseteq Lits
  /\ left \in [conflicts : Int, propagations : Int]
  /\ answer.kind \in {"none", "unknown", "unsat", "sat"}
  /\ answer.kind = "sat" => answer.model \in SUBSET Vars
  /\ todo \in Seq(AddType) /\ premises \in SUBSET (SUBSET Lits)
  /\ here \in Nat /\ reductions \in Nat /\ calls \in Nat
\* What Structure does not say.
OthersOK ==
  /\ heap \subseteq Vars /\ phase \in [Vars -> BOOLEAN] /\ unsat \in BOOLEAN
  /\ task \in Tasks /\ lemma \subseteq Lits
  /\ left \in [conflicts : Int, propagations : Int]
  /\ answer.kind \in {"none", "unknown", "unsat", "sat"}
  /\ answer.kind = "sat" => answer.model \in SUBSET Vars
  /\ todo \in Seq(AddType) /\ premises \in SUBSET (SUBSET Lits)
  /\ here \in Nat /\ reductions \in Nat /\ calls \in Nat

TasksOK(ta, lm, vis, cf, un) ==
  /\ ta = "idle" => cf = None /\ vis = <<>>
  /\ ta \in {"top", "unit"} => lm = <<>>
  /\ ta = "probe" => Len(lm) = 1
  /\ ta # "idle" => ~un

\* A model of the premises P agrees with what the solver holds.
Supposes(m, ta, le, tr) ==
  ta = "probe" /\ ~Satisfies(m, le) => \A i \in DOMAIN tr : Holds(m, tr[i].lit)
Entailed(P, cs, tr, lm, ta, le, un, an) ==
  \A m \in SUBSET Vars : Fulfils(m, P) =>
    Agrees(m, cs, tr, lm) /\ Supposes(m, ta, le, tr) /\ ~un /\ an.kind # "unsat"

SatRight(an, P) == an.kind = "sat" => Fulfils(an.model, P)
HeapOK(h, tr) == Vars \ Assigned(tr) \subseteq h

Inv ==
  /\ Structure(clauses, watches, trail, lims, qhead, visiting, conflict)
  /\ OthersOK
  /\ TasksOK(task, lims, visiting, conflict, unsat)
  /\ task # "probe" => DecisionsOK(trail, lims)
  /\ ~unsat => Caught(clauses, trail, lims, SafeHead(qhead, lims, conflict), visiting)
  /\ ~unsat => AllKept(premises, clauses, trail, lims)
  /\ Entailed(premises, clauses, trail, lims, task, lemma, unsat, answer)
  /\ SatRight(answer, premises)
  /\ HeapOK(heap, trail)

LEMMA EmptyLists ==
  /\ <<>> \in Seq(WatchType) /\ \A id : ~Has(<<>>, id)
  /\ \A cs, p, s : ListOK(cs, p, <<>>) /\ Apart(s, <<>>)
  <1>1. <<>> \in Seq(WatchType)
    OBVIOUS
  <1> QED BY <1>1 DEF Has, ListOK, Apart, Once

LEMMA TypesHold ==
  ASSUME Inv PROVE TypeOK
  <1>1. Structure(clauses, watches, trail, lims, qhead, visiting, conflict) /\ OthersOK
    BY DEF Inv
  <1>2. clauses \in Seq(ClauseType) /\ trail \in Seq(StepType) /\ lims \in Seq(Nat) /\ qhead \in Nat
        /\ visiting \in Seq(WatchType) /\ conflict \in Nat
    BY <1>1 DEF Structure, ClausesOK, TrailOK, HeadOK, VisitOK, ListOK
  <1>3. watches \in [Lits -> Seq(WatchType)]
    <2>1. /\ watches = [l \in Lits |-> watches[l]]
          /\ \A l \in Lits : watches[l] \in Seq(WatchType)
      BY <1>1 DEF Structure, WatchesOK, ListOK
    <2> QED BY <2>1
  <1> QED BY <1>1, <1>2, <1>3 DEF TypeOK, OthersOK

LEMMA BackStructure ==
  ASSUME NEW cs, NEW ws, NEW tr, NEW lm, NEW q, NEW cf, Structure(cs, ws, tr, lm, q, <<>>, cf),
         NEW t, NEW m, NEW h, Backed(t, m, h, tr, lm, q)
  PROVE  Structure(cs, ws, t, m, h, <<>>, None)
  <1>1. /\ ClausesOK(cs) /\ TrailOK(tr, lm) /\ ReasonsOK(cs, tr) /\ WatchesOK(cs, ws)
        /\ HeadOK(tr, lm, q, <<>>, cf) /\ Complete(cs, ws, tr[q].lit, <<>>)
    BY DEF Structure
  <1>2. TrailOK(t, m) /\ ReasonsOK(cs, t) /\ HeadOK(t, m, h, <<>>, None)
    BY <1>1, BackTrail, BackReasons, BackHead
  <1>3. VisitOK(cs, ws, t[h].lit, <<>>) /\ Complete(cs, ws, t[h].lit, <<>>)
    BY <1>1, EmptyLists DEF VisitOK, Complete
  <1>4. ConflictOK(cs, t, m, None) /\ None \in Nat
    BY DEF ConflictOK, None
  <1> QED BY <1>1, <1>2, <1>3, <1>4 DEF Structure

\* The model's way back to a level.
LEMMA BackState ==
  ASSUME TrailOK(trail, lims), qhead \in Nat, NEW n \in Nat
  PROVE  /\ Backed(TrailAt(n), LimsAt(n), QheadAt(n), trail, lims, qhead)
         /\ Freed(n) \subseteq Vars /\ Assigned(trail) \subseteq Assigned(TrailAt(n)) \cup Freed(n)
         /\ Len(LimsAt(n)) <= n /\ (n < Len(lims) => Len(LimsAt(n)) = n)
         /\ (Len(lims) <= n => LimsAt(n) = lims /\ TrailAt(n) = trail /\ QheadAt(n) = qhead)
         /\ phase \in [Vars -> BOOLEAN] => PhaseAt(n) \in [Vars -> BOOLEAN]
  <1>1. trail \in Seq(StepType) /\ lims \in Seq(Nat) /\ \A k \in DOMAIN lims : lims[k] <= Len(trail)
    BY DEF TrailOK
  <1>2. /\ Len(trail) \in Nat /\ DOMAIN trail = 1 .. Len(trail) /\ Len(lims) \in Nat /\ DOMAIN lims = 1 .. Len(lims)
        /\ \A i \in 1 .. Len(trail) : trail[i] \in StepType
        /\ \A k \in 1 .. Len(lims) : lims[k] \in Nat
    BY <1>1, LenProperties, ElementOfSeq
  <1>3. Cut(n) = CutOf(trail, lims, n)
    BY DEF Cut, CutOf, DecisionLevel
  <1>4. /\ TrailAt(n) = SubSeq(trail, 1, CutOf(trail, lims, n))
        /\ LimsAt(n) = IF Len(lims) <= n THEN lims ELSE SubSeq(lims, 1, n)
        /\ QheadAt(n) = IF Len(lims) <= n THEN qhead ELSE CutOf(trail, lims, n)
    BY <1>3 DEF TrailAt, LimsAt, QheadAt, DecisionLevel
  <1>5. Backed(TrailAt(n), LimsAt(n), QheadAt(n), trail, lims, qhead)
    BY <1>4, BackedHolds
  <1>6. Cut(n) \in Nat
    BY <1>2, <1>3 DEF CutOf
  <1>7. Freed(n) \subseteq Vars
    <2>1. ASSUME NEW i \in Cut(n) + 1 .. Len(trail) PROVE Var(trail[i].lit) \in Vars
      <3>1. i \in 1 .. Len(trail)
        BY <1>2, <1>6
      <3>2. trail[i].lit \in Lits
        BY <3>1, <1>2 DEF StepType
      <3> QED BY <3>2, LitFacts
    <2> QED BY <2>1 DEF Freed
  <1>8. \A i \in DOMAIN trail : i \in DOMAIN TrailAt(n) \/ i \in Cut(n) + 1 .. Len(trail)
    <2>1. DOMAIN TrailAt(n) = 1 .. Len(TrailAt(n)) /\ Len(TrailAt(n)) \in Nat
      BY <1>5, BackTrail
    <2>2. Len(TrailAt(n)) = Cut(n)
      <3>1. CASE Len(lims) <= n
        BY <3>1, <1>1, <1>3, <1>4, SubSeqFull DEF CutOf
      <3>2. CASE ~ (Len(lims) <= n)
        <4>1. Cut(n) = lims[n + 1] /\ n + 1 \in DOMAIN lims
          BY <3>2, <1>2, <1>3 DEF CutOf
        <4>2. Cut(n) <= Len(trail)
          BY <4>1, <1>1
        <4>3. \A i \in 1 .. Cut(n) : trail[i] \in StepType
          BY <4>2, <1>2, <1>6
        <4>4. Len(SubSeq(trail, 1, Cut(n))) = IF 1 <= Cut(n) THEN Cut(n) - 1 + 1 ELSE 0
          BY <4>3, <1>6, SubSeqProperties
        <4> QED BY <4>4, <1>3, <1>4, <1>6
      <3> QED BY <3>1, <3>2
    <2> QED BY <2>1, <2>2, <1>2, <1>6
  <1>9. \A i \in DOMAIN TrailAt(n) : TrailAt(n)[i] = trail[i]
    BY <1>5, BackTop
  <1>10. Assigned(trail) \subseteq Assigned(TrailAt(n)) \cup Freed(n)
    <2>1. ASSUME NEW i \in DOMAIN trail PROVE Var(trail[i].lit) \in Assigned(TrailAt(n)) \cup Freed(n)
      <3>1. CASE i \in DOMAIN TrailAt(n)
        BY <3>1, <1>9 DEF Assigned
      <3>2. CASE i \in Cut(n) + 1 .. Len(trail)
        BY <3>2 DEF Freed
      <3> QED BY <3>1, <3>2, <1>8
    <2> QED BY <2>1 DEF Assigned
  <1>11. Len(LimsAt(n)) <= n /\ (n < Len(lims) => Len(LimsAt(n)) = n)
    <2>1. CASE Len(lims) <= n
      <3>1. LimsAt(n) = lims
        BY <2>1, <1>4
      <3>2. ~ (n < Len(lims))
        BY <2>1, <1>2
      <3> QED BY <2>1, <3>1, <3>2
    <2>2. CASE ~ (Len(lims) <= n)
      <3>1. \A k \in 1 .. n : lims[k] \in Nat
        BY <2>2, <1>2
      <3>2. Len(SubSeq(lims, 1, n)) = n
        BY <3>1, SubSeqProperties
      <3> QED BY <2>2, <3>2, <1>4
    <2> QED BY <2>1, <2>2
  <1>12. Len(lims) <= n => LimsAt(n) = lims /\ TrailAt(n) = trail /\ QheadAt(n) = qhead
    BY <1>1, <1>4, SubSeqFull DEF CutOf
  <1>13. ASSUME phase \in [Vars -> BOOLEAN] PROVE PhaseAt(n) \in [Vars -> BOOLEAN]
    <2>1. ASSUME NEW v \in Vars
          PROVE  (IF v \in Freed(n) THEN v \in True(trail) ELSE phase[v]) \in BOOLEAN
      <3>1. phase[v] \in BOOLEAN
        BY <1>13
      <3>2. CASE v \in Freed(n)
        <4>1. (v \in True(trail)) \in BOOLEAN
          OBVIOUS
        <4> QED BY <3>2, <4>1, Zenon
      <3>3. CASE v \notin Freed(n)
        BY <3>1, <3>3, Zenon
      <3> QED BY <3>2, <3>3
    <2> QED BY <2>1, Zenon DEF PhaseAt
  <1> QED BY <1>5, <1>7, <1>10, <1>11, <1>12, <1>13

LEMMA EmptyLims ==
  ASSUME NEW lm \in Seq(Nat), Len(lm) <= 0 PROVE lm = <<>>
  BY EmptySeq
LEMMA TopOfEmpty == \A i : TopLevel(<<>>, i)
  BY DEF TopLevel

LEMMA VarFree ==
  ASSUME NEW tr \in Seq(StepType), NEW l \in Lits
  PROVE  /\ l \in False(tr) <=> -l \in True(tr)
         /\ l \notin True(tr) /\ l \notin False(tr) => Var(l) \notin Assigned(tr)
         /\ True(tr) \subseteq Lits /\ False(tr) \subseteq Lits /\ Assigned(tr) \subseteq Vars
  <1>1. \A i \in DOMAIN tr : tr[i].lit \in Lits
    <2>1. DOMAIN tr = 1 .. Len(tr) /\ \A i \in 1 .. Len(tr) : tr[i] \in StepType
      BY LenProperties, ElementOfSeq
    <2> QED BY <2>1 DEF StepType
  <1>2. \A x \in Lits : x \in Int /\ -(-x) = x /\ -x \in Lits /\ Var(x) \in Vars
    BY LitFacts
  <1>3. l \in False(tr) <=> -l \in True(tr)
    BY <1>1, <1>2 DEF True, False
  <1>4. l \notin True(tr) /\ l \notin False(tr) => Var(l) \notin Assigned(tr)
    BY <1>1, SameVar DEF True, False, Assigned
  <1> QED BY <1>1, <1>2, <1>3, <1>4 DEF True, False, Assigned

LEMMA HoldsFacts ==
  ASSUME NEW m
  PROVE  /\ \A l \in Lits : ~ (Holds(m, l) /\ Holds(m, -l)) /\ (Holds(m, l) \/ Holds(m, -l))
         /\ \A c : Satisfies(m, c) <=> \E l \in c : Holds(m, l)
  <1>1. ASSUME NEW l \in Lits PROVE ~ (Holds(m, l) /\ Holds(m, -l)) /\ (Holds(m, l) \/ Holds(m, -l))
    <2>1. l \in Int /\ l # 0 /\ -(-l) = l
      BY LitFacts
    <2>2. CASE l > 0
      <3>1. ~ (-l > 0)
        BY <2>1, <2>2
      <3> QED BY <2>1, <2>2, <3>1 DEF Holds
    <2>3. CASE ~ (l > 0)
      <3>1. -l > 0
        BY <2>1, <2>3
      <3> QED BY <2>1, <2>3, <3>1 DEF Holds
    <2> QED BY <2>2, <2>3
  <1>2. \A c : Satisfies(m, c) <=> \E l \in c : Holds(m, l)
    BY DEF Satisfies, Holds
  <1> QED BY <1>1, <1>2
LEMMA FewerPremises ==
  ASSUME NEW P, NEW Q, P \subseteq Q, NEW m, Fulfils(m, Q)
  PROVE  Fulfils(m, P)
  BY DEF Fulfils

-----------------------------------------------------------------------------
(* States the steps lead to. *)

\* Going back to a level keeps all that the invariant says.
LEMMA BackInv ==
  ASSUME Inv, visiting = <<>>, NEW n \in Nat, Len(lims) <= n => conflict = None
  PROVE  /\ Structure(clauses, watches, TrailAt(n), LimsAt(n), QheadAt(n), <<>>, None)
         /\ ~unsat => Caught(clauses, TrailAt(n), LimsAt(n), QheadAt(n), <<>>)
         /\ ~unsat => AllKept(premises, clauses, TrailAt(n), LimsAt(n))
         /\ \A m \in SUBSET Vars : Fulfils(m, premises) => Agrees(m, clauses, TrailAt(n), LimsAt(n))
         /\ HeapAt(n) \subseteq Vars /\ HeapOK(HeapAt(n), TrailAt(n)) /\ PhaseAt(n) \in [Vars -> BOOLEAN]
         /\ DecisionsOK(trail, lims) => DecisionsOK(TrailAt(n), LimsAt(n))
         /\ Backed(TrailAt(n), LimsAt(n), QheadAt(n), trail, lims, qhead)
         /\ Len(LimsAt(n)) <= n
  <1> DEFINE t == TrailAt(n)
             m == LimsAt(n)
             h == QheadAt(n)
  <1>1. /\ Structure(clauses, watches, trail, lims, qhead, <<>>, conflict) /\ OthersOK
        /\ ~unsat => Caught(clauses, trail, lims, SafeHead(qhead, lims, conflict), <<>>)
        /\ ~unsat => AllKept(premises, clauses, trail, lims)
        /\ Entailed(premises, clauses, trail, lims, task, lemma, unsat, answer)
        /\ HeapOK(heap, trail)
    BY DEF Inv
  <1>2. TrailOK(trail, lims) /\ HeadOK(trail, lims, qhead, <<>>, conflict) /\ qhead \in Nat
    BY <1>1 DEF Structure, HeadOK
  <1>3. heap \subseteq Vars /\ phase \in [Vars -> BOOLEAN]
    BY <1>1 DEF OthersOK
  <1>4. /\ Backed(t, m, h, trail, lims, qhead)
        /\ Freed(n) \subseteq Vars /\ Assigned(trail) \subseteq Assigned(t) \cup Freed(n)
        /\ Len(m) <= n /\ (n < Len(lims) => Len(m) = n)
        /\ PhaseAt(n) \in [Vars -> BOOLEAN]
    BY <1>2, <1>3, BackState
  <1>5. m = lims => conflict = None
    <2>1. ASSUME m = lims PROVE conflict = None
      <3>1. Len(lims) <= n
        BY <1>4, <2>1
      <3> QED BY <3>1
    <2> QED BY <2>1
  <1> HIDE DEF t, m, h
  <1>6. Structure(clauses, watches, t, m, h, <<>>, None)
    BY <1>1, <1>4, BackStructure
  <1>7. ~unsat => Caught(clauses, t, m, h, <<>>)
    <2>1. ASSUME ~unsat PROVE Caught(clauses, t, m, h, <<>>)
      <3>1. Caught(clauses, trail, lims, SafeHead(qhead, lims, conflict), <<>>)
        BY <1>1, <2>1
      <3> QED BY <3>1, <1>2, <1>4, <1>5, BackCaught
    <2> QED BY <2>1
  <1>8. ~unsat => AllKept(premises, clauses, t, m)
    BY <1>1, <1>2, <1>4, BackKept
  <1>9. ASSUME NEW mo \in SUBSET Vars, Fulfils(mo, premises) PROVE Agrees(mo, clauses, t, m)
    <2>1. Agrees(mo, clauses, trail, lims)
      BY <1>1, <1>9 DEF Entailed
    <2> QED BY <2>1, <1>2, <1>4, BackAgrees
  <1>10. HeapAt(n) \subseteq Vars
    BY <1>3, <1>4 DEF HeapAt
  <1>11. HeapOK(HeapAt(n), t)
    BY <1>1, <1>4 DEF HeapAt, HeapOK
  <1>12. DecisionsOK(trail, lims) => DecisionsOK(t, m)
    BY <1>2, <1>4, BackDecisions
  <1> QED BY <1>4, <1>6, <1>7, <1>8, <1>9, <1>10, <1>11, <1>12 DEF t, m, h

\* Looking at a watch needs to know only the literal whose watches they are.
LEMMA SameVisit ==
  ASSUME NEW cs, NEW ws, NEW p, NEW r, NEW vis, vis = <<>> \/ p = r,
         VisitOK(cs, ws, p, vis), Complete(cs, ws, p, vis)
  PROVE  VisitOK(cs, ws, r, vis) /\ Complete(cs, ws, r, vis)
  <1>1. CASE p = r
    BY <1>1
  <1>2. CASE vis = <<>>
    BY <1>2, EmptyLists DEF VisitOK, Complete
  <1> QED BY <1>1, <1>2

LEMMA AssignStructure ==
  ASSUME NEW cs, NEW ws, NEW tr, NEW lm, NEW q, NEW vis, Structure(cs, ws, tr, lm, q, vis, None),
         NEW l \in Lits, NEW r \in Nat, Var(l) \notin Assigned(tr),
         r # None => Because(cs, Assign(tr, l, r), Len(tr) + 1)
  PROVE  Structure(cs, ws, Assign(tr, l, r), lm, q, vis, None)
  <1> DEFINE u == Assign(tr, l, r)
  <1>1. /\ ClausesOK(cs) /\ TrailOK(tr, lm) /\ ReasonsOK(cs, tr) /\ WatchesOK(cs, ws)
        /\ HeadOK(tr, lm, q, vis, None)
        /\ VisitOK(cs, ws, tr[q].lit, vis) /\ Complete(cs, ws, tr[q].lit, vis)
    BY DEF Structure
  <1>2. Longer(u, tr) /\ TrailOK(u, lm) /\ Len(u) = Len(tr) + 1 /\ u[Len(tr) + 1].reason = r
    BY <1>1, AssignIs
  <1>3. /\ Len(u) \in Nat /\ DOMAIN u = 1 .. Len(u) /\ Len(tr) \in Nat /\ DOMAIN tr = 1 .. Len(tr)
        /\ \A i \in DOMAIN tr : i \in DOMAIN u /\ u[i] = tr[i]
    BY <1>2, LongerFacts
  <1>13. Because(cs, u, Len(tr) + 1) \/ r = None
    OBVIOUS
  <1> HIDE DEF u
  <1>4. \A i \in DOMAIN u : i > Len(tr) => i = Len(tr) + 1
    BY <1>2, <1>3
  <1>5. ReasonsOK(cs, u)
    <2>1. \A i \in DOMAIN u : i > Len(tr) /\ u[i].reason # None => Because(cs, u, i)
      BY <1>2, <1>4, <1>13
    <2> QED BY <2>1, <1>1, <1>2, GrowReasons
  <1>6. HeadOK(u, lm, q, vis, None)
    BY <1>1, <1>2, GrowHead
  <1>7. vis = <<>> \/ tr[q].lit = u[q].lit
    <2>1. CASE vis # <<>>
      <3>1. q \in DOMAIN tr
        BY <1>1, <1>3, <2>1 DEF HeadOK
      <3> QED BY <3>1, <1>3
    <2> QED BY <2>1
  <1>8. VisitOK(cs, ws, u[q].lit, vis) /\ Complete(cs, ws, u[q].lit, vis)
    BY <1>1, <1>7, SameVisit
  <1>9. ConflictOK(cs, u, lm, None) /\ None \in Nat
    BY DEF ConflictOK, None
  <1>10. Structure(cs, ws, u, lm, q, vis, None)
    BY <1>1, <1>2, <1>5, <1>6, <1>8, <1>9 DEF Structure
  <1> QED BY <1>10 DEF u

LEMMA AttachStructure ==
  ASSUME NEW cs, NEW ws, NEW tr, NEW lm, NEW q, Structure(cs, ws, tr, lm, q, <<>>, None),
         NEW c, Proper(c)
  PROVE  Structure(Append(cs, c), Watching(ws, Len(cs) + 1, c), tr, lm, q, <<>>, None)
  <1>1. /\ ClausesOK(cs) /\ TrailOK(tr, lm) /\ ReasonsOK(cs, tr) /\ WatchesOK(cs, ws)
        /\ HeadOK(tr, lm, q, <<>>, None)
        /\ VisitOK(cs, ws, tr[q].lit, <<>>) /\ Complete(cs, ws, tr[q].lit, <<>>)
    BY DEF Structure
  <1>2. ClausesOK(Append(cs, c)) /\ Attached(Append(cs, c), cs, c)
    BY <1>1, AttachIs
  <1>3. ReasonsOK(Append(cs, c), tr)
    BY <1>1, <1>2, AttachRest
  <1>4. /\ WatchesOK(Append(cs, c), Watching(ws, Len(cs) + 1, c))
        /\ Complete(Append(cs, c), Watching(ws, Len(cs) + 1, c), tr[q].lit, <<>>)
    BY <1>1, AttachWatches
  <1>5. VisitOK(Append(cs, c), Watching(ws, Len(cs) + 1, c), tr[q].lit, <<>>)
    BY EmptyLists DEF VisitOK
  <1>6. ConflictOK(Append(cs, c), tr, lm, None) /\ None \in Nat
    BY DEF ConflictOK, None
  <1> QED BY <1>1, <1>2, <1>3, <1>4, <1>5, <1>6 DEF Structure

LEMMA ClauseIs ==
  ASSUME NEW ls \in Seq(Lits), Len(ls) >= 2, Distinct(ls), NEW learnt \in BOOLEAN, NEW glue \in BOOLEAN,
         Len(ls) > 2 \/ glue
  PROVE  /\ Proper(Clause(ls, learnt, glue)) /\ LitsOf(Clause(ls, learnt, glue)) = Elements(ls)
         /\ Clause(ls, learnt, glue).lits = ls /\ Clause(ls, learnt, glue).glue = glue
         /\ Clause(ls, learnt, glue).deleted = FALSE
  <1>1. Clause(ls, learnt, glue) \in ClauseType /\ Clause(ls, learnt, glue).lits = ls
        /\ Clause(ls, learnt, glue).glue = glue /\ Clause(ls, learnt, glue).deleted = FALSE
    BY DEF Clause, ClauseType
  <1> QED BY <1>1 DEF Proper, Long, LitsOf, Elements

\* Literals false at the top level can be dropped from a clause.
LEMMA DropFalse ==
  ASSUME NEW tr \in Seq(StepType), NEW m, NEW cs, Agrees(m, cs, tr, <<>>), NEW c \in SUBSET Lits, Satisfies(m, c)
  PROVE  Satisfies(m, c \ False(tr))
  <1>1. PICK l \in c : Holds(m, l)
    BY HoldsFacts
  <1>2. ASSUME l \in False(tr) PROVE FALSE
    <2>1. PICK i \in DOMAIN tr : l = -tr[i].lit
      BY <1>2 DEF False
    <2>2. Holds(m, tr[i].lit)
      BY TopOfEmpty DEF Agrees
    <2>3. tr[i].lit \in Lits
      <3>1. i \in 1 .. Len(tr) /\ \A j \in 1 .. Len(tr) : tr[j] \in StepType
        BY LenProperties, ElementOfSeq
      <3> QED BY <3>1 DEF StepType
    <2> QED BY <1>1, <2>1, <2>2, <2>3, HoldsFacts
  <1> QED BY <1>1, <1>2, HoldsFacts

\* A clause that comes in, of the premises P or one they imply.
Welcomed(c, un, ta, h, ph) ==
  /\ un \in BOOLEAN /\ ta \in {"idle", "unit"} /\ (ta = "unit" => ~un)
  /\ h \subseteq Vars /\ ph \in [Vars -> BOOLEAN]
LEMMA IncomingKeeps ==
  ASSUME Inv, visiting = <<>>, ~unsat, lims = <<>> => conflict = None,
         NEW c \in SUBSET Lits, NEW hint, NEW learnt \in BOOLEAN, NEW d, Incoming(c, hint, learnt, d)
  PROVE  /\ Structure(clauses', watches', trail', <<>>, qhead', <<>>, None)
         /\ Welcomed(c, unsat', task', heap', phase')
         /\ lims' = <<>> /\ visiting' = <<>> /\ conflict' = None
         /\ ~unsat' => Caught(clauses', trail', <<>>, qhead', <<>>)
         /\ ~unsat' => AllKept(premises \cup {c}, clauses', trail', <<>>)
         /\ \A m \in SUBSET Vars : Fulfils(m, premises) /\ Satisfies(m, c) =>
              Agrees(m, clauses', trail', <<>>) /\ ~unsat'
         /\ HeapOK(heap', trail')
  <1> DEFINE t == TrailAt(0)
             h == QheadAt(0)
             kept == c \ False(t)
  <1>1. Len(lims) <= 0 => conflict = None
    <2>1. lims \in Seq(Nat)
      BY DEF Inv, Structure, TrailOK
    <2> QED BY <2>1, EmptyLims
  <1>2. /\ Structure(clauses, watches, t, LimsAt(0), h, <<>>, None)
        /\ Caught(clauses, t, LimsAt(0), h, <<>>)
        /\ AllKept(premises, clauses, t, LimsAt(0))
        /\ \A m \in SUBSET Vars : Fulfils(m, premises) => Agrees(m, clauses, t, LimsAt(0))
        /\ HeapAt(0) \subseteq Vars /\ HeapOK(HeapAt(0), t) /\ PhaseAt(0) \in [Vars -> BOOLEAN]
        /\ Backed(t, LimsAt(0), h, trail, lims, qhead) /\ Len(LimsAt(0)) <= 0
    BY <1>1, BackInv
  <1>3. LimsAt(0) = <<>>
    <2>1. LimsAt(0) \in Seq(Nat)
      BY <1>2 DEF Backed
    <2> QED BY <2>1, <1>2, EmptyLims
  <1>4. t \in Seq(StepType) /\ h \in Nat /\ TrailOK(t, <<>>) /\ ClausesOK(clauses) /\ HeadOK(t, <<>>, h, <<>>, None)
    BY <1>2, <1>3 DEF Structure, TrailOK, HeadOK
  <1>5. /\ lims' = <<>> /\ visiting' = <<>> /\ conflict' = None
        /\ qhead' = h /\ heap' = HeapAt(0) /\ phase' = (IF task = "probe" THEN phase ELSE PhaseAt(0))
    BY <1>3 DEF Incoming
  <1>6. heap' \subseteq Vars /\ phase' \in [Vars -> BOOLEAN]
    <2>1. phase \in [Vars -> BOOLEAN]
      BY DEF Inv, OthersOK
    <2> QED BY <2>1, <1>2, <1>5
  <1>7. \/ /\ Tautology(c) \/ c \cap True(t) # {}
           /\ trail' = t /\ unsat' = FALSE /\ task' = "idle" /\ UNCHANGED <<clauses, watches>>
        \/ /\ ~Tautology(c) /\ c \cap True(t) = {} /\ kept = {}
           /\ trail' = t /\ unsat' = TRUE /\ task' = "idle" /\ UNCHANGED <<clauses, watches>>
        \/ /\ ~Tautology(c) /\ c \cap True(t) = {}
           /\ Cardinality(kept) = 1 /\ \E l \in kept : trail' = Assign(t, l, None)
           /\ unsat' = FALSE /\ task' = "unit" /\ UNCHANGED <<clauses, watches>>
        \/ /\ ~Tautology(c) /\ c \cap True(t) = {} /\ Cardinality(kept) > 1
           /\ clauses' = Append(clauses, Clause(Watched(kept, hint), learnt, TRUE))
           /\ watches' = Watching(watches, Len(clauses) + 1, Clause(Watched(kept, hint), learnt, TRUE))
           /\ trail' = t /\ unsat' = FALSE /\ task' = "idle"
    BY DEF Incoming
  <1>8. Structure(clauses, watches, t, <<>>, h, <<>>, None) /\ Caught(clauses, t, <<>>, h, <<>>)
        /\ AllKept(premises, clauses, t, <<>>) /\ HeapOK(HeapAt(0), t)
        /\ \A m \in SUBSET Vars : Fulfils(m, premises) => Agrees(m, clauses, t, <<>>)
    BY <1>2, <1>3
  <1>9. kept \in SUBSET Lits
    OBVIOUS
  <1>10. \A m \in SUBSET Vars : Fulfils(m, premises) /\ Satisfies(m, c) => Satisfies(m, kept)
    BY <1>4, <1>8, DropFalse
  <1> HIDE DEF t, h
  <1>11. CASE /\ Tautology(c) \/ c \cap True(t) # {}
              /\ trail' = t /\ unsat' = FALSE /\ task' = "idle" /\ UNCHANGED <<clauses, watches>>
    <2>1. Kept1(c, clauses, t, <<>>)
      <3>1. CASE Tautology(c)
        BY <3>1 DEF Kept1
      <3>2. CASE c \cap True(t) # {}
        BY <3>2, TopOfEmpty DEF Kept1, True
      <3> QED BY <3>1, <3>2, <1>11
    <2>2. AllKept(premises \cup {c}, clauses, t, <<>>)
      BY <2>1, <1>8 DEF AllKept
    <2> QED BY <2>2, <1>5, <1>6, <1>8, <1>11 DEF Welcomed
  <1>12. CASE /\ ~Tautology(c) /\ c \cap True(t) = {} /\ kept = {}
              /\ trail' = t /\ unsat' = TRUE /\ task' = "idle" /\ UNCHANGED <<clauses, watches>>
    <2>1. \A m \in SUBSET Vars : Fulfils(m, premises) /\ Satisfies(m, c) => FALSE
      BY <1>10, <1>12 DEF Satisfies
    <2> QED BY <2>1, <1>5, <1>6, <1>8, <1>12 DEF Welcomed
  <1>13. CASE /\ ~Tautology(c) /\ c \cap True(t) = {}
              /\ Cardinality(kept) = 1 /\ \E l \in kept : trail' = Assign(t, l, None)
              /\ unsat' = FALSE /\ task' = "unit" /\ UNCHANGED <<clauses, watches>>
    <2>1. PICK l \in kept : trail' = Assign(t, l, None)
      BY <1>13
    <2> DEFINE u == Assign(t, l, None)
    <2>2. l \in Lits /\ l \notin False(t) /\ l \notin True(t) /\ l \in c
      BY <1>13
    <2>3. Var(l) \notin Assigned(t)
      BY <2>2, <1>4, VarFree
    <2>4. kept = {l}
      <3>1. IsFiniteSet(kept)
        BY <1>9, LitsFinite
      <3>2. PICK x : kept = {x}
        BY <3>1, <1>13, FS_Singleton
      <3> QED BY <3>2, <2>1
    <2>5. None \in Nat
      BY DEF None
    <2>6. Structure(clauses, watches, u, <<>>, h, <<>>, None)
      BY <1>8, <2>2, <2>3, <2>5, AssignStructure
    <2>7. /\ Longer(u, t) /\ Assigned(u) = Assigned(t) \cup {Var(l)}
          /\ u[Len(t) + 1].lit = l /\ Len(u) = Len(t) + 1
      BY <1>4, <2>2, <2>3, <2>5, AssignIs
    <2>8. /\ Len(u) \in Nat /\ DOMAIN u = 1 .. Len(u) /\ Len(t) \in Nat /\ DOMAIN t = 1 .. Len(t)
          /\ \A i \in DOMAIN t : i \in DOMAIN u /\ u[i] = t[i]
          /\ \A i \in DOMAIN u : i \in DOMAIN t \/ i > Len(t)
      BY <2>7, LongerFacts
    <2> HIDE DEF u
    <2>9. Caught(clauses, u, <<>>, h, <<>>)
      <3>1. h \in Nat /\ h <= Len(t)
        BY <1>4 DEF HeadOK
      <3> QED BY <3>1, <1>8, <2>7, GrowCaught
    <2>10. Len(t) + 1 \in DOMAIN u /\ \A i \in DOMAIN u : i \in DOMAIN t \/ i = Len(t) + 1
      BY <2>7, <2>8
    <2>11. AllKept(premises \cup {c}, clauses, u, <<>>)
      <3>1. Kept1(c, clauses, u, <<>>)
        BY <2>2, <2>7, <2>10, TopOfEmpty DEF Kept1
      <3>2. ASSUME NEW x \in premises PROVE Kept1(x, clauses, u, <<>>)
        <4>1. Kept1(x, clauses, t, <<>>)
          BY <1>8 DEF AllKept
        <4>2. (\E i \in DOMAIN t : t[i].lit \in x /\ TopLevel(<<>>, i)) =>
                \E i \in DOMAIN u : u[i].lit \in x /\ TopLevel(<<>>, i)
          BY <2>8
        <4> QED BY <4>1, <4>2 DEF Kept1
      <3> QED BY <3>1, <3>2 DEF AllKept
    <2>12. ASSUME NEW m \in SUBSET Vars, Fulfils(m, premises), Satisfies(m, c)
           PROVE  Agrees(m, clauses, u, <<>>)
      <3>1. Agrees(m, clauses, t, <<>>) /\ Satisfies(m, kept)
        BY <2>12, <1>8, <1>10
      <3>2. Holds(m, l)
        BY <3>1, <2>4, HoldsFacts
      <3>3. \A i \in DOMAIN u : Holds(m, u[i].lit)
        BY <3>1, <3>2, <2>7, <2>8, <2>10, TopOfEmpty DEF Agrees
      <3> QED BY <3>1, <3>3 DEF Agrees
    <2>13. HeapOK(HeapAt(0), u)
      BY <1>8, <2>7 DEF HeapOK
    <2>14. trail' = u /\ qhead' = h /\ unsat' = FALSE /\ task' = "unit" /\ heap' = HeapAt(0)
           /\ clauses' = clauses /\ watches' = watches
      BY <1>5, <1>13, <2>1 DEF u
    <2> QED BY <2>6, <2>9, <2>11, <2>12, <2>13, <2>14, <1>5, <1>6 DEF Welcomed
  <1>14. CASE /\ ~Tautology(c) /\ c \cap True(t) = {} /\ Cardinality(kept) > 1
              /\ clauses' = Append(clauses, Clause(Watched(kept, hint), learnt, TRUE))
              /\ watches' = Watching(watches, Len(clauses) + 1, Clause(Watched(kept, hint), learnt, TRUE))
              /\ trail' = t /\ unsat' = FALSE /\ task' = "idle"
    <2> DEFINE n == Clause(Watched(kept, hint), learnt, TRUE)
               ds == Append(clauses, n)
    <2>1. ~Tautology(kept)
      BY <1>14 DEF Tautology
    <2>2. /\ Watched(kept, hint) \in Seq(Lits) /\ Len(Watched(kept, hint)) >= 2 /\ Distinct(Watched(kept, hint))
          /\ Elements(Watched(kept, hint)) = kept
      <3>1. /\ Watched(kept, hint) \in Seq(Lits) /\ Len(Watched(kept, hint)) = Cardinality(kept)
            /\ Elements(Watched(kept, hint)) = kept /\ Distinct(Watched(kept, hint))
        BY <1>9, <2>1, WatchedIs
      <3>2. Len(Watched(kept, hint)) \in Nat
        BY <3>1, LenProperties
      <3>3. Len(Watched(kept, hint)) > 1
        BY <3>1, <1>14, Zenon
      <3>4. Len(Watched(kept, hint)) >= 2
        BY <3>2, <3>3
      <3> QED BY <3>1, <3>4
    <2>3. Proper(n) /\ LitsOf(n) = kept /\ n.glue = TRUE
      BY <2>2, ClauseIs
    <2> HIDE DEF n
    <2>4. Structure(ds, Watching(watches, Len(clauses) + 1, n), t, <<>>, h, <<>>, None)
      BY <1>8, <2>3, AttachStructure
    <2>5. Attached(ds, clauses, n)
      BY <1>4, <2>3, AttachIs
    <2> HIDE DEF ds
    <2>6. Caught(ds, t, <<>>, h, <<>>)
      <3>1. ASSUME NEW i \in DOMAIN t, -t[i].lit \in Pair(n) PROVE FALSE
        <4>1. -t[i].lit \in kept
          BY <3>1, <2>3, PairIn
        <4>2. -t[i].lit \in False(t)
          BY DEF False
        <4> QED BY <4>1, <4>2
      <3> QED BY <3>1, <1>4, <1>8, <2>3, <2>5, AttachCaught
    <2>7. AllKept(premises \cup {c}, ds, t, <<>>)
      <3>1. AllKept(premises, ds, t, <<>>)
        BY <1>4, <1>8, <2>3, <2>5, AttachRest
      <3>2. Len(clauses) + 1 \in DOMAIN ds /\ ds[Len(clauses) + 1] = n
        BY <2>5 DEF Attached
      <3>3. Kept1(c, ds, t, <<>>)
        BY <3>2, <2>3 DEF Kept1
      <3> QED BY <3>1, <3>3 DEF AllKept
    <2>8. ASSUME NEW m \in SUBSET Vars, Fulfils(m, premises), Satisfies(m, c)
          PROVE  Agrees(m, ds, t, <<>>)
      <3>1. Agrees(m, clauses, t, <<>>) /\ Satisfies(m, LitsOf(n))
        BY <2>8, <1>8, <1>10, <2>3
      <3> QED BY <3>1, <1>4, <2>3, <2>5, AttachRest
    <2>9. clauses' = ds /\ watches' = Watching(watches, Len(clauses) + 1, n) /\ trail' = t /\ qhead' = h
          /\ unsat' = FALSE /\ task' = "idle" /\ heap' = HeapAt(0)
      BY <1>5, <1>14 DEF ds, n
    <2> QED BY <2>4, <2>6, <2>7, <2>8, <2>9, <1>5, <1>6, <1>8 DEF Welcomed
  <1> QED BY <1>7, <1>11, <1>12, <1>13, <1>14

LEMMA IncomingInv ==
  ASSUME Inv, visiting = <<>>, ~unsat, lims = <<>> => conflict = None,
         NEW c \in SUBSET Lits, NEW hint, NEW learnt \in BOOLEAN, NEW d, Incoming(c, hint, learnt, d),
         UNCHANGED <<lemma, left, here, bounds>>, todo' \in Seq(AddType),
         premises' = premises \/ premises' = premises \cup {c},
         \A m \in SUBSET Vars : Fulfils(m, premises') => Satisfies(m, c),
         answer' = [kind |-> "none"] \/ (answer' = answer /\ premises' = premises)
  PROVE  Inv'
  <1>1. /\ Structure(clauses', watches', trail', <<>>, qhead', <<>>, None)
        /\ Welcomed(c, unsat', task', heap', phase')
        /\ lims' = <<>> /\ visiting' = <<>> /\ conflict' = None
        /\ ~unsat' => Caught(clauses', trail', <<>>, qhead', <<>>)
        /\ ~unsat' => AllKept(premises \cup {c}, clauses', trail', <<>>)
        /\ \A m \in SUBSET Vars : Fulfils(m, premises) /\ Satisfies(m, c) =>
             Agrees(m, clauses', trail', <<>>) /\ ~unsat'
        /\ HeapOK(heap', trail')
    BY IncomingKeeps
  <1>2. OthersOK /\ SatRight(answer, premises)
        /\ Entailed(premises, clauses, trail, lims, task, lemma, unsat, answer)
    BY DEF Inv
  <1>3. answer'.kind \in {"none", "unknown", "unsat", "sat"} /\ (answer'.kind = "sat" => answer'.model \in SUBSET Vars)
    <2>1. CASE answer' = [kind |-> "none"]
      BY <2>1
    <2>2. CASE answer' = answer
      BY <2>2, <1>2 DEF OthersOK
    <2> QED BY <2>1, <2>2
  <1>4. premises' \in SUBSET (SUBSET Lits)
    BY <1>2 DEF OthersOK
  <1>5. OthersOK'
    <2>1. lemma' \subseteq Lits /\ left' \in [conflicts : Int, propagations : Int]
          /\ here' \in Nat /\ reductions' \in Nat /\ calls' \in Nat
      BY <1>2 DEF OthersOK, bounds
    <2> QED BY <2>1, <1>1, <1>3, <1>4 DEF OthersOK, Welcomed, Tasks
  <1>6. TasksOK(task', lims', visiting', conflict', unsat')
    <2>1. task' \in {"idle", "unit"} /\ (task' = "unit" => ~unsat')
      BY <1>1 DEF Welcomed
    <2>2. task' # "probe" /\ (task' # "idle" => ~unsat')
      BY <2>1
    <2> QED BY <2>2, <1>1 DEF TasksOK
  <1>7. task' # "probe"
    BY <1>1 DEF Welcomed
  <1>8. DecisionsOK(trail', lims')
    BY <1>1 DEF DecisionsOK
  <1>9. SafeHead(qhead', lims', conflict') = qhead'
    BY <1>1 DEF SafeHead
  <1>10. ~unsat' => Caught(clauses', trail', lims', SafeHead(qhead', lims', conflict'), visiting')
    BY <1>1, <1>9
  <1>11. ~unsat' => AllKept(premises', clauses', trail', lims')
    BY <1>1 DEF AllKept
  <1>12. Entailed(premises', clauses', trail', lims', task', lemma', unsat', answer')
    <2>1. ASSUME NEW m \in SUBSET Vars, Fulfils(m, premises')
          PROVE  Agrees(m, clauses', trail', lims') /\ ~unsat' /\ answer'.kind # "unsat"
      <3>1. Fulfils(m, premises) /\ Satisfies(m, c)
        BY <2>1 DEF Fulfils
      <3>2. answer'.kind # "unsat"
        <4>1. CASE answer' = [kind |-> "none"]
          BY <4>1
        <4>2. CASE answer' = answer
          BY <4>2, <3>1, <1>2 DEF Entailed
        <4> QED BY <4>1, <4>2
      <3> QED BY <3>1, <3>2, <1>1
    <2> QED BY <2>1, <1>7 DEF Entailed, Supposes
  <1>13. SatRight(answer', premises')
    BY <1>2 DEF SatRight
  <1>14. Structure(clauses', watches', trail', lims', qhead', visiting', conflict') /\ HeapOK(heap', trail')
    BY <1>1
  <1> QED BY <1>5, <1>6, <1>8, <1>10, <1>11, <1>12, <1>13, <1>14 DEF Inv

LEMMA AddClauseKeeps ==
  ASSUME Inv, AddClause PROVE Inv'
  <1> DEFINE c == Head(todo).lits
  <1>1. OthersOK /\ TasksOK(task, lims, visiting, conflict, unsat)
    BY DEF Inv
  <1>2. visiting = <<>> /\ conflict = None /\ ~unsat
    BY <1>1 DEF AddClause, TasksOK
  <1>3. Head(todo) \in AddType /\ Tail(todo) \in Seq(AddType)
    <2>1. todo \in Seq(AddType) /\ todo # <<>>
      BY <1>1 DEF OthersOK, AddClause
    <2> QED BY <2>1, HeadTailProperties
  <1>4. c \in SUBSET Lits
    BY <1>3 DEF AddType
  <1>5. /\ Incoming(c, Head(todo).hint, FALSE, Given(db, c))
        /\ todo' = Tail(todo) /\ premises' = premises \cup {c} /\ answer' = [kind |-> "none"]
        /\ UNCHANGED <<lemma, left, here, bounds>>
    BY DEF AddClause
  <1>6. \A m \in SUBSET Vars : Fulfils(m, premises') => Satisfies(m, c)
    BY <1>5 DEF Fulfils
  <1> QED BY <1>2, <1>3, <1>4, <1>5, <1>6, IncomingInv

\* A model of the premises satisfies a lemma whose negation led to a conflict.
LEMMA ProbeImplies ==
  ASSUME NEW m, NEW cs, NEW tr, NEW lm, NEW cf, Agrees(m, cs, tr, lm), ConflictOK(cs, tr, lm, cf), cf # None,
         tr \in Seq(StepType)
  PROVE  ~ \A i \in DOMAIN tr : Holds(m, tr[i].lit)
  <1>1. \A i \in DOMAIN tr : tr[i].lit \in Lits
    <2>1. DOMAIN tr = 1 .. Len(tr) /\ \A i \in 1 .. Len(tr) : tr[i] \in StepType
      BY LenProperties, ElementOfSeq
    <2> QED BY <2>1 DEF StepType
  <1>2. PICK x \in LitsOf(cs[cf]) : Holds(m, x)
    BY HoldsFacts DEF Agrees, ConflictOK
  <1>3. PICK k \in DOMAIN tr : x = -tr[k].lit
    BY DEF ConflictOK
  <1> QED BY <1>1, <1>2, <1>3, HoldsFacts

LEMMA AcceptLemmaKeeps ==
  ASSUME Inv, AcceptLemma PROVE Inv'
  <1>1. /\ OthersOK /\ TasksOK(task, lims, visiting, conflict, unsat)
        /\ Structure(clauses, watches, trail, lims, qhead, visiting, conflict)
        /\ Entailed(premises, clauses, trail, lims, task, lemma, unsat, answer)
    BY DEF Inv
  <1>2. /\ task = "probe" /\ conflict # None /\ Incoming(lemma, <<>>, TRUE, Log(db, lemma))
        /\ UNCHANGED <<lemma, left, answer, user, here, bounds>>
    BY DEF AcceptLemma
  <1>3. /\ visiting = <<>> /\ ~unsat /\ Len(lims) = 1 /\ trail \in Seq(StepType)
        /\ ConflictOK(clauses, trail, lims, conflict)
    BY <1>1, <1>2 DEF Structure, HeadOK, TrailOK, TasksOK
  <1>4. lims # <<>>
    <2>1. ASSUME lims = <<>> PROVE FALSE
      <3>1. Len(lims) = 0
        BY <2>1
      <3> QED BY <3>1, <1>3
    <2> QED BY <2>1
  <1>5. lemma \in SUBSET Lits /\ todo' \in Seq(AddType) /\ premises' = premises /\ answer' = answer
    BY <1>1, <1>2 DEF OthersOK, user
  <1>6. ASSUME NEW m \in SUBSET Vars, Fulfils(m, premises) PROVE Satisfies(m, lemma)
    <2>1. Agrees(m, clauses, trail, lims) /\ Supposes(m, task, lemma, trail)
      BY <1>1, <1>6 DEF Entailed
    <2>2. ~ \A i \in DOMAIN trail : Holds(m, trail[i].lit)
      BY <2>1, <1>2, <1>3, ProbeImplies
    <2> QED BY <2>1, <2>2, <1>2 DEF Supposes
  <1>7. UNCHANGED <<lemma, left, here, bounds>>
    BY <1>2
  <1> QED BY <1>2, <1>3, <1>4, <1>5, <1>6, <1>7, IncomingInv

LEMMA UnitDoneKeeps ==
  ASSUME Inv, UnitDone PROVE Inv'
  <1>1. /\ visiting = <<>> /\ conflict = None /\ task = "unit" /\ task' = "idle"
        /\ UNCHANGED <<clauses, watches, trail, lims, qhead, visiting, conflict, heap, phase,
                       unsat, lemma, left, answer, todo, premises, here, reductions, calls>>
    BY DEF UnitDone, Quiet, search, user, bounds
  <1>2. /\ Structure(clauses', watches', trail', lims', qhead', visiting', conflict')
        /\ ~unsat' => Caught(clauses', trail', lims', SafeHead(qhead', lims', conflict'), visiting')
        /\ ~unsat' => AllKept(premises', clauses', trail', lims')
        /\ SatRight(answer', premises') /\ HeapOK(heap', trail')
    BY <1>1 DEF Inv
  <1>3. OthersOK' /\ TasksOK(task', lims', visiting', conflict', unsat') /\ DecisionsOK(trail', lims')
    BY <1>1 DEF Inv, OthersOK, TasksOK, Tasks
  <1>4. Entailed(premises', clauses', trail', lims', task', lemma', unsat', answer')
    BY <1>1 DEF Inv, Entailed, Supposes
  <1> QED BY <1>2, <1>3, <1>4 DEF Inv

\* Going back to a level and resting there: with what task and answer is left open.
LEMMA RestInv ==
  ASSUME Inv, visiting = <<>>, NEW n \in Nat, Len(lims) <= n => conflict = None,
         trail' = TrailAt(n), lims' = LimsAt(n), qhead' = QheadAt(n),
         HeapOK(heap', trail'), heap' \subseteq Vars, phase' \in [Vars -> BOOLEAN],
         UNCHANGED <<clauses, watches, visiting, unsat, premises>>, conflict' = None,
         task' \in {"idle", "top", "search"}, task' = "top" => n = 0, task' # "idle" => ~unsat,
         task' = "search" => task # "probe", task' = "idle" => n = 0,
         OthersOK', SatRight(answer', premises), answer'.kind # "unsat" \/ answer' = answer
  PROVE  Inv'
  <1>1. /\ Structure(clauses, watches, trail', lims', qhead', <<>>, None)
        /\ ~unsat => Caught(clauses, trail', lims', qhead', <<>>)
        /\ ~unsat => AllKept(premises, clauses, trail', lims')
        /\ \A m \in SUBSET Vars : Fulfils(m, premises) => Agrees(m, clauses, trail', lims')
        /\ DecisionsOK(trail, lims) => DecisionsOK(trail', lims')
        /\ Len(lims') <= n
    BY BackInv
  <1>2. n = 0 => lims' = <<>>
    <2>1. lims' \in Seq(Nat)
      BY <1>1 DEF Structure, TrailOK
    <2> QED BY <2>1, <1>1, EmptyLims
  <1>3. DecisionsOK(trail', lims')
    <2>1. CASE n = 0
      BY <2>1, <1>2 DEF DecisionsOK
    <2>2. CASE task' = "search"
      BY <2>2, <1>1 DEF Inv
    <2> QED BY <2>1, <2>2
  <1>4. visiting' = <<>> /\ conflict' = None /\ task' # "probe"
    OBVIOUS
  <1>5. TasksOK(task', lims', visiting', conflict', unsat')
    BY <1>2, <1>4 DEF TasksOK
  <1>6. SafeHead(qhead', lims', conflict') = qhead'
    BY <1>4 DEF SafeHead
  <1>7. Entailed(premises', clauses', trail', lims', task', lemma', unsat', answer')
    <2>1. ASSUME NEW m \in SUBSET Vars, Fulfils(m, premises)
          PROVE  Agrees(m, clauses, trail', lims') /\ ~unsat /\ answer'.kind # "unsat"
      BY <2>1, <1>1 DEF Inv, Entailed
    <2> QED BY <2>1, <1>4 DEF Entailed, Supposes
  <1>8. /\ Structure(clauses', watches', trail', lims', qhead', visiting', conflict')
        /\ ~unsat' => Caught(clauses', trail', lims', SafeHead(qhead', lims', conflict'), visiting')
        /\ ~unsat' => AllKept(premises', clauses', trail', lims')
        /\ SatRight(answer', premises') /\ HeapOK(heap', trail')
    BY <1>1, <1>4, <1>6
  <1> QED BY <1>3, <1>5, <1>7, <1>8 DEF Inv

LEMMA OfferLemmaKeeps ==
  ASSUME Inv, OfferLemma PROVE Inv'
  <1>1. /\ task = "idle" /\ ~unsat /\ lemma' \in Lemmas
        /\ trail' = TrailAt(0) /\ lims' = LimsAt(0) /\ qhead' = QheadAt(0) /\ heap' = HeapAt(0)
        /\ phase' = PhaseAt(0) /\ task' = "top" /\ answer' = [kind |-> "none"] /\ calls' = calls + 1
        /\ UNCHANGED <<clauses, watches, visiting, conflict, unsat, left, todo, premises, here, reductions>>
    BY DEF OfferLemma, user
  <1>2. OthersOK /\ TasksOK(task, lims, visiting, conflict, unsat)
    BY DEF Inv
  <1>3. visiting = <<>> /\ conflict = None
    BY <1>1, <1>2 DEF TasksOK
  <1>4. HeapOK(heap', trail') /\ heap' \subseteq Vars /\ phase' \in [Vars -> BOOLEAN]
    BY <1>1, <1>3, BackInv
  <1>5. lemma' \subseteq Lits
    BY <1>1, ClausesAssumption
  <1>6. OthersOK'
    BY <1>1, <1>2, <1>4, <1>5 DEF OthersOK, Tasks
  <1>7. SatRight(answer', premises)
    BY <1>1 DEF SatRight
  <1> QED BY <1>1, <1>3, <1>4, <1>6, <1>7, RestInv

LEMMA RejectLemmaKeeps ==
  ASSUME Inv, RejectLemma PROVE Inv'
  <1>1. /\ task = "probe" /\ visiting = <<>> /\ conflict = None
        /\ trail' = TrailAt(0) /\ lims' = <<>> /\ qhead' = Cut(0) /\ heap' = HeapAt(0) /\ task' = "idle"
        /\ UNCHANGED <<clauses, watches, visiting, conflict, phase, unsat, lemma, left, answer,
                       todo, premises, here, reductions, calls>>
    BY DEF RejectLemma, user, bounds, Quiet
  <1>2. /\ OthersOK /\ TasksOK(task, lims, visiting, conflict, unsat) /\ SatRight(answer, premises)
        /\ Structure(clauses, watches, trail, lims, qhead, visiting, conflict)
    BY DEF Inv
  <1>3. Len(lims) = 1 /\ lims \in Seq(Nat)
    BY <1>1, <1>2 DEF TasksOK, Structure, TrailOK
  <1>4. Len(LimsAt(0)) <= 0 /\ LimsAt(0) \in Seq(Nat) /\ QheadAt(0) = Cut(0)
        /\ HeapOK(HeapAt(0), TrailAt(0)) /\ HeapAt(0) \subseteq Vars
    BY <1>1, <1>3, BackInv DEF Backed, QheadAt, DecisionLevel
  <1>5. lims' = LimsAt(0) /\ qhead' = QheadAt(0)
    BY <1>1, <1>4, EmptyLims
  <1>6. OthersOK'
    BY <1>1, <1>2, <1>4 DEF OthersOK, Tasks
  <1>7. phase' \in [Vars -> BOOLEAN]
    BY <1>6 DEF OthersOK
  <1> QED BY <1>1, <1>2, <1>4, <1>5, <1>6, <1>7, RestInv

LEMMA RestartKeeps ==
  ASSUME Inv, Restart PROVE Inv'
  <1>1. /\ task = "search" /\ visiting = <<>> /\ conflict = None /\ here' = 0
        /\ UNCHANGED <<clauses, watches, visiting, conflict, unsat, task, lemma, left, answer,
                       todo, premises, reductions, calls>>
    BY DEF Restart, user, bounds, Quiet
  <1>2. PICK keep \in 0 .. DecisionLevel :
          /\ trail' = TrailAt(keep) /\ lims' = LimsAt(keep) /\ qhead' = QheadAt(keep)
          /\ heap' = Unassigned \cup Freed(keep) /\ phase' = PhaseAt(keep)
    BY DEF Restart
  <1>3. /\ OthersOK /\ TasksOK(task, lims, visiting, conflict, unsat) /\ SatRight(answer, premises)
        /\ Structure(clauses, watches, trail, lims, qhead, visiting, conflict) /\ HeapOK(heap, trail)
    BY DEF Inv
  <1>4. TrailOK(trail, lims) /\ qhead \in Nat /\ keep \in Nat /\ heap \subseteq Vars /\ phase \in [Vars -> BOOLEAN]
    BY <1>3 DEF Structure, HeadOK, OthersOK, DecisionLevel
  <1>5. /\ Freed(keep) \subseteq Vars /\ Assigned(trail) \subseteq Assigned(TrailAt(keep)) \cup Freed(keep)
        /\ PhaseAt(keep) \in [Vars -> BOOLEAN]
    BY <1>4, BackState
  <1>6. HeapOK(heap', trail') /\ heap' \subseteq Vars
    BY <1>2, <1>3, <1>4, <1>5 DEF HeapOK, Unassigned
  <1>7. OthersOK'
    BY <1>1, <1>2, <1>3, <1>5, <1>6 DEF OthersOK
  <1>8. phase' \in [Vars -> BOOLEAN] /\ ~unsat
    BY <1>1, <1>3, <1>7 DEF OthersOK, TasksOK
  <1> QED BY <1>1, <1>2, <1>3, <1>4, <1>6, <1>7, <1>8, RestInv

\* When everything was propagated and no variable is left, the clauses have a literal true.
LEMMA CaughtTrue ==
  ASSUME NEW cs, ClausesOK(cs), NEW tr \in Seq(StepType), NEW lm, NEW q, q = Len(tr),
         Caught(cs, tr, lm, q, <<>>)
  PROVE  \A id \in DOMAIN cs :
           cs[id].deleted \/ LitsOf(cs[id]) \cap True(tr) # {} \/ \A l \in Pair(cs[id]) : l \notin False(tr)
  <1>1. ASSUME NEW id \in DOMAIN cs, ~cs[id].deleted, NEW l \in Pair(cs[id]), l \in False(tr)
        PROVE  LitsOf(cs[id]) \cap True(tr) # {}
    <2>1. PICK i \in DOMAIN tr : l = -tr[i].lit
      BY <1>1 DEF False
    <2>2. i <= q
      BY LenProperties
    <2>3. Covered(cs[id], tr, lm, i)
      BY <1>1, <2>1, <2>2, EmptyLists DEF Caught
    <2> QED BY <2>3 DEF Covered, True
  <1> QED BY <1>1

LEMMA ModelRight ==
  ASSUME NEW cs, ClausesOK(cs), NEW tr \in Seq(StepType), NEW lm, Caught(cs, tr, lm, Len(tr), <<>>),
         Vars \subseteq Assigned(tr), TrailOK(tr, lm), NEW P \in SUBSET (SUBSET Lits), AllKept(P, cs, tr, lm)
  PROVE  Fulfils({v \in Vars : v \in True(tr)}, P)
  <1> DEFINE M == {v \in Vars : v \in True(tr)}
  <1>1. \A i \in DOMAIN tr : tr[i].lit \in Lits
    <2>1. DOMAIN tr = 1 .. Len(tr) /\ \A i \in 1 .. Len(tr) : tr[i] \in StepType
      BY LenProperties, ElementOfSeq
    <2> QED BY <2>1 DEF StepType
  <1>2. ASSUME NEW i \in DOMAIN tr PROVE Holds(M, tr[i].lit)
    <2>1. tr[i].lit \in Int /\ tr[i].lit # 0 /\ tr[i].lit \in Lits /\ -tr[i].lit \in Lits
      BY <1>1, LitFacts
    <2>2. CASE tr[i].lit > 0
      <3>1. tr[i].lit \in Vars
        <4>1. Var(tr[i].lit) = tr[i].lit
          BY <2>2 DEF Var
        <4> QED BY <4>1, <2>1, LitFacts
      <3> QED BY <3>1, <2>2 DEF Holds, True
    <2>3. CASE ~ (tr[i].lit > 0)
      <3>1. ASSUME -tr[i].lit \in True(tr) PROVE FALSE
        <4>1. PICK j \in DOMAIN tr : -tr[i].lit = tr[j].lit
          BY <3>1 DEF True
        <4>2. Var(tr[j].lit) = Var(tr[i].lit)
          BY <4>1, <2>1, LitFacts
        <4>3. i = j
          BY <4>2 DEF TrailOK
        <4> QED BY <4>1, <4>3, <2>1, LitFacts
      <3> QED BY <3>1, <2>3 DEF Holds
    <2> QED BY <2>2, <2>3
  <1> HIDE DEF M
  <1>3. ASSUME NEW id \in DOMAIN cs, ~cs[id].deleted PROVE LitsOf(cs[id]) \cap True(tr) # {}
    <2>1. Proper(cs[id])
      BY DEF ClausesOK
    <2>2. cs[id].lits[1] \in Pair(cs[id]) /\ cs[id].lits[1] \in LitsOf(cs[id]) /\ cs[id].lits[1] \in Lits
      BY <2>1, PairIn DEF Pair
    <2>3. cs[id].lits[1] \in True(tr) \/ cs[id].lits[1] \in False(tr)
      <3>1. Var(cs[id].lits[1]) \in Assigned(tr)
        BY <2>2, LitFacts
      <3> QED BY <3>1, <2>2, VarFree
    <2> QED BY <1>3, <2>2, <2>3, CaughtTrue
  <1>4. ASSUME NEW c \in P PROVE Satisfies(M, c)
    <2>1. CASE Tautology(c)
      <3>1. PICK l \in c : -l \in c
        BY <2>1 DEF Tautology
      <3> QED BY <3>1, HoldsFacts
    <2>2. CASE \E i \in DOMAIN tr : tr[i].lit \in c /\ TopLevel(lm, i)
      BY <2>2, <1>2, HoldsFacts
    <2>3. CASE \E id \in DOMAIN cs : cs[id].glue /\ LitsOf(cs[id]) \subseteq c
      <3>1. PICK id \in DOMAIN cs : cs[id].glue /\ LitsOf(cs[id]) \subseteq c
        BY <2>3
      <3>2. ~cs[id].deleted
        BY <3>1 DEF ClausesOK, Proper
      <3>3. PICK i \in DOMAIN tr : tr[i].lit \in LitsOf(cs[id])
        BY <3>2, <1>3 DEF True
      <3> QED BY <3>1, <3>3, <1>2, HoldsFacts
    <2> QED BY <2>1, <2>2, <2>3 DEF AllKept, Kept1
  <1> QED BY <1>4 DEF Fulfils, M

LEMMA AnswerSatKeeps ==
  ASSUME Inv, AnswerSat PROVE Inv'
  <1>1. /\ task = "search" /\ visiting = <<>> /\ conflict = None /\ qhead = Len(trail) /\ Unassigned = {}
        /\ answer' = [kind |-> "sat", model |-> {v \in Vars : v \in True(trail)}]
        /\ trail' = TrailAt(0) /\ lims' = LimsAt(0) /\ qhead' = QheadAt(0)
        /\ heap' = Freed(0) /\ phase' = PhaseAt(0) /\ task' = "idle"
        /\ UNCHANGED <<clauses, watches, visiting, conflict, unsat, lemma, left, todo, premises,
                       here, reductions, calls>>
    BY DEF AnswerSat, Quiet, Model, user, bounds
  <1>2. /\ OthersOK /\ TasksOK(task, lims, visiting, conflict, unsat)
        /\ Structure(clauses, watches, trail, lims, qhead, visiting, conflict) /\ HeapOK(heap, trail)
    BY DEF Inv
  <1>3. TrailOK(trail, lims) /\ trail \in Seq(StepType) /\ qhead \in Nat /\ ClausesOK(clauses)
        /\ phase \in [Vars -> BOOLEAN] /\ ~unsat /\ premises \in SUBSET (SUBSET Lits)
    BY <1>1, <1>2 DEF Structure, TrailOK, HeadOK, TasksOK, OthersOK
  <1>4. /\ Freed(0) \subseteq Vars /\ Assigned(trail) \subseteq Assigned(TrailAt(0)) \cup Freed(0)
        /\ PhaseAt(0) \in [Vars -> BOOLEAN]
    BY <1>3, BackState
  <1>5. Vars \subseteq Assigned(trail)
    BY <1>1, <1>2 DEF HeapOK, Unassigned
  <1>6. HeapOK(heap', trail') /\ heap' \subseteq Vars
    BY <1>1, <1>4, <1>5 DEF HeapOK
  <1>7. Fulfils({v \in Vars : v \in True(trail)}, premises)
    <2>1. Caught(clauses, trail, lims, SafeHead(qhead, lims, conflict), visiting) /\ AllKept(premises, clauses, trail, lims)
      BY <1>3 DEF Inv
    <2>2. Caught(clauses, trail, lims, Len(trail), <<>>)
      BY <2>1, <1>1 DEF SafeHead
    <2> QED BY <2>1, <2>2, <1>3, <1>5, ModelRight
  <1>8. answer'.kind = "sat" /\ answer'.model = {v \in Vars : v \in True(trail)}
    BY <1>1
  <1>9. OthersOK'
    BY <1>1, <1>2, <1>4, <1>6, <1>8 DEF OthersOK, Tasks
  <1>10. SatRight(answer', premises)
    BY <1>7, <1>8 DEF SatRight
  <1>11. phase' \in [Vars -> BOOLEAN]
    BY <1>1, <1>4
  <1> QED BY <1>1, <1>3, <1>6, <1>8, <1>9, <1>10, <1>11, RestInv

LEMMA GrowAgrees ==
  ASSUME NEW tr, NEW u, Longer(u, tr), NEW cs, NEW lm, NEW m, Agrees(m, cs, tr, lm),
         \A i \in DOMAIN u : i > Len(tr) /\ TopLevel(lm, i) => Holds(m, u[i].lit)
  PROVE  Agrees(m, cs, u, lm)
  <1>1. /\ \A i \in DOMAIN tr : i \in DOMAIN u /\ u[i] = tr[i]
        /\ \A i \in DOMAIN u : i \in DOMAIN tr \/ i > Len(tr)
    BY LongerFacts
  <1> QED BY <1>1 DEF Agrees
LEMMA GrowKept ==
  ASSUME NEW tr, NEW u, Longer(u, tr), NEW cs, NEW lm, NEW P, AllKept(P, cs, tr, lm)
  PROVE  AllKept(P, cs, u, lm)
  <1>1. \A i \in DOMAIN tr : i \in DOMAIN u /\ u[i] = tr[i]
    BY LongerFacts
  <1>2. ASSUME NEW c \in P PROVE Kept1(c, cs, u, lm)
    <2>1. Kept1(c, cs, tr, lm)
      BY DEF AllKept
    <2>2. (\E i \in DOMAIN tr : tr[i].lit \in c /\ TopLevel(lm, i)) =>
            \E i \in DOMAIN u : u[i].lit \in c /\ TopLevel(lm, i)
      BY <1>1
    <2> QED BY <2>1, <2>2 DEF Kept1
  <1> QED BY <1>2 DEF AllKept

LEMMA GrowStructure ==
  ASSUME NEW cs, NEW ws, NEW tr, NEW lm, NEW q, Structure(cs, ws, tr, lm, q, <<>>, None),
         NEW u, Longer(u, tr), TrailOK(u, lm), \A i \in DOMAIN u : i > Len(tr) => u[i].reason = None
  PROVE  Structure(cs, ws, u, lm, q, <<>>, None)
  <1>1. /\ ClausesOK(cs) /\ TrailOK(tr, lm) /\ ReasonsOK(cs, tr) /\ WatchesOK(cs, ws)
        /\ HeadOK(tr, lm, q, <<>>, None)
        /\ VisitOK(cs, ws, tr[q].lit, <<>>) /\ Complete(cs, ws, tr[q].lit, <<>>)
    BY DEF Structure
  <1>2. ReasonsOK(cs, u)
    BY <1>1, GrowReasons
  <1>3. HeadOK(u, lm, q, <<>>, None)
    BY <1>1, GrowHead
  <1>4. VisitOK(cs, ws, u[q].lit, <<>>) /\ Complete(cs, ws, u[q].lit, <<>>)
    BY <1>1, SameVisit
  <1>5. ConflictOK(cs, u, lm, None) /\ None \in Nat
    BY DEF ConflictOK, None
  <1> QED BY <1>1, <1>2, <1>3, <1>4, <1>5 DEF Structure

LEMMA PushStructure ==
  ASSUME NEW cs, NEW ws, NEW tr, NEW lm, Structure(cs, ws, tr, lm, Len(tr), <<>>, None)
  PROVE  /\ Structure(cs, ws, tr, Append(lm, Len(tr)), Len(tr), <<>>, None)
         /\ \A m : Agrees(m, cs, tr, lm) => Agrees(m, cs, tr, Append(lm, Len(tr)))
         /\ \A P : AllKept(P, cs, tr, lm) => AllKept(P, cs, tr, Append(lm, Len(tr)))
  <1> DEFINE n == Append(lm, Len(tr))
  <1>1. /\ ClausesOK(cs) /\ TrailOK(tr, lm) /\ ReasonsOK(cs, tr) /\ WatchesOK(cs, ws)
        /\ VisitOK(cs, ws, tr[Len(tr)].lit, <<>>) /\ Complete(cs, ws, tr[Len(tr)].lit, <<>>)
    BY DEF Structure
  <1>2. TrailOK(tr, n) /\ HeadOK(tr, n, Len(tr), <<>>, None)
        /\ \A i \in DOMAIN tr : TopLevel(n, i) <=> TopLevel(lm, i)
    BY <1>1, PushIs
  <1> HIDE DEF n
  <1>3. ConflictOK(cs, tr, n, None) /\ None \in Nat
    BY DEF ConflictOK, None
  <1>4. Structure(cs, ws, tr, n, Len(tr), <<>>, None)
    BY <1>1, <1>2, <1>3 DEF Structure
  <1>5. ASSUME NEW m, Agrees(m, cs, tr, lm) PROVE Agrees(m, cs, tr, n)
    BY <1>2, <1>5 DEF Agrees
  <1>6. ASSUME NEW P, AllKept(P, cs, tr, lm) PROVE AllKept(P, cs, tr, n)
    BY <1>2, <1>6 DEF AllKept, Kept1
  <1> QED BY <1>4, <1>5, <1>6 DEF n

LEMMA DecideKeeps ==
  ASSUME Inv, Decide PROVE Inv'
  <1>1. /\ task = "search" /\ visiting = <<>> /\ conflict = None /\ qhead = Len(trail)
        /\ UNCHANGED <<clauses, watches, qhead, visiting, conflict, phase, unsat, task, lemma, left, answer,
                       todo, premises, here, reductions, calls>>
    BY DEF Decide, Quiet, user, bounds
  <1>2. PICK v \in Unassigned :
          /\ heap' = Unassigned \ {v} /\ lims' = Append(lims, Len(trail))
          /\ trail' = Assign(trail, IF phase[v] THEN v ELSE -v, None)
    BY DEF Decide
  <1>3. /\ OthersOK /\ TasksOK(task, lims, visiting, conflict, unsat) /\ SatRight(answer, premises)
        /\ Structure(clauses, watches, trail, lims, qhead, visiting, conflict) /\ HeapOK(heap, trail)
        /\ DecisionsOK(trail, lims)
        /\ ~unsat => Caught(clauses, trail, lims, SafeHead(qhead, lims, conflict), visiting)
        /\ ~unsat => AllKept(premises, clauses, trail, lims)
        /\ Entailed(premises, clauses, trail, lims, task, lemma, unsat, answer)
    BY <1>1 DEF Inv
  <1>4. /\ TrailOK(trail, lims) /\ trail \in Seq(StepType) /\ Len(trail) \in Nat /\ heap \subseteq Vars
        /\ Structure(clauses, watches, trail, lims, Len(trail), <<>>, None)
        /\ ~unsat => Caught(clauses, trail, lims, Len(trail), <<>>)
    BY <1>1, <1>3, LenProperties DEF Structure, TrailOK, OthersOK, SafeHead
  <1> DEFINE n == Append(lims, Len(trail))
             l == IF phase[v] THEN v ELSE -v
             u == Assign(trail, l, None)
  <1>5. v \in Vars /\ v \in heap /\ v \notin Assigned(trail)
    BY <1>2, <1>4 DEF Unassigned
  <1>6. l \in Lits /\ Var(l) = v
    <2>1. v \in Lits /\ -v \in Lits /\ Var(v) = v /\ Var(-v) = v
      <3>1. v \in Lits
        BY <1>5 DEF Lits
      <3>2. Var(v) = v
        BY <1>5, VarsAssumption DEF Vars, Var
      <3> QED BY <3>1, <3>2, LitFacts
    <2> QED BY <2>1
  <1> HIDE DEF l
  <1>7. /\ TrailOK(trail, n) /\ DOMAIN n = 1 .. Len(lims) + 1 /\ n[Len(lims) + 1] = Len(trail)
        /\ ~unsat => Caught(clauses, trail, n, Len(trail), <<>>)
        /\ \A i : i > Len(trail) /\ i \in Nat => ~TopLevel(n, i)
        /\ DecisionsOK(trail, n)
    BY <1>3, <1>4, PushIs
  <1>8. /\ Structure(clauses, watches, trail, n, Len(trail), <<>>, None)
        /\ \A m : Agrees(m, clauses, trail, lims) => Agrees(m, clauses, trail, n)
        /\ \A P : AllKept(P, clauses, trail, lims) => AllKept(P, clauses, trail, n)
    BY <1>4, PushStructure
  <1> HIDE DEF n
  <1>9. None \in Nat
    BY DEF None
  <1>10. Structure(clauses, watches, u, n, Len(trail), <<>>, None)
    BY <1>5, <1>6, <1>8, <1>9, AssignStructure
  <1>11. /\ Longer(u, trail) /\ Assigned(u) = Assigned(trail) \cup {v} /\ Len(u) = Len(trail) + 1
    BY <1>5, <1>6, <1>7, <1>9, AssignIs
  <1> HIDE DEF u
  <1>12. \A i \in DOMAIN u : i \in Nat /\ (i > Len(trail) => i = Len(trail) + 1)
    BY <1>4, <1>11, LongerFacts
  <1>13. ~unsat => Caught(clauses, u, n, Len(trail), <<>>)
    <2>1. Len(trail) <= Len(trail)
      BY <1>4
    <2> QED BY <2>1, <1>4, <1>7, <1>11, GrowCaught
  <1>14. ~unsat => AllKept(premises, clauses, u, n)
    BY <1>3, <1>8, <1>11, GrowKept
  <1>15. ASSUME NEW m \in SUBSET Vars, Fulfils(m, premises)
         PROVE  Agrees(m, clauses, u, n) /\ ~unsat /\ answer.kind # "unsat"
    <2>1. Agrees(m, clauses, trail, lims) /\ ~unsat /\ answer.kind # "unsat"
      BY <1>3, <1>15 DEF Entailed
    <2>2. Agrees(m, clauses, trail, n)
      BY <2>1, <1>8
    <2>3. \A i \in DOMAIN u : i > Len(trail) /\ TopLevel(n, i) => Holds(m, u[i].lit)
      BY <1>7, <1>12
    <2> QED BY <2>1, <2>2, <2>3, <1>11, GrowAgrees
  <1>16. DecisionsOK(u, n)
    <2>1. Len(lims) + 1 \in DOMAIN n
      <3>1. Len(lims) \in Nat
        BY <1>4, LenProperties DEF TrailOK
      <3> QED BY <3>1, <1>7
    <2>2. \A i \in DOMAIN u : i > Len(trail) => \E k \in DOMAIN n : i = n[k] + 1
      BY <2>1, <1>7, <1>12
    <2> QED BY <2>2, <1>7, <1>11, GrowDecisions
  <1>17. HeapOK(heap', u) /\ heap' \subseteq Vars
    BY <1>2, <1>3, <1>4, <1>11 DEF HeapOK, Unassigned
  <1>18. trail' = u /\ lims' = n
    BY <1>2 DEF u, n, l
  <1>19. OthersOK'
    BY <1>1, <1>3, <1>17 DEF OthersOK
  <1>20. TasksOK(task', lims', visiting', conflict', unsat')
    BY <1>1, <1>3 DEF TasksOK
  <1>21. Entailed(premises', clauses', trail', lims', task', lemma', unsat', answer')
    BY <1>1, <1>15, <1>18 DEF Entailed, Supposes
  <1>22. SafeHead(qhead', lims', conflict') = Len(trail)
    BY <1>1 DEF SafeHead
  <1>23. /\ Structure(clauses', watches', trail', lims', qhead', visiting', conflict')
         /\ ~unsat' => Caught(clauses', trail', lims', SafeHead(qhead', lims', conflict'), visiting')
         /\ ~unsat' => AllKept(premises', clauses', trail', lims')
         /\ SatRight(answer', premises') /\ HeapOK(heap', trail') /\ DecisionsOK(trail', lims')
    BY <1>1, <1>3, <1>10, <1>13, <1>14, <1>16, <1>17, <1>18, <1>22
  <1> QED BY <1>19, <1>20, <1>21, <1>23 DEF Inv

Concat(u, s, a) == u = s \o a
LEMMA Joined ==
  ASSUME NEW T, NEW s \in Seq(T), NEW a \in Seq(T), NEW u, Concat(u, s, a)
  PROVE  /\ u \in Seq(T) /\ Len(s) \in Nat /\ Len(a) \in Nat /\ Len(u) = Len(s) + Len(a)
         /\ DOMAIN s = 1 .. Len(s) /\ DOMAIN a = 1 .. Len(a) /\ DOMAIN u = 1 .. Len(s) + Len(a)
         /\ \A i \in DOMAIN s : i \in DOMAIN u /\ u[i] = s[i]
         /\ \A i \in DOMAIN a : Len(s) + i \in DOMAIN u /\ u[Len(s) + i] = a[i]
         /\ \A i \in DOMAIN u : i \in DOMAIN s \/ (i > Len(s) /\ i - Len(s) \in DOMAIN a /\ u[i] = a[i - Len(s)])
  <1>1. /\ s \o a \in Seq(T) /\ Len(s \o a) = Len(s) + Len(a)
        /\ \A i \in 1 .. Len(s) + Len(a) : (s \o a)[i] = IF i <= Len(s) THEN s[i] ELSE a[i - Len(s)]
    BY ConcatProperties
  <1>2. Len(s) \in Nat /\ Len(a) \in Nat /\ DOMAIN s = 1 .. Len(s) /\ DOMAIN a = 1 .. Len(a)
        /\ DOMAIN (s \o a) = 1 .. Len(s) + Len(a)
    BY <1>1, LenProperties
  <1>3. \A i \in 1 .. Len(s) : i \in 1 .. Len(s) + Len(a) /\ (s \o a)[i] = s[i]
    BY <1>1, <1>2
  <1>4. \A i \in 1 .. Len(a) : Len(s) + i \in 1 .. Len(s) + Len(a) /\ (s \o a)[Len(s) + i] = a[i]
    BY <1>1, <1>2
  <1>5. \A i \in 1 .. Len(s) + Len(a) :
          i \in 1 .. Len(s) \/ (i > Len(s) /\ i - Len(s) \in 1 .. Len(a) /\ (s \o a)[i] = a[i - Len(s)])
    BY <1>1, <1>2
  <1>6. u = s \o a
    BY DEF Concat
  <1> QED BY <1>1, <1>2, <1>3, <1>4, <1>5, <1>6

\* The literals of a lemma not false yet are made false.
Negated(S) == [i \in 1 .. Cardinality(S) |-> [lit |-> -SetToSeq(S)[i], reason |-> None]]
Extended(u, tr, S) == u = tr \o Negated(S)
Single(s, n) == s \in Seq(Nat) /\ DOMAIN s = {1} /\ s[1] = n
LEMMA NegatedIs ==
  ASSUME NEW tr, TrailOK(tr, <<>>), NEW S \in SUBSET Lits, ~Tautology(S),
         S \cap True(tr) = {}, S \cap False(tr) = {},
         NEW u, Extended(u, tr, S), NEW s, Single(s, Len(tr))
  PROVE  /\ Longer(u, tr) /\ TrailOK(u, s)
         /\ \A i \in DOMAIN u : i > Len(tr) => u[i].reason = None /\ -u[i].lit \in S
         /\ Assigned(tr) \subseteq Assigned(u)
  <1> DEFINE n == Cardinality(S)
             e == SetToSeq(S)
             a == Negated(S)
  <1>1. /\ n \in Nat /\ e \in [1 .. n -> S] /\ \A i, j \in 1 .. n : e[i] = e[j] => i = j
    <2>1. IsFiniteSet(S)
      BY LitsFinite
    <2> QED BY <2>1, SetToSeqIs
  <1>16. a = [i \in 1 .. n |-> [lit |-> -e[i], reason |-> None]]
    BY DEF Negated
  <1> HIDE DEF n, e, a
  <1>2. \A i \in 1 .. n : e[i] \in S /\ e[i] \in Lits /\ -e[i] \in Lits /\ -(-e[i]) = e[i] /\ Var(-e[i]) = Var(e[i])
    BY <1>1, LitFacts
  <1>3. a \in Seq(StepType) /\ Len(a) = n /\ DOMAIN a = 1 .. n
        /\ \A i \in 1 .. n : a[i].lit = -e[i] /\ a[i].reason = None
    <2>1. \A i \in 1 .. n : [lit |-> -e[i], reason |-> None] \in StepType
      BY <1>2 DEF StepType, None
    <2> QED BY <2>1, <1>1, <1>16
  <1>4. tr \in Seq(StepType) /\ \A i, j \in DOMAIN tr : Var(tr[i].lit) = Var(tr[j].lit) => i = j
    BY DEF TrailOK
  <1>5. /\ Len(tr) \in Nat /\ DOMAIN tr = 1 .. Len(tr) /\ \A i \in 1 .. Len(tr) : tr[i] \in StepType
    BY <1>4, LenProperties, ElementOfSeq
  <1>6. Concat(u, tr, a)
    BY DEF a, Extended, Concat
  <1>7. /\ u \in Seq(StepType) /\ Len(u) = Len(tr) + n
        /\ DOMAIN u = 1 .. Len(tr) + n
        /\ \A i \in DOMAIN tr : i \in DOMAIN u /\ u[i] = tr[i]
        /\ \A i \in DOMAIN u : i \in DOMAIN tr \/ (i > Len(tr) /\ i - Len(tr) \in DOMAIN a /\ u[i] = a[i - Len(tr)])
    <2>1. /\ u \in Seq(StepType) /\ Len(u) = Len(tr) + Len(a) /\ DOMAIN u = 1 .. Len(tr) + Len(a)
          /\ \A i \in DOMAIN tr : i \in DOMAIN u /\ u[i] = tr[i]
          /\ \A i \in DOMAIN u : i \in DOMAIN tr \/ (i > Len(tr) /\ i - Len(tr) \in DOMAIN a /\ u[i] = a[i - Len(tr)])
      <3>1. a \in Seq(StepType) /\ tr \in Seq(StepType)
        BY <1>3, <1>4
      <3> QED BY <3>1, <1>6, Joined
    <2> QED BY <2>1, <1>3
  <1>8. DOMAIN u = 1 .. Len(tr) + n
    BY <1>7
  <1>9. \A i \in DOMAIN tr : i \in DOMAIN u /\ u[i] = tr[i]
    BY <1>7
  <1>10. \A i \in DOMAIN u : i \in DOMAIN tr \/ (i > Len(tr) /\ i - Len(tr) \in 1 .. n /\ u[i] = a[i - Len(tr)])
    BY <1>3, <1>7
  <1>11. Longer(u, tr)
    BY <1>1, <1>4, <1>5, <1>7, <1>9 DEF Longer
  <1>12. \A i \in DOMAIN u : i > Len(tr) => u[i].reason = None /\ -u[i].lit \in S
    <2>1. ASSUME NEW i \in DOMAIN u, i > Len(tr) PROVE u[i].reason = None /\ -u[i].lit \in S
      <3>1. i - Len(tr) \in 1 .. n /\ u[i] = a[i - Len(tr)]
        BY <2>1, <1>5, <1>10
      <3> QED BY <3>1, <1>2, <1>3
    <2> QED BY <2>1
  <1>13. ASSUME NEW i \in DOMAIN u, NEW j \in DOMAIN u, Var(u[i].lit) = Var(u[j].lit)
         PROVE  i = j
    <2>1. ASSUME NEW x \in 1 .. n, NEW y \in DOMAIN tr, Var(a[x].lit) = Var(tr[y].lit) PROVE FALSE
      <3>1. Var(e[x]) \in Assigned(tr)
        BY <2>1, <1>2, <1>3 DEF Assigned
      <3>2. e[x] \notin True(tr) /\ e[x] \notin False(tr) /\ e[x] \in Lits
        BY <1>2
      <3> QED BY <3>1, <3>2, <1>4, VarFree
    <2>2. ASSUME NEW x \in 1 .. n, NEW y \in 1 .. n, Var(a[x].lit) = Var(a[y].lit) PROVE x = y
      <3>1. Var(e[x]) = Var(e[y])
        BY <2>2, <1>2, <1>3
      <3>2. e[x] = e[y] \/ e[x] = -e[y]
        BY <3>1, <1>2, SameVar
      <3>3. e[x] # -e[y]
        BY <1>2 DEF Tautology
      <3> QED BY <3>2, <3>3, <1>1
    <2>3. CASE i \in DOMAIN tr /\ j \in DOMAIN tr
      BY <2>3, <1>4, <1>9, <1>13
    <2>4. CASE i \in DOMAIN tr /\ j \notin DOMAIN tr
      BY <2>1, <2>4, <1>9, <1>10, <1>13
    <2>5. CASE i \notin DOMAIN tr /\ j \in DOMAIN tr
      BY <2>1, <2>5, <1>9, <1>10, <1>13
    <2>6. CASE i \notin DOMAIN tr /\ j \notin DOMAIN tr
      <3>1. i - Len(tr) \in 1 .. n /\ j - Len(tr) \in 1 .. n /\ u[i] = a[i - Len(tr)] /\ u[j] = a[j - Len(tr)]
        BY <2>6, <1>10
      <3>2. i - Len(tr) = j - Len(tr)
        BY <3>1, <2>2, <1>13
      <3>3. i \in Int /\ j \in Int
        BY <1>1, <1>5, <1>8
      <3> QED BY <3>2, <3>3, <1>5
    <2> QED BY <2>3, <2>4, <2>5, <2>6
  <1>14. TrailOK(u, s)
    <2>1. s \in Seq(Nat) /\ DOMAIN s = {1} /\ s[1] = Len(tr)
      BY DEF Single
    <2>2. Len(tr) <= Len(u)
      BY <1>1, <1>5, <1>7
    <2> QED BY <2>1, <2>2, <1>5, <1>7, <1>13 DEF TrailOK
  <1>15. Assigned(tr) \subseteq Assigned(u)
    BY <1>9 DEF Assigned
  <1> QED BY <1>11, <1>12, <1>14, <1>15

LEMMA AppendEmpty ==
  ASSUME NEW n \in Nat
  PROVE  Append(<<>>, n) = <<n>>
  OBVIOUS

LEMMA TryLemmaKeeps ==
  ASSUME Inv, TryLemma PROVE Inv'
  <1>1. /\ OthersOK /\ TasksOK(task, lims, visiting, conflict, unsat) /\ SatRight(answer, premises)
        /\ Structure(clauses, watches, trail, lims, qhead, visiting, conflict) /\ HeapOK(heap, trail)
        /\ ~unsat => Caught(clauses, trail, lims, SafeHead(qhead, lims, conflict), visiting)
        /\ ~unsat => AllKept(premises, clauses, trail, lims)
        /\ Entailed(premises, clauses, trail, lims, task, lemma, unsat, answer)
    BY DEF Inv
  <1>2. /\ task = "top" /\ visiting = <<>> /\ conflict = None /\ qhead = Len(trail)
        /\ UNCHANGED <<lemma, left, answer, todo, premises, here, reductions, calls>>
    BY DEF TryLemma, Quiet, user, bounds
  <1>3. lims = <<>> /\ ~unsat /\ lemma \in SUBSET Lits
    BY <1>1, <1>2 DEF TasksOK, OthersOK
  <1>4. /\ trail \in Seq(StepType) /\ TrailOK(trail, <<>>) /\ Len(trail) \in Nat
        /\ Structure(clauses, watches, trail, <<>>, Len(trail), <<>>, None)
        /\ Caught(clauses, trail, <<>>, Len(trail), <<>>) /\ AllKept(premises, clauses, trail, <<>>)
    BY <1>1, <1>2, <1>3, LenProperties DEF Structure, TrailOK, SafeHead
  <1>5. \A m \in SUBSET Vars : Fulfils(m, premises) =>
          Agrees(m, clauses, trail, <<>>) /\ answer.kind # "unsat"
    BY <1>1, <1>3 DEF Entailed
  <1>6. CASE Tautology(lemma) \/ lemma \cap True(trail) # {}
    <2>1. Incoming(lemma, <<>>, TRUE, Log(db, lemma))
      BY <1>6 DEF TryLemma
    <2>2. ASSUME NEW m \in SUBSET Vars, Fulfils(m, premises) PROVE Satisfies(m, lemma)
      <3>1. CASE Tautology(lemma)
        <4>1. PICK l \in lemma : -l \in lemma
          BY <3>1 DEF Tautology
        <4> QED BY <4>1, <1>3, HoldsFacts
      <3>2. CASE lemma \cap True(trail) # {}
        <4>1. PICK i \in DOMAIN trail : trail[i].lit \in lemma
          BY <3>2 DEF True
        <4>2. Holds(m, trail[i].lit)
          BY <2>2, <1>5, TopOfEmpty DEF Agrees
        <4> QED BY <4>1, <4>2, HoldsFacts
      <3> QED BY <3>1, <3>2, <1>6
    <2>3. UNCHANGED <<lemma, left, here, bounds>> /\ todo' \in Seq(AddType) /\ premises' = premises
          /\ answer' = answer
      BY <1>1, <1>2 DEF OthersOK, bounds
    <2> QED BY <2>1, <2>2, <2>3, <1>2, <1>3, IncomingInv
  <1>7. CASE ~ (Tautology(lemma) \/ lemma \cap True(trail) # {})
    <2> DEFINE S == lemma \ False(trail)
               u == trail \o Negated(S)
               n == Append(<<>>, Len(trail))
    <2>1. /\ trail' = u /\ lims' = n /\ task' = "probe"
          /\ UNCHANGED <<clauses, watches, qhead, visiting, conflict, heap, phase, unsat>>
      BY <1>3, <1>7 DEF TryLemma, Negated
    <2>2. S \in SUBSET Lits /\ ~Tautology(S) /\ S \cap True(trail) = {} /\ S \cap False(trail) = {}
      BY <1>3, <1>7 DEF Tautology
    <2>3. n = <<Len(trail)>>
      BY <1>4, AppendEmpty
    <2>4. /\ Longer(u, trail) /\ TrailOK(u, n)
          /\ \A i \in DOMAIN u : i > Len(trail) => u[i].reason = None /\ -u[i].lit \in S
          /\ Assigned(trail) \subseteq Assigned(u)
      <3>1. Extended(u, trail, S)
        BY DEF Extended
      <3>2. Single(n, Len(trail))
        <4>1. <<Len(trail)>> \in Seq(Nat) /\ DOMAIN <<Len(trail)>> = {1} /\ <<Len(trail)>>[1] = Len(trail)
          BY <1>4
        <4> QED BY <4>1, <2>3 DEF Single
      <3> HIDE DEF u, S, n
      <3> QED BY <3>1, <3>2, <2>2, <1>4, NegatedIs
    <2> HIDE DEF u, S
    <2>5. /\ Caught(clauses, trail, n, Len(trail), <<>>)
          /\ \A i : i > Len(trail) /\ i \in Nat => ~TopLevel(n, i)
      BY <1>4, PushIs
    <2>6. /\ Structure(clauses, watches, trail, n, Len(trail), <<>>, None)
          /\ \A m : Agrees(m, clauses, trail, <<>>) => Agrees(m, clauses, trail, n)
          /\ \A P : AllKept(P, clauses, trail, <<>>) => AllKept(P, clauses, trail, n)
      BY <1>4, PushStructure
    <2>7. Len(n) = 1
      BY <2>3
    <2> HIDE DEF n
    <2>8. Structure(clauses, watches, u, n, Len(trail), <<>>, None)
      BY <2>4, <2>6, GrowStructure
    <2>9. Caught(clauses, u, n, Len(trail), <<>>)
      <3>1. Len(trail) <= Len(trail)
        BY <1>4
      <3> QED BY <3>1, <2>4, <2>5, <1>4, GrowCaught
    <2>10. AllKept(premises, clauses, u, n)
      BY <2>4, <2>6, <1>4, GrowKept
    <2>11. /\ \A i \in DOMAIN u : i \in Nat /\ u[i].lit \in Lits
           /\ \A i \in DOMAIN u : i > Len(trail) \/ (i \in DOMAIN trail /\ u[i] = trail[i])
      BY <2>4, LongerFacts
    <2>12. ASSUME NEW m \in SUBSET Vars, Fulfils(m, premises)
           PROVE  Agrees(m, clauses, u, n) /\ Supposes(m, "probe", lemma, u) /\ answer.kind # "unsat"
      <3>1. Agrees(m, clauses, trail, <<>>) /\ Agrees(m, clauses, trail, n) /\ answer.kind # "unsat"
        BY <2>6, <2>12, <1>5
      <3>2. \A i \in DOMAIN u : i > Len(trail) /\ TopLevel(n, i) => Holds(m, u[i].lit)
        BY <2>5, <2>11
      <3>3. Agrees(m, clauses, u, n)
        BY <3>1, <3>2, <2>4, GrowAgrees
      <3>4. ASSUME ~Satisfies(m, lemma), NEW i \in DOMAIN u PROVE Holds(m, u[i].lit)
        <4>1. CASE i > Len(trail)
          <5>1. -u[i].lit \in lemma
            BY <4>1, <2>4 DEF S
          <5>2. ~Holds(m, -u[i].lit)
            BY <5>1, <3>4, HoldsFacts
          <5> QED BY <5>2, <2>11, HoldsFacts
        <4>2. CASE i \in DOMAIN trail /\ u[i] = trail[i]
          BY <4>2, <3>1, TopOfEmpty DEF Agrees
        <4> QED BY <4>1, <4>2, <2>11
      <3> QED BY <3>1, <3>3, <3>4 DEF Supposes
    <2>13. HeapOK(heap, u)
      BY <2>4, <1>1 DEF HeapOK
    <2>14. Entailed(premises', clauses', trail', lims', task', lemma', unsat', answer')
      BY <2>1, <2>12, <1>2, <1>3 DEF Entailed
    <2>15. SafeHead(qhead', lims', conflict') = Len(trail)
      BY <2>1, <1>2 DEF SafeHead
    <2>16. TasksOK(task', lims', visiting', conflict', unsat')
      BY <2>1, <2>7, <1>3 DEF TasksOK
    <2>17. OthersOK'
      BY <2>1, <1>1, <1>2 DEF OthersOK, Tasks
    <2>18. /\ Structure(clauses', watches', trail', lims', qhead', visiting', conflict')
           /\ ~unsat' => Caught(clauses', trail', lims', SafeHead(qhead', lims', conflict'), visiting')
           /\ ~unsat' => AllKept(premises', clauses', trail', lims')
           /\ SatRight(answer', premises') /\ HeapOK(heap', trail')
      BY <2>1, <2>8, <2>9, <2>10, <2>13, <2>15, <1>1, <1>2
    <2>19. task' = "probe"
      BY <2>1
    <2> QED BY <2>14, <2>16, <2>17, <2>18, <2>19 DEF Inv
  <1> QED BY <1>6, <1>7

LEMMA ContradictionKeeps ==
  ASSUME Inv, Contradiction PROVE Inv'
  <1>1. /\ OthersOK /\ TasksOK(task, lims, visiting, conflict, unsat) /\ SatRight(answer, premises)
        /\ Structure(clauses, watches, trail, lims, qhead, visiting, conflict) /\ HeapOK(heap, trail)
        /\ Entailed(premises, clauses, trail, lims, task, lemma, unsat, answer)
    BY DEF Inv
  <1>2. /\ conflict # None /\ Len(lims) = 0 /\ unsat' = TRUE /\ task' = "idle" /\ conflict' = None
        /\ answer' = (IF task = "search" THEN [kind |-> "unsat"] ELSE answer)
        /\ UNCHANGED <<clauses, watches, trail, lims, qhead, visiting, heap, phase, lemma, left,
                       todo, premises, here, reductions, calls>>
    BY DEF Contradiction, DecisionLevel, user, bounds
  <1>3. /\ ClausesOK(clauses) /\ TrailOK(trail, lims) /\ ReasonsOK(clauses, trail) /\ WatchesOK(clauses, watches)
        /\ HeadOK(trail, lims, qhead, visiting, conflict) /\ ConflictOK(clauses, trail, lims, conflict)
        /\ VisitOK(clauses, watches, trail[qhead].lit, visiting)
        /\ Complete(clauses, watches, trail[qhead].lit, visiting)
    BY <1>1 DEF Structure
  <1>4. visiting = <<>> /\ trail \in Seq(StepType) /\ lims \in Seq(Nat)
    BY <1>2, <1>3 DEF HeadOK, TrailOK
  <1>5. lims = <<>>
    BY <1>2, <1>4, EmptySeq
  <1>6. HeadOK(trail, lims, qhead, visiting, None) /\ ConflictOK(clauses, trail, lims, None) /\ None \in Nat
    BY <1>3, <1>4 DEF HeadOK, ConflictOK, None
  <1>7. Structure(clauses, watches, trail, lims, qhead, visiting, None)
    BY <1>3, <1>6 DEF Structure
  <1>8. \A m \in SUBSET Vars : ~Fulfils(m, premises)
    <2>1. ASSUME NEW m \in SUBSET Vars, Fulfils(m, premises) PROVE FALSE
      <3>1. Agrees(m, clauses, trail, lims)
        BY <2>1, <1>1 DEF Entailed
      <3>2. \A i \in DOMAIN trail : Holds(m, trail[i].lit)
        BY <3>1, <1>5, TopOfEmpty DEF Agrees
      <3> QED BY <3>1, <3>2, <1>2, <1>3, <1>4, ProbeImplies
    <2> QED BY <2>1
  <1>9. answer'.kind \in {"none", "unknown", "unsat", "sat"} /\ (answer'.kind = "sat" => answer'.model \in SUBSET Vars)
        /\ SatRight(answer', premises)
    <2>1. CASE task = "search"
      BY <2>1, <1>2 DEF SatRight
    <2>2. CASE task # "search"
      <3>1. answer' = answer
        BY <2>2, <1>2
      <3> QED BY <3>1, <1>1 DEF OthersOK
    <2> QED BY <2>1, <2>2
  <1>10. OthersOK'
    BY <1>1, <1>2, <1>9 DEF OthersOK, Tasks
  <1>11. TasksOK(task', lims', visiting', conflict', unsat')
    BY <1>2, <1>4 DEF TasksOK
  <1>12. Entailed(premises', clauses', trail', lims', task', lemma', unsat', answer')
    BY <1>2, <1>8 DEF Entailed
  <1>13. DecisionsOK(trail', lims')
    BY <1>2, <1>5 DEF DecisionsOK
  <1>14. /\ Structure(clauses', watches', trail', lims', qhead', visiting', conflict')
         /\ unsat' /\ SatRight(answer', premises') /\ HeapOK(heap', trail')
    BY <1>1, <1>2, <1>7, <1>9
  <1> QED BY <1>10, <1>11, <1>12, <1>13, <1>14 DEF Inv

\* A call that begins or pauses: the clauses, the watches and the trail stay.
LEMMA CallInv ==
  ASSUME Inv, task # "probe", UNCHANGED <<search, unsat, lemma, premises>>,
         task' # "probe", OthersOK', TasksOK(task', lims, visiting, conflict, unsat),
         answer'.kind # "sat", answer'.kind = "unsat" => unsat
  PROVE  Inv'
  <1>1. /\ UNCHANGED <<clauses, watches, trail, lims, qhead, visiting, conflict, heap, unsat, premises>>
    BY DEF search
  <1>2. /\ Structure(clauses', watches', trail', lims', qhead', visiting', conflict')
        /\ ~unsat' => Caught(clauses', trail', lims', SafeHead(qhead', lims', conflict'), visiting')
        /\ ~unsat' => AllKept(premises', clauses', trail', lims')
        /\ HeapOK(heap', trail') /\ DecisionsOK(trail', lims')
        /\ TasksOK(task', lims', visiting', conflict', unsat')
    BY <1>1 DEF Inv
  <1>3. SatRight(answer', premises')
    BY DEF SatRight
  <1>4. Entailed(premises', clauses', trail', lims', task', lemma', unsat', answer')
    <2>1. \A m \in SUBSET Vars : Fulfils(m, premises) => Agrees(m, clauses, trail, lims) /\ ~unsat
      BY DEF Inv, Entailed
    <2> QED BY <2>1, <1>1 DEF Entailed, Supposes
  <1> QED BY <1>2, <1>3, <1>4 DEF Inv

LEMMA SolveKeeps ==
  ASSUME Inv, Solve PROVE Inv'
  <1>1. /\ task = "idle" /\ calls' = calls + 1
        /\ UNCHANGED <<search, heap, phase, unsat, lemma, premises, todo, here, reductions>>
        /\ \/ unsat /\ answer' = [kind |-> "unsat"] /\ UNCHANGED <<task, left>>
           \/ ~unsat /\ task' = "search" /\ left' \in Limits /\ answer' = [kind |-> "none"]
    BY DEF Solve, search, user
  <1>2. OthersOK /\ TasksOK(task, lims, visiting, conflict, unsat)
    BY DEF Inv
  <1>3. answer'.kind \in {"none", "unsat"} /\ (answer'.kind = "unsat" => unsat) /\ answer'.kind # "sat"
    BY <1>1
  <1>4. task' \in {"idle", "search"} /\ left' \in [conflicts : Int, propagations : Int]
        /\ (task' = "search" => ~unsat)
    <2>1. CASE unsat
      <3>1. left' = left /\ task' = "idle"
        BY <1>1, <2>1
      <3> QED BY <3>1, <1>2 DEF OthersOK
    <2>2. CASE ~unsat
      BY <2>2, <1>1, LimitsAssumption
    <2> QED BY <2>1, <2>2
  <1>5. OthersOK'
    BY <1>1, <1>2, <1>3, <1>4 DEF OthersOK, Tasks
  <1>6. TasksOK(task', lims, visiting, conflict, unsat)
    BY <1>1, <1>2, <1>4 DEF TasksOK
  <1>7. UNCHANGED <<search, unsat, lemma, premises>> /\ task # "probe" /\ task' # "probe"
    BY <1>1, <1>4
  <1> QED BY <1>3, <1>5, <1>6, <1>7, CallInv

LEMMA PauseKeeps ==
  ASSUME Inv, Pause PROVE Inv'
  <1>1. /\ task = "search" /\ conflict = None /\ visiting = <<>> /\ task' = "idle" /\ answer' = [kind |-> "unknown"]
        /\ UNCHANGED <<search, heap, phase, unsat, lemma, left, premises, todo, here, reductions, calls>>
    BY DEF Pause, Exhausted, search, user, bounds
  <1>2. OthersOK
    BY DEF Inv
  <1>3. answer'.kind = "unknown"
    BY <1>1
  <1>4. OthersOK'
    BY <1>1, <1>2, <1>3 DEF OthersOK, Tasks
  <1>5. TasksOK(task', lims, visiting, conflict, unsat)
    BY <1>1 DEF TasksOK
  <1>6. UNCHANGED <<search, unsat, lemma, premises>> /\ task # "probe" /\ task' # "probe"
    BY <1>1
  <1> QED BY <1>3, <1>4, <1>5, <1>6, CallInv

-----------------------------------------------------------------------------
(* Propagation. *)

\* A sequence with the elements of another, each as often.
Rearranged(v, s, T) ==
  /\ v \in Seq(T) /\ s \in Seq(T)
  /\ \E f \in [DOMAIN v -> DOMAIN s] :
       /\ \A i \in DOMAIN v : v[i] = s[f[i]]
       /\ \A i, j \in DOMAIN v : f[i] = f[j] => i = j
       /\ \A k \in DOMAIN s : \E i \in DOMAIN v : f[i] = k
LEMMA OnlyAll ==
  ASSUME NEW T, NEW s \in Seq(T), NEW K \in SUBSET DOMAIN s
  PROVE  \A k \in K : \E i \in 1 .. Cardinality(K) : InOrder(K)[i] = k
  BY OnlyIs
LEMMA Parted ==
  ASSUME NEW T, NEW s \in Seq(T), NEW K \in SUBSET DOMAIN s, NEW v, Concat(v, Only(s, DOMAIN s \ K), Only(s, K))
  PROVE  Rearranged(v, s, T)
  <1> DEFINE A == DOMAIN s \ K
             a == Only(s, A)
             b == Only(s, K)
             na == Cardinality(A)
             nb == Cardinality(K)
             fa == InOrder(A)
             fb == InOrder(K)
  <1>1. /\ na \in Nat /\ a \in Seq(T) /\ Len(a) = na /\ DOMAIN a = 1 .. na /\ fa \in [1 .. na -> A]
        /\ \A i \in 1 .. na : a[i] = s[fa[i]]
        /\ \A i, j \in 1 .. na : fa[i] = fa[j] => i = j
        /\ \A k \in A : \E i \in 1 .. na : fa[i] = k
    <2>1. A \in SUBSET DOMAIN s
      OBVIOUS
    <2>3. \A k \in A : \E i \in 1 .. na : fa[i] = k
      <3> HIDE DEF A
      <3> QED BY <2>1, OnlyAll
    <2>4. /\ na \in Nat /\ a \in Seq(T) /\ Len(a) = na /\ DOMAIN a = 1 .. na /\ fa \in [1 .. na -> A]
          /\ \A i \in 1 .. na : a[i] = s[fa[i]]
          /\ \A i, j \in 1 .. na : fa[i] = fa[j] => i = j
      <3> HIDE DEF A
      <3> QED BY <2>1, OnlyIs
    <2> HIDE DEF A, a, na, fa
    <2> QED BY <2>3, <2>4
  <1>2. /\ nb \in Nat /\ b \in Seq(T) /\ Len(b) = nb /\ DOMAIN b = 1 .. nb /\ fb \in [1 .. nb -> K]
        /\ \A i \in 1 .. nb : b[i] = s[fb[i]]
        /\ \A i, j \in 1 .. nb : fb[i] = fb[j] => i = j
        /\ \A k \in K : \E i \in 1 .. nb : fb[i] = k
    <2>3. \A k \in K : \E i \in 1 .. nb : fb[i] = k
      BY OnlyAll
    <2>4. /\ nb \in Nat /\ b \in Seq(T) /\ Len(b) = nb /\ DOMAIN b = 1 .. nb /\ fb \in [1 .. nb -> K]
          /\ \A i \in 1 .. nb : b[i] = s[fb[i]]
          /\ \A i, j \in 1 .. nb : fb[i] = fb[j] => i = j
      BY OnlyIs
    <2> HIDE DEF b, nb, fb
    <2> QED BY <2>3, <2>4
  <1>3. Concat(v, a, b)
    OBVIOUS
  <1>4. A \subseteq DOMAIN s /\ A \cap K = {} /\ DOMAIN s = A \cup K
    OBVIOUS
  <1> HIDE DEF A, a, b, na, nb, fa, fb
  <1>5. /\ v \in Seq(T) /\ DOMAIN v = 1 .. na + nb
        /\ \A i \in DOMAIN a : i \in DOMAIN v /\ v[i] = a[i]
        /\ \A i \in DOMAIN b : na + i \in DOMAIN v /\ v[na + i] = b[i]
    <2>1. /\ v \in Seq(T) /\ DOMAIN v = 1 .. Len(a) + Len(b)
          /\ \A i \in DOMAIN a : i \in DOMAIN v /\ v[i] = a[i]
          /\ \A i \in DOMAIN b : Len(a) + i \in DOMAIN v /\ v[Len(a) + i] = b[i]
      BY <1>1, <1>2, <1>3, Joined
    <2> QED BY <2>1, <1>1, <1>2
  <1>6. \A i \in DOMAIN v : i \in 1 .. na \/ (i \notin 1 .. na /\ i - na \in 1 .. nb /\ i = na + (i - na))
    BY <1>1, <1>2, <1>5
  <1> DEFINE f == [i \in DOMAIN v |-> IF i \in 1 .. na THEN fa[i] ELSE fb[i - na]]
  <1>7. \A i \in DOMAIN v : \/ i \in 1 .. na /\ f[i] = fa[i] /\ fa[i] \in A
                            \/ i \notin 1 .. na /\ i - na \in 1 .. nb /\ f[i] = fb[i - na] /\ fb[i - na] \in K
    BY <1>1, <1>2, <1>6
  <1>8. f \in [DOMAIN v -> DOMAIN s]
    BY <1>4, <1>7
  <1> HIDE DEF f
  <1>9. \A i \in DOMAIN v : v[i] = s[f[i]]
    <2>1. ASSUME NEW i \in DOMAIN v PROVE v[i] = s[f[i]]
      <3>1. CASE i \in 1 .. na
        BY <3>1, <1>1, <1>5, <1>7
      <3>2. CASE i \notin 1 .. na
        <4>1. i - na \in 1 .. nb /\ i = na + (i - na) /\ f[i] = fb[i - na]
          BY <3>2, <1>6, <1>7
        <4>2. v[na + (i - na)] = b[i - na]
          BY <4>1, <1>2, <1>5
        <4> QED BY <4>1, <4>2, <1>2
      <3> QED BY <3>1, <3>2
    <2> QED BY <2>1
  <1>10. \A i, j \in DOMAIN v : f[i] = f[j] => i = j
    <2>1. ASSUME NEW i \in DOMAIN v, NEW j \in DOMAIN v, f[i] = f[j] PROVE i = j
      <3>1. CASE i \in 1 .. na /\ j \in 1 .. na
        BY <3>1, <2>1, <1>1, <1>7
      <3>2. CASE i \notin 1 .. na /\ j \notin 1 .. na
        <4>1. i - na = j - na
          BY <3>2, <2>1, <1>2, <1>7
        <4>2. i = na + (i - na) /\ j = na + (j - na)
          BY <3>2, <1>6
        <4> QED BY <4>1, <4>2
      <3>3. CASE i \in 1 .. na /\ j \notin 1 .. na
        BY <3>3, <2>1, <1>4, <1>7
      <3>4. CASE i \notin 1 .. na /\ j \in 1 .. na
        BY <3>4, <2>1, <1>4, <1>7
      <3> QED BY <3>1, <3>2, <3>3, <3>4
    <2> QED BY <2>1
  <1>11. \A k \in DOMAIN s : \E i \in DOMAIN v : f[i] = k
    <2>1. ASSUME NEW k \in A PROVE \E i \in DOMAIN v : f[i] = k
      <3>1. PICK i \in 1 .. na : fa[i] = k
        BY <1>1
      <3>2. i \in DOMAIN v
        BY <1>1, <1>5
      <3> QED BY <3>1, <3>2, <1>7
    <2>2. ASSUME NEW k \in K PROVE \E i \in DOMAIN v : f[i] = k
      <3>1. PICK i \in 1 .. nb : fb[i] = k
        BY <1>2
      <3>2. na + i \in DOMAIN v
        BY <1>2, <1>5
      <3>3. na + i \notin 1 .. na /\ (na + i) - na = i
        BY <1>1, <1>2
      <3>4. f[na + i] = k
        BY <3>1, <3>2, <3>3, <1>7
      <3> QED BY <3>2, <3>4
    <2> QED BY <2>1, <2>2, <1>4
  <1> QED BY <1>5, <1>8, <1>9, <1>10, <1>11 DEF Rearranged

LEMMA RearrangedList ==
  ASSUME NEW cs, NEW p, NEW s, ListOK(cs, p, s), NEW v, Rearranged(v, s, WatchType)
  PROVE  ListOK(cs, p, v) /\ \A id : Has(v, id) <=> Has(s, id)
  <1>1. PICK f \in [DOMAIN v -> DOMAIN s] :
          /\ \A i \in DOMAIN v : v[i] = s[f[i]]
          /\ \A i, j \in DOMAIN v : f[i] = f[j] => i = j
          /\ \A k \in DOMAIN s : \E i \in DOMAIN v : f[i] = k
    BY DEF Rearranged
  <1>2. \A i \in DOMAIN v : Fits(cs, p, v[i])
    BY <1>1 DEF ListOK
  <1>3. Once(v)
    BY <1>1 DEF ListOK, Once
  <1>4. \A id : Has(v, id) <=> Has(s, id)
    BY <1>1 DEF Has
  <1>5. v \in Seq(WatchType)
    BY DEF Rearranged
  <1> QED BY <1>2, <1>3, <1>4, <1>5 DEF ListOK

LEMMA PairNegated ==
  ASSUME NEW cs, ClausesOK(cs), NEW id \in DOMAIN cs, NEW x \in Pair(cs[id])
  PROVE  x \in Lits /\ -x \in Lits /\ -(-x) = x
  <1>1. Proper(cs[id])
    BY DEF ClausesOK
  <1>2. x \in Lits
    BY <1>1, PairIn DEF Pair
  <1> QED BY <1>2, LitFacts

LEMMA PropagateKeeps ==
  ASSUME Inv, Propagate PROVE Inv'
  <1>1. /\ OthersOK /\ TasksOK(task, lims, visiting, conflict, unsat) /\ SatRight(answer, premises)
        /\ Structure(clauses, watches, trail, lims, qhead, visiting, conflict) /\ HeapOK(heap, trail)
        /\ task # "probe" => DecisionsOK(trail, lims)
        /\ ~unsat => Caught(clauses, trail, lims, SafeHead(qhead, lims, conflict), visiting)
        /\ ~unsat => AllKept(premises, clauses, trail, lims)
        /\ Entailed(premises, clauses, trail, lims, task, lemma, unsat, answer)
    BY DEF Inv
  <1>2. /\ task # "idle" /\ conflict = None /\ visiting = <<>> /\ qhead < Len(trail) /\ qhead' = qhead + 1
        /\ left' = (IF task = "search" THEN [left EXCEPT !.propagations = Less(@)] ELSE left)
        /\ UNCHANGED <<clauses, trail, lims, conflict, heap, phase, unsat, task, lemma, answer,
                       todo, premises, here, reductions, calls>>
    BY DEF Propagate, user, bounds
  <1> DEFINE l == trail[qhead + 1].lit
             long == {i \in DOMAIN watches[l] : Long(clauses[watches[l][i].clause])}
  <1>3. /\ Concat(visiting', Only(watches[l], DOMAIN watches[l] \ long), Only(watches[l], long))
        /\ watches' = [watches EXCEPT ![l] = <<>>]
    BY DEF Propagate, Concat
  <1>4. /\ ClausesOK(clauses) /\ TrailOK(trail, lims) /\ ReasonsOK(clauses, trail) /\ WatchesOK(clauses, watches)
        /\ HeadOK(trail, lims, qhead, <<>>, None)
        /\ Complete(clauses, watches, trail[qhead].lit, <<>>)
    BY <1>1, <1>2 DEF Structure
  <1>5. trail \in Seq(StepType) /\ lims \in Seq(Nat) /\ qhead \in Nat /\ Len(trail) \in Nat
        /\ DOMAIN trail = 1 .. Len(trail)
    BY <1>4, LenProperties DEF TrailOK, HeadOK
  <1>6. qhead + 1 \in DOMAIN trail
    BY <1>2, <1>5
  <1>7. l \in Lits
    <2>1. \A i \in 1 .. Len(trail) : trail[i] \in StepType
      BY <1>5, ElementOfSeq
    <2>2. trail[qhead + 1] \in StepType
      BY <2>1, <1>5, <1>6
    <2> QED BY <2>2 DEF StepType
  <1>8. long \subseteq DOMAIN watches[l]
    OBVIOUS
  <1> HIDE DEF long
  <1>9. ListOK(clauses, l, watches[l]) /\ watches[l] \in Seq(WatchType)
    BY <1>4, <1>7 DEF WatchesOK, ListOK
  <1> DEFINE s == watches[l]
             ws == [watches EXCEPT ![l] = <<>>]
  <1>10. PICK v : v = visiting'
    OBVIOUS
  <1>11. Rearranged(v, s, WatchType)
    BY <1>3, <1>8, <1>9, <1>10, Parted
  <1>12. ListOK(clauses, l, v) /\ \A id : Has(v, id) <=> Has(s, id)
    BY <1>9, <1>11, RearrangedList
  <1>13. /\ \A p \in Lits : ws[p] = IF p = l THEN <<>> ELSE watches[p]
         /\ DOMAIN ws = Lits /\ ws = [p \in Lits |-> ws[p]] /\ ws[l] = <<>>
    BY <1>4, <1>7 DEF WatchesOK
  <1>14. \A p \in Lits : p # l => ws[p] = watches[p]
    BY <1>4, <1>7 DEF WatchesOK
  <1> HIDE DEF ws
  <1>15. WatchesOK(clauses, ws)
    BY <1>4, <1>13, EmptyLists DEF WatchesOK
  <1>16. VisitOK(clauses, ws, l, v)
    BY <1>12, <1>13, EmptyLists DEF VisitOK, Apart
  <1>17. \A id \in DOMAIN clauses : ~clauses[id].deleted =>
           \A x \in Pair(clauses[id]) : Has(watches[-x], id)
    BY <1>4, EmptyLists DEF Complete
  <1>18. Complete(clauses, ws, l, v)
    <2>1. ASSUME NEW id \in DOMAIN clauses, ~clauses[id].deleted, NEW x \in Pair(clauses[id])
          PROVE  Has(ws[-x], id) \/ (l = -x /\ Has(v, id))
      <3>1. Has(watches[-x], id)
        BY <1>17, <2>1
      <3>2. CASE l = -x
        BY <3>1, <3>2, <1>12
      <3>3. CASE l # -x
        <4>1. -x \in Lits
          BY <1>4, PairNegated
        <4> QED BY <3>1, <3>3, <4>1, <1>14
      <3> QED BY <3>2, <3>3
    <2> QED BY <2>1 DEF Complete
  <1>19. HeadOK(trail, lims, qhead + 1, v, None)
    <2>1. \A k \in DOMAIN lims : lims[k] <= qhead /\ lims[k] \in Nat
      BY <1>4, <1>5, ElementOfSeq, LenProperties DEF HeadOK
    <2>2. \A k \in DOMAIN lims : lims[k] <= qhead + 1 /\ lims[k] < qhead + 1
      BY <2>1, <1>5
    <2>3. qhead + 1 \in Nat /\ qhead + 1 <= Len(trail) /\ qhead + 1 > 0
      BY <1>2, <1>5
    <2> QED BY <2>2, <2>3 DEF HeadOK
  <1>20. Structure(clauses, ws, trail, lims, qhead + 1, v, None)
    BY <1>4, <1>15, <1>16, <1>18, <1>19 DEF Structure, ConflictOK, None
  <1>21. ~unsat => Caught(clauses, trail, lims, qhead + 1, v)
    <2>1. ASSUME ~unsat, NEW id \in DOMAIN clauses, ~clauses[id].deleted, NEW i \in DOMAIN trail,
                 -trail[i].lit \in Pair(clauses[id]), i <= qhead + 1, i # qhead + 1 \/ ~Has(v, id)
          PROVE  Covered(clauses[id], trail, lims, i)
      <3>1. CASE i # qhead + 1
        <4>1. i <= qhead
          BY <3>1, <2>1, <1>5
        <4>2. Caught(clauses, trail, lims, qhead, <<>>)
          BY <2>1, <1>1, <1>2 DEF SafeHead
        <4> QED BY <4>1, <4>2, <2>1, EmptyLists DEF Caught
      <3>2. CASE i = qhead + 1
        <4>1. Has(watches[-(-l)], id)
          BY <3>2, <2>1, <1>17
        <4>2. -(-l) = l
          BY <1>7, LitFacts
        <4> QED BY <3>2, <4>1, <4>2, <2>1, <1>12
      <3> QED BY <3>1, <3>2
    <2> QED BY <2>1 DEF Caught
  <1>22. left' \in [conflicts : Int, propagations : Int]
    <2>1. left \in [conflicts : Int, propagations : Int]
      BY <1>1 DEF OthersOK
    <2>2. Less(left.propagations) \in Int
      BY <2>1, LimitsAssumption DEF Less
    <2> QED BY <2>1, <2>2, <1>2
  <1>23. OthersOK'
    BY <1>1, <1>2, <1>22 DEF OthersOK
  <1>24. TasksOK(task', lims', visiting', conflict', unsat')
    BY <1>1, <1>2 DEF TasksOK
  <1>25. watches' = ws /\ visiting' = v
    BY <1>3, <1>10 DEF ws
  <1>26. SafeHead(qhead', lims', conflict') = qhead + 1
    BY <1>2 DEF SafeHead
  <1>27. Entailed(premises', clauses', trail', lims', task', lemma', unsat', answer')
    BY <1>1, <1>2
  <1>28. /\ Structure(clauses', watches', trail', lims', qhead', visiting', conflict')
         /\ ~unsat' => Caught(clauses', trail', lims', SafeHead(qhead', lims', conflict'), visiting')
    BY <1>2, <1>20, <1>21, <1>25, <1>26
  <1>29. /\ ~unsat' => AllKept(premises', clauses', trail', lims')
         /\ SatRight(answer', premises') /\ HeapOK(heap', trail')
         /\ task' # "probe" => DecisionsOK(trail', lims')
    BY <1>1, <1>2
  <1> QED BY <1>23, <1>24, <1>27, <1>28, <1>29 DEF Inv

\* The watch to be looked at, and the rest.
LEMMA VisitParts ==
  ASSUME NEW cs, NEW p, NEW vis, ListOK(cs, p, vis), vis # <<>>
  PROVE  /\ Head(vis) \in WatchType /\ Fits(cs, p, Head(vis))
         /\ ListOK(cs, p, Tail(vis)) /\ ~Has(Tail(vis), Head(vis).clause)
         /\ \A id : Has(vis, id) <=> id = Head(vis).clause \/ Has(Tail(vis), id)
  <1> DEFINE t == Tail(vis)
  <1>1. vis \in Seq(WatchType) /\ (\A i \in DOMAIN vis : Fits(cs, p, vis[i])) /\ Once(vis)
    BY DEF ListOK
  <1>2. Len(vis) \in Nat /\ DOMAIN vis = 1 .. Len(vis) /\ Len(vis) > 0
    BY <1>1, LenProperties, EmptySeq
  <1>3. /\ Head(vis) \in WatchType /\ t \in Seq(WatchType) /\ Len(t) = Len(vis) - 1
        /\ Head(vis) = vis[1] /\ \A i \in 1 .. Len(t) : t[i] = vis[i + 1]
    BY <1>1, <1>2, HeadTailProperties
  <1>4. DOMAIN t = 1 .. Len(t)
    BY <1>3, LenProperties
  <1> HIDE DEF t
  <1>5. 1 \in DOMAIN vis /\ \A i \in DOMAIN t : i + 1 \in DOMAIN vis /\ t[i] = vis[i + 1] /\ i + 1 # 1 /\ i \in Nat
    BY <1>2, <1>3, <1>4
  <1>6. \A i \in DOMAIN vis : i = 1 \/ (i - 1 \in DOMAIN t /\ vis[i] = t[i - 1])
    <2>1. ASSUME NEW i \in DOMAIN vis, i # 1 PROVE i - 1 \in DOMAIN t /\ vis[i] = t[i - 1]
      <3>1. i - 1 \in 1 .. Len(t) /\ (i - 1) + 1 = i
        BY <2>1, <1>2, <1>3
      <3> QED BY <3>1, <1>3, <1>4
    <2> QED BY <2>1
  <1>7. Once(t)
    <2>1. ASSUME NEW i \in DOMAIN t, NEW j \in DOMAIN t, t[i].clause = t[j].clause PROVE i = j
      <3>1. i + 1 = j + 1
        BY <2>1, <1>1, <1>5 DEF Once
      <3> QED BY <3>1, <1>5
    <2> QED BY <2>1 DEF Once
  <1>8. ~Has(t, vis[1].clause)
    <2>1. ASSUME NEW i \in DOMAIN t, t[i].clause = vis[1].clause PROVE FALSE
      <3>1. i + 1 = 1
        BY <2>1, <1>1, <1>5 DEF Once
      <3> QED BY <3>1, <1>5
    <2> QED BY <2>1 DEF Has
  <1>9. \A id : Has(vis, id) <=> id = vis[1].clause \/ Has(t, id)
    BY <1>5, <1>6 DEF Has
  <1>10. ListOK(cs, p, t)
    BY <1>1, <1>3, <1>5, <1>7 DEF ListOK
  <1>11. Fits(cs, p, vis[1])
    BY <1>1, <1>5
  <1> QED BY <1>3, <1>8, <1>9, <1>10, <1>11 DEF t

\* The watches of one literal change.
LEMMA EditIs ==
  ASSUME NEW ws, DOMAIN ws = Lits, NEW p \in Lits, NEW y, NEW xs, xs = [ws EXCEPT ![p] = y]
  PROVE  /\ DOMAIN xs = Lits /\ xs = [r \in Lits |-> xs[r]]
         /\ xs[p] = y /\ \A r \in Lits : r # p => xs[r] = ws[r]
  OBVIOUS

\* The watch looked at stays where it was, perhaps with another blocker.
LEMMA StayStructure ==
  ASSUME NEW cs, NEW ws, NEW tr, NEW lm, NEW q, NEW vis, Structure(cs, ws, tr, lm, q, vis, None), vis # <<>>,
         NEW w \in WatchType, w.clause = Head(vis).clause, Fits(cs, tr[q].lit, w),
         NEW xs, xs = [ws EXCEPT ![tr[q].lit] = Append(@, w)]
  PROVE  Structure(cs, xs, tr, lm, q, Tail(vis), None)
  <1> DEFINE p == tr[q].lit
             t == Tail(vis)
  <1>1. /\ ClausesOK(cs) /\ TrailOK(tr, lm) /\ ReasonsOK(cs, tr) /\ WatchesOK(cs, ws)
        /\ HeadOK(tr, lm, q, vis, None) /\ ConflictOK(cs, tr, lm, None) /\ None \in Nat
        /\ VisitOK(cs, ws, p, vis) /\ Complete(cs, ws, p, vis)
    BY DEF Structure
  <1>2. q \in DOMAIN tr
    <2>1. q \in Nat /\ q <= Len(tr) /\ q > 0
      BY <1>1 DEF HeadOK
    <2>2. DOMAIN tr = 1 .. Len(tr) /\ Len(tr) \in Nat
      BY <1>1, LenProperties DEF TrailOK
    <2> QED BY <2>1, <2>2
  <1>3. p \in Lits
    <2>1. DOMAIN tr = 1 .. Len(tr) /\ \A i \in 1 .. Len(tr) : tr[i] \in StepType
      BY <1>1, LenProperties, ElementOfSeq DEF TrailOK
    <2> QED BY <2>1, <1>2 DEF StepType
  <1>4. /\ ListOK(cs, p, t) /\ ~Has(t, w.clause)
        /\ \A id : Has(vis, id) <=> id = w.clause \/ Has(t, id)
    <2>1. /\ ListOK(cs, p, t) /\ ~Has(t, Head(vis).clause)
          /\ \A id : Has(vis, id) <=> id = Head(vis).clause \/ Has(t, id)
      BY <1>1, VisitParts DEF VisitOK
    <2> QED BY <2>1
  <1> HIDE DEF p, t
  <1>5. ListOK(cs, p, ws[p]) /\ ~Has(ws[p], w.clause) /\ \A id : Has(t, id) => ~Has(ws[p], id)
    <2>1. ListOK(cs, p, ws[p])
      BY <1>1, <1>3 DEF WatchesOK
    <2>2. \A id : Has(vis, id) => ~Has(ws[p], id)
      BY <1>1 DEF VisitOK, Apart, Has
    <2> QED BY <2>1, <2>2, <1>4
  <1>6. Fits(cs, p, w)
    BY DEF p
  <1>7. ListOK(cs, p, Append(ws[p], w)) /\ \A id : Has(Append(ws[p], w), id) <=> Has(ws[p], id) \/ id = w.clause
    BY <1>5, <1>6, ListAppend
  <1>8. /\ DOMAIN xs = Lits /\ xs = [r \in Lits |-> xs[r]]
        /\ xs[p] = Append(ws[p], w) /\ \A r \in Lits : r # p => xs[r] = ws[r]
    BY <1>1, <1>3, EditIs DEF WatchesOK, p
  <1>9. WatchesOK(cs, xs)
    BY <1>1, <1>7, <1>8 DEF WatchesOK
  <1>10. VisitOK(cs, xs, p, t)
    <2>1. \A id : Has(t, id) => ~Has(xs[p], id)
      BY <1>4, <1>5, <1>7, <1>8
    <2> QED BY <2>1, <1>4 DEF VisitOK, Apart, Has
  <1>11. Complete(cs, xs, p, t)
    <2>1. ASSUME NEW id \in DOMAIN cs, ~cs[id].deleted, NEW l \in Pair(cs[id])
          PROVE  Has(xs[-l], id) \/ (p = -l /\ Has(t, id))
      <3>1. Has(ws[-l], id) \/ (p = -l /\ Has(vis, id))
        BY <2>1, <1>1 DEF Complete
      <3>2. CASE p = -l
        BY <3>1, <3>2, <1>4, <1>7, <1>8
      <3>3. CASE p # -l
        <4>1. -l \in Lits
          BY <1>1, PairNegated
        <4> QED BY <3>1, <3>3, <4>1, <1>8
      <3> QED BY <3>2, <3>3
    <2> QED BY <2>1 DEF Complete
  <1>12. HeadOK(tr, lm, q, t, None)
    BY <1>1 DEF HeadOK
  <1>13. Structure(cs, xs, tr, lm, q, t, None)
    BY <1>1, <1>9, <1>10, <1>11, <1>12 DEF Structure, p
  <1> QED BY <1>13 DEF t

\* A watch that is dropped, of a clause that was deleted.
LEMMA GoneStructure ==
  ASSUME NEW cs, NEW ws, NEW tr, NEW lm, NEW q, NEW vis, Structure(cs, ws, tr, lm, q, vis, None), vis # <<>>,
         cs[Head(vis).clause].deleted
  PROVE  Structure(cs, ws, tr, lm, q, Tail(vis), None)
  <1> DEFINE p == tr[q].lit
             t == Tail(vis)
  <1>1. /\ ClausesOK(cs) /\ TrailOK(tr, lm) /\ ReasonsOK(cs, tr) /\ WatchesOK(cs, ws)
        /\ HeadOK(tr, lm, q, vis, None) /\ ConflictOK(cs, tr, lm, None) /\ None \in Nat
        /\ VisitOK(cs, ws, p, vis) /\ Complete(cs, ws, p, vis)
    BY DEF Structure
  <1>2. /\ ListOK(cs, p, t)
        /\ \A id : Has(vis, id) <=> id = Head(vis).clause \/ Has(t, id)
    BY <1>1, VisitParts DEF VisitOK
  <1> HIDE DEF p, t
  <1>3. VisitOK(cs, ws, p, t)
    <2>1. \A id : Has(vis, id) => ~Has(ws[p], id)
      BY <1>1 DEF VisitOK, Apart, Has
    <2>2. \A id : Has(t, id) => ~Has(ws[p], id)
      BY <2>1, <1>2
    <2> QED BY <2>2, <1>2 DEF VisitOK, Apart, Has
  <1>4. Complete(cs, ws, p, t)
    BY <1>1, <1>2 DEF Complete
  <1>5. HeadOK(tr, lm, q, t, None)
    BY <1>1 DEF HeadOK
  <1>6. Structure(cs, ws, tr, lm, q, t, None)
    BY <1>1, <1>3, <1>4, <1>5 DEF Structure, p
  <1> QED BY <1>6 DEF t

\* A clause was looked at: it is true, or was deleted.
LEMMA LookedCaught ==
  ASSUME NEW cs, NEW ws, NEW tr, NEW lm, NEW q, NEW vis, Structure(cs, ws, tr, lm, q, vis, None), vis # <<>>,
         Caught(cs, tr, lm, q, vis), NEW id, id = Head(vis).clause,
         cs[id].deleted \/ \E b \in DOMAIN tr : tr[b].lit \in LitsOf(cs[id])
  PROVE  Caught(cs, tr, lm, q, Tail(vis))
  <1>1. VisitOK(cs, ws, tr[q].lit, vis) /\ HeadOK(tr, lm, q, vis, None) /\ TrailOK(tr, lm)
    BY DEF Structure
  <1>2. \A j : Has(vis, j) <=> j = id \/ Has(Tail(vis), j)
    BY <1>1, VisitParts DEF VisitOK
  <1>3. (\A k \in DOMAIN lm : lm[k] < q /\ lm[k] \in Nat) /\ q \in Nat
    <2>1. DOMAIN lm = 1 .. Len(lm) /\ \A k \in 1 .. Len(lm) : lm[k] \in Nat
      BY <1>1, LenProperties, ElementOfSeq DEF TrailOK
    <2> QED BY <2>1, <1>1 DEF HeadOK
  <1>4. ASSUME NEW j \in DOMAIN cs, ~cs[j].deleted, NEW i \in DOMAIN tr,
               -tr[i].lit \in Pair(cs[j]), i <= q, i # q \/ ~Has(Tail(vis), j)
        PROVE  Covered(cs[j], tr, lm, i)
    <2>1. CASE i # q \/ ~Has(vis, j)
      BY <2>1, <1>4 DEF Caught
    <2>2. CASE i = q /\ j = id
      <3>1. PICK b \in DOMAIN tr : tr[b].lit \in LitsOf(cs[j])
        BY <2>2, <1>4
      <3>2. \A k \in DOMAIN lm : ~ (q <= lm[k])
        BY <1>3
      <3> QED BY <3>1, <3>2, <2>2 DEF Covered
    <2> QED BY <2>1, <2>2, <1>2, <1>4
  <1> QED BY <1>4 DEF Caught

\* A clause found false: the watches not looked at stay as well.
LEMMA ConflictStructure ==
  ASSUME NEW cs, NEW ws, NEW tr, NEW lm, NEW q, NEW vis, Structure(cs, ws, tr, lm, q, vis, None), vis # <<>>,
         NEW w \in WatchType, w.clause = Head(vis).clause, Fits(cs, tr[q].lit, w),
         NEW xs, xs = [ws EXCEPT ![tr[q].lit] = (@ \o <<w>>) \o Tail(vis)],
         NEW cf, cf = w.clause, ~cs[cf].deleted,
         \A x \in LitsOf(cs[cf]) : x \in False(tr)
  PROVE  /\ Structure(cs, xs, tr, lm, Len(tr), <<>>, cf)
         /\ Caught(cs, tr, lm, q, vis) => Caught(cs, tr, lm, SafeHead(Len(tr), lm, cf), <<>>)
         /\ cf # None
  <1> DEFINE p == tr[q].lit
             t == Tail(vis)
             a == ws[p] \o <<w>>
             b == a \o t
  <1>1. /\ ClausesOK(cs) /\ TrailOK(tr, lm) /\ ReasonsOK(cs, tr) /\ WatchesOK(cs, ws)
        /\ HeadOK(tr, lm, q, vis, None)
        /\ VisitOK(cs, ws, p, vis) /\ Complete(cs, ws, p, vis)
    BY DEF Structure
  <1>2. /\ q \in DOMAIN tr /\ q \in Nat /\ Len(tr) \in Nat /\ q <= Len(tr) /\ DOMAIN lm = 1 .. Len(lm) /\ Len(lm) \in Nat
        /\ \A k \in DOMAIN lm : lm[k] < q /\ lm[k] \in Nat /\ lm[k] <= Len(tr)
    <2>1. q \in Nat /\ q <= Len(tr) /\ q > 0
      BY <1>1 DEF HeadOK
    <2>2. DOMAIN tr = 1 .. Len(tr) /\ Len(tr) \in Nat /\ DOMAIN lm = 1 .. Len(lm) /\ Len(lm) \in Nat
          /\ \A k \in 1 .. Len(lm) : lm[k] \in Nat
      BY <1>1, LenProperties, ElementOfSeq DEF TrailOK
    <2>3. \A k \in DOMAIN lm : lm[k] < q /\ lm[k] <= Len(tr)
      BY <1>1 DEF HeadOK, TrailOK
    <2> QED BY <2>1, <2>2, <2>3
  <1>3. p \in Lits
    <2>1. DOMAIN tr = 1 .. Len(tr) /\ \A i \in 1 .. Len(tr) : tr[i] \in StepType
      BY <1>1, LenProperties, ElementOfSeq DEF TrailOK
    <2> QED BY <2>1, <1>2 DEF StepType
  <1>4. /\ ListOK(cs, p, t) /\ ~Has(t, w.clause)
        /\ \A id : Has(vis, id) <=> id = w.clause \/ Has(t, id)
    <2>1. /\ ListOK(cs, p, t) /\ ~Has(t, Head(vis).clause)
          /\ \A id : Has(vis, id) <=> id = Head(vis).clause \/ Has(t, id)
      BY <1>1, VisitParts DEF VisitOK
    <2> QED BY <2>1
  <1>5. Fits(cs, p, w)
    OBVIOUS
  <1>14. xs = [ws EXCEPT ![p] = b]
    OBVIOUS
  <1>15. a = Append(ws[p], w)
    <2>1. ws[p] \in Seq(WatchType)
      BY <1>1, <1>3 DEF WatchesOK, ListOK
    <2> QED BY <2>1
  <1>16. Concat(b, a, t)
    BY DEF Concat
  <1> HIDE DEF p, t, a, b
  <1>6. ListOK(cs, p, ws[p]) /\ ~Has(ws[p], w.clause) /\ \A id : Has(t, id) => ~Has(ws[p], id)
    <2>1. ListOK(cs, p, ws[p])
      BY <1>1, <1>3 DEF WatchesOK
    <2>2. \A id : Has(vis, id) => ~Has(ws[p], id)
      BY <1>1 DEF VisitOK, Apart, Has
    <2> QED BY <2>1, <2>2, <1>4
  <1>7. ListOK(cs, p, a) /\ \A id : Has(a, id) <=> Has(ws[p], id) \/ id = w.clause
    BY <1>5, <1>6, <1>15, ListAppend
  <1>8. ListOK(cs, p, b) /\ \A id : Has(b, id) <=> Has(a, id) \/ Has(t, id)
    <2>1. a \in Seq(WatchType) /\ t \in Seq(WatchType)
      BY <1>4, <1>7 DEF ListOK
    <2>2. /\ b \in Seq(WatchType) /\ Len(a) \in Nat
          /\ \A i \in DOMAIN a : i \in DOMAIN b /\ b[i] = a[i]
          /\ \A i \in DOMAIN t : Len(a) + i \in DOMAIN b /\ b[Len(a) + i] = t[i]
          /\ \A i \in DOMAIN b : i \in DOMAIN a \/ (i > Len(a) /\ i - Len(a) \in DOMAIN t /\ b[i] = t[i - Len(a)])
          /\ DOMAIN b = 1 .. Len(a) + Len(t) /\ Len(t) \in Nat
      BY <2>1, <1>16, Joined
    <2>3. \A id : Has(b, id) <=> Has(a, id) \/ Has(t, id)
      <3>1. ASSUME NEW id, Has(b, id) PROVE Has(a, id) \/ Has(t, id)
        BY <2>2, <3>1 DEF Has
      <3>2. ASSUME NEW id, Has(a, id) PROVE Has(b, id)
        BY <2>2, <3>2 DEF Has
      <3>3. ASSUME NEW id, Has(t, id) PROVE Has(b, id)
        BY <2>2, <3>3 DEF Has
      <3> QED BY <3>1, <3>2, <3>3
    <2>4. \A i \in DOMAIN b : Fits(cs, p, b[i])
      BY <2>2, <1>4, <1>7 DEF ListOK
    <2>5. ASSUME NEW i \in DOMAIN b, NEW j \in DOMAIN b, b[i].clause = b[j].clause PROVE i = j
      <3>1. \A x \in DOMAIN a, y \in DOMAIN t : a[x].clause # t[y].clause
        <4>1. ASSUME NEW x \in DOMAIN a, NEW y \in DOMAIN t, a[x].clause = t[y].clause PROVE FALSE
          <5>1. Has(a, a[x].clause) /\ Has(t, a[x].clause)
            BY <4>1 DEF Has
          <5> QED BY <5>1, <1>4, <1>6, <1>7
        <4> QED BY <4>1
      <3>2. Once(a) /\ Once(t)
        BY <1>4, <1>7 DEF ListOK
      <3>3. CASE i \in DOMAIN a /\ j \in DOMAIN a
        BY <3>2, <3>3, <2>2, <2>5 DEF Once
      <3>4. CASE i \in DOMAIN a /\ j \notin DOMAIN a
        BY <3>1, <3>4, <2>2, <2>5
      <3>5. CASE i \notin DOMAIN a /\ j \in DOMAIN a
        BY <3>1, <3>5, <2>2, <2>5
      <3>6. CASE i \notin DOMAIN a /\ j \notin DOMAIN a
        <4>1. i - Len(a) \in DOMAIN t /\ j - Len(a) \in DOMAIN t /\ b[i] = t[i - Len(a)] /\ b[j] = t[j - Len(a)]
          BY <3>6, <2>2
        <4>2. i - Len(a) = j - Len(a)
          BY <4>1, <3>2, <2>5 DEF Once
        <4>3. i \in Int /\ j \in Int
          BY <2>2
        <4> QED BY <4>2, <4>3, <2>2
      <3> QED BY <3>3, <3>4, <3>5, <3>6
    <2> QED BY <2>2, <2>3, <2>4, <2>5 DEF ListOK, Once
  <1>9. /\ DOMAIN xs = Lits /\ xs = [r \in Lits |-> xs[r]]
        /\ xs[p] = b /\ \A r \in Lits : r # p => xs[r] = ws[r]
    <2>1. DOMAIN ws = Lits
      BY <1>1 DEF WatchesOK
    <2> QED BY <2>1, <1>3, <1>14, EditIs
  <1>10. WatchesOK(cs, xs)
    BY <1>1, <1>8, <1>9 DEF WatchesOK
  <1>11. \A r : VisitOK(cs, xs, r, <<>>) /\ Complete(cs, xs, r, <<>>)
    <2>1. ASSUME NEW id \in DOMAIN cs, ~cs[id].deleted, NEW l \in Pair(cs[id]) PROVE Has(xs[-l], id)
      <3>1. Has(ws[-l], id) \/ (p = -l /\ Has(vis, id))
        BY <2>1, <1>1 DEF Complete
      <3>2. CASE p = -l
        BY <3>1, <3>2, <1>4, <1>7, <1>8, <1>9
      <3>3. CASE p # -l
        <4>1. -l \in Lits
          BY <1>1, PairNegated
        <4> QED BY <3>1, <3>3, <4>1, <1>9
      <3> QED BY <3>2, <3>3
    <2> QED BY <2>1, EmptyLists DEF VisitOK, Complete
  <1>12. cf \in DOMAIN cs /\ cf # None /\ cf \in Nat
    <2>1. cf \in DOMAIN cs
      BY <1>5 DEF Fits
    <2>2. DOMAIN cs = 1 .. Len(cs) /\ Len(cs) \in Nat
      BY <1>1, LenProperties DEF ClausesOK
    <2> QED BY <2>1, <2>2 DEF None
  <1>13. ConflictOK(cs, tr, lm, cf)
    <2>1. \A x \in LitsOf(cs[cf]) : \E k \in DOMAIN tr : x = -tr[k].lit
      BY DEF False
    <2>2. -tr[q].lit \in LitsOf(cs[cf])
      <3>1. Proper(cs[cf])
        BY <1>1, <1>12 DEF ClausesOK
      <3>2. -p \in Pair(cs[cf])
        BY <1>5 DEF Fits
      <3> QED BY <3>1, <3>2, PairIn DEF p
    <2>3. \E k \in DOMAIN tr : -tr[k].lit \in LitsOf(cs[cf]) /\ \A n \in DOMAIN lm : lm[n] < k
      BY <2>2, <1>2
    <2> QED BY <2>1, <2>3, <1>12 DEF ConflictOK
  <1>17. HeadOK(tr, lm, Len(tr), <<>>, cf)
    <2>1. Len(tr) <= Len(tr)
      BY <1>2
    <2> QED BY <2>1, <1>2 DEF HeadOK
  <1>18. Structure(cs, xs, tr, lm, Len(tr), <<>>, cf)
    BY <1>1, <1>10, <1>11, <1>12, <1>13, <1>17 DEF Structure
  <1>19. ASSUME Caught(cs, tr, lm, q, vis) PROVE Caught(cs, tr, lm, SafeHead(Len(tr), lm, cf), <<>>)
    <2> DEFINE h == SafeHead(Len(tr), lm, cf)
    <2>1. h \in Nat /\ h < q
      <3>1. CASE lm = <<>>
        <4>1. h = 0
          BY <3>1, <1>12 DEF SafeHead
        <4>2. q > 0
          BY <1>1 DEF HeadOK
        <4> QED BY <4>1, <4>2
      <3>2. CASE lm # <<>>
        <4>1. h = lm[Len(lm)]
          BY <3>2, <1>12 DEF SafeHead
        <4>2. Len(lm) # 0
          BY <3>2, <1>1, EmptySeq DEF TrailOK
        <4>3. Len(lm) \in DOMAIN lm
          BY <4>2, <1>2
        <4> QED BY <4>1, <4>3, <1>2
      <3> QED BY <3>1, <3>2
    <2> HIDE DEF h
    <2>2. \A i \in DOMAIN tr : i <= h => i <= q /\ i # q
      <3>1. DOMAIN tr = 1 .. Len(tr)
        BY <1>1, LenProperties DEF TrailOK
      <3> QED BY <3>1, <2>1, <1>2
    <2>3. Caught(cs, tr, lm, h, <<>>)
      BY <2>2, <1>19 DEF Caught
    <2> QED BY <2>3 DEF h
  <1> QED BY <1>12, <1>18, <1>19

\* A clause in which literals changed places.
Alike(ds, cs, id) ==
  /\ DOMAIN ds = DOMAIN cs /\ ClausesOK(ds)
  /\ \A j \in DOMAIN cs : /\ LitsOf(ds[j]) = LitsOf(cs[j]) /\ ds[j].deleted = cs[j].deleted
                          /\ ds[j].glue = cs[j].glue /\ (Long(ds[j]) <=> Long(cs[j]))
                          /\ j # id => ds[j] = cs[j]
Relit(ds, cs, id, ls) == ds = [cs EXCEPT ![id].lits = ls]
LEMMA AlikeIs ==
  ASSUME NEW cs, ClausesOK(cs), NEW id \in DOMAIN cs, NEW ls, Reordered(ls, cs[id].lits, Lits),
         NEW ds, Relit(ds, cs, id, ls)
  PROVE  Alike(ds, cs, id) /\ ds[id].lits = ls
  <1>1. /\ cs \in Seq(ClauseType) /\ Proper(cs[id]) /\ \A j \in DOMAIN cs : Proper(cs[j])
    BY DEF ClausesOK
  <1>2. /\ Len(cs) \in Nat /\ DOMAIN cs = 1 .. Len(cs) /\ \A j \in DOMAIN cs : cs[j] \in ClauseType
    BY <1>1, LenProperties, ElementOfSeq
  <1>3. ls \in Seq(Lits) /\ Len(ls) = Len(cs[id].lits) /\ Elements(ls) = Elements(cs[id].lits)
        /\ (Distinct(cs[id].lits) => Distinct(ls))
    BY DEF Reordered
  <1> DEFINE n == [cs[id] EXCEPT !.lits = ls]
  <1>4. /\ n \in ClauseType /\ n.lits = ls /\ n.deleted = cs[id].deleted /\ n.glue = cs[id].glue
    BY <1>2, <1>3 DEF ClauseType
  <1>5. ds = [cs EXCEPT ![id] = n]
    BY <1>2 DEF Relit
  <1> HIDE DEF n
  <1>6. DOMAIN ds = DOMAIN cs /\ ds[id] = n /\ \A j \in DOMAIN cs : j # id => ds[j] = cs[j]
    BY <1>2, <1>5
  <1>7. Proper(n) /\ LitsOf(n) = LitsOf(cs[id]) /\ (Long(n) <=> Long(cs[id]))
    BY <1>1, <1>3, <1>4 DEF Proper, LitsOf, Long, Elements
  <1>8. ds \in Seq(ClauseType)
    BY <1>1, <1>4, <1>5
  <1>9. ClausesOK(ds)
    BY <1>1, <1>6, <1>7, <1>8 DEF ClausesOK
  <1> QED BY <1>4, <1>6, <1>7, <1>9 DEF Alike

LEMMA AlikeParts ==
  ASSUME NEW ds, NEW cs, NEW id, Alike(ds, cs, id), NEW tr, NEW lm
  PROVE  /\ \A m : Agrees(m, cs, tr, lm) => Agrees(m, ds, tr, lm)
         /\ \A P : AllKept(P, cs, tr, lm) => AllKept(P, ds, tr, lm)
         /\ ReasonsOK(cs, tr) /\ (\A i \in DOMAIN tr : tr[i].reason = id => ~Long(cs[id]) \/ ds[id].lits[1] = cs[id].lits[1])
              => ReasonsOK(ds, tr)
  <1>1. /\ DOMAIN ds = DOMAIN cs
        /\ \A j \in DOMAIN cs : LitsOf(ds[j]) = LitsOf(cs[j]) /\ ds[j].deleted = cs[j].deleted
        /\ \A j \in DOMAIN cs : ds[j].glue = cs[j].glue /\ (Long(ds[j]) <=> Long(cs[j]))
        /\ \A j \in DOMAIN cs : j # id => ds[j] = cs[j]
    BY DEF Alike
  <1>2. \A m : Agrees(m, cs, tr, lm) => Agrees(m, ds, tr, lm)
    BY <1>1 DEF Agrees
  <1>3. \A P : AllKept(P, cs, tr, lm) => AllKept(P, ds, tr, lm)
    <2>1. ASSUME NEW c, Kept1(c, cs, tr, lm) PROVE Kept1(c, ds, tr, lm)
      <3>1. (\E j \in DOMAIN cs : cs[j].glue /\ LitsOf(cs[j]) \subseteq c) =>
              \E j \in DOMAIN ds : ds[j].glue /\ LitsOf(ds[j]) \subseteq c
        BY <1>1
      <3> QED BY <2>1, <3>1 DEF Kept1
    <2> QED BY <2>1 DEF AllKept
  <1>4. ASSUME ReasonsOK(cs, tr),
               \A i \in DOMAIN tr : tr[i].reason = id => ~Long(cs[id]) \/ ds[id].lits[1] = cs[id].lits[1]
        PROVE  ReasonsOK(ds, tr)
    <2>1. ASSUME NEW i \in DOMAIN tr, tr[i].reason # None PROVE Because(ds, tr, i)
      <3>1. Because(cs, tr, i)
        BY <2>1, <1>4 DEF ReasonsOK
      <3>2. Long(ds[tr[i].reason]) => ds[tr[i].reason].lits[1] = tr[i].lit
        BY <3>1, <1>1, <1>4 DEF Because
      <3> QED BY <3>1, <3>2, <1>1 DEF Because
    <2> QED BY <2>1 DEF ReasonsOK
  <1> QED BY <1>2, <1>3, <1>4

\* The first two literals trade places.
LEMMA AlikePair ==
  ASSUME NEW ds, NEW cs, NEW id, Alike(ds, cs, id), id \in DOMAIN cs, Pair(ds[id]) = Pair(cs[id]),
         NEW ws, NEW tr, NEW lm, NEW q, NEW vis, Structure(cs, ws, tr, lm, q, vis, None), ReasonsOK(ds, tr)
  PROVE  /\ Structure(ds, ws, tr, lm, q, vis, None)
         /\ Caught(cs, tr, lm, q, vis) => Caught(ds, tr, lm, q, vis)
         /\ \A p, w : Fits(cs, p, w) => Fits(ds, p, w)
  <1>1. /\ ClausesOK(cs) /\ TrailOK(tr, lm) /\ WatchesOK(cs, ws)
        /\ HeadOK(tr, lm, q, vis, None)
        /\ VisitOK(cs, ws, tr[q].lit, vis) /\ Complete(cs, ws, tr[q].lit, vis)
    BY DEF Structure
  <1>2. /\ DOMAIN ds = DOMAIN cs /\ ClausesOK(ds)
        /\ \A j \in DOMAIN cs : LitsOf(ds[j]) = LitsOf(cs[j]) /\ ds[j].deleted = cs[j].deleted
        /\ \A j \in DOMAIN cs : ds[j].glue = cs[j].glue /\ (Long(ds[j]) <=> Long(cs[j]))
        /\ \A j \in DOMAIN cs : j # id => ds[j] = cs[j]
    BY DEF Alike
  <1>3. \A j \in DOMAIN cs : Pair(ds[j]) = Pair(cs[j])
    BY <1>2
  <1>4. \A p, w : Fits(cs, p, w) => Fits(ds, p, w)
    BY <1>2, <1>3 DEF Fits
  <1>5. \A p, s : ListOK(cs, p, s) => ListOK(ds, p, s)
    BY <1>4, ListMoves
  <1>6. WatchesOK(ds, ws) /\ VisitOK(ds, ws, tr[q].lit, vis)
    BY <1>1, <1>5 DEF WatchesOK, VisitOK
  <1>7. Complete(ds, ws, tr[q].lit, vis)
    BY <1>1, <1>2, <1>3 DEF Complete
  <1>8. Structure(ds, ws, tr, lm, q, vis, None)
    BY <1>1, <1>2, <1>6, <1>7 DEF Structure, ConflictOK, None
  <1>9. ASSUME Caught(cs, tr, lm, q, vis) PROVE Caught(ds, tr, lm, q, vis)
    <2>1. \A j \in DOMAIN cs : \A i : Covered(cs[j], tr, lm, i) => Covered(ds[j], tr, lm, i)
      BY <1>2 DEF Covered
    <2> QED BY <2>1, <1>2, <1>3, <1>9 DEF Caught
  <1> QED BY <1>4, <1>8, <1>9

Rewatch(xs, ws, p, w) == xs = [ws EXCEPT ![p] = Append(@, w)]
\* Another literal of a clause is watched in place of the one that became false.
LEMMA MoveStructure ==
  ASSUME NEW cs, NEW ws, NEW tr, NEW lm, NEW q, NEW vis, Structure(cs, ws, tr, lm, q, vis, None), vis # <<>>,
         NEW id, id = Head(vis).clause, id \in DOMAIN cs, Long(cs[id]), ~cs[id].deleted,
         cs[id].lits[2] = -tr[q].lit,
         NEW k \in 3 .. Len(cs[id].lits), cs[id].lits[k] \notin False(tr),
         NEW ds, Relit(ds, cs, id, Swap(cs[id].lits, 2, k)),
         NEW w, w = Watch(id, cs[id].lits[1]),
         NEW xs, Rewatch(xs, ws, -cs[id].lits[k], w)
  PROVE  /\ Structure(ds, xs, tr, lm, q, Tail(vis), None) /\ Alike(ds, cs, id)
         /\ Caught(cs, tr, lm, q, vis) => Caught(ds, tr, lm, q, Tail(vis))
  <1> DEFINE p == tr[q].lit
             t == Tail(vis)
             c == cs[id].lits
             d == ds[id].lits
             y == c[k]
  <1>1. /\ ClausesOK(cs) /\ TrailOK(tr, lm) /\ ReasonsOK(cs, tr) /\ WatchesOK(cs, ws)
        /\ HeadOK(tr, lm, q, vis, None) /\ ConflictOK(cs, tr, lm, None) /\ None \in Nat
        /\ VisitOK(cs, ws, p, vis) /\ Complete(cs, ws, p, vis)
    BY DEF Structure
  <1>2. /\ q \in DOMAIN tr /\ q \in Nat /\ Len(tr) \in Nat
    <2>1. q \in Nat /\ q <= Len(tr) /\ q > 0
      BY <1>1 DEF HeadOK
    <2>2. DOMAIN tr = 1 .. Len(tr) /\ Len(tr) \in Nat
      BY <1>1, LenProperties DEF TrailOK
    <2> QED BY <2>1, <2>2
  <1>3. p \in Lits
    <2>1. DOMAIN tr = 1 .. Len(tr) /\ \A i \in 1 .. Len(tr) : tr[i] \in StepType
      BY <1>1, LenProperties, ElementOfSeq DEF TrailOK
    <2> QED BY <2>1, <1>2 DEF StepType
  <1>4. /\ c \in Seq(Lits) /\ Len(c) \in Nat /\ DOMAIN c = 1 .. Len(c) /\ Distinct(c)
        /\ 1 \in DOMAIN c /\ 2 \in DOMAIN c /\ k \in DOMAIN c /\ k # 1 /\ k # 2
        /\ c[1] \in Lits /\ c[1] # c[2] /\ c[k] \in Lits /\ LitsOf(cs[id]) = Elements(c)
        /\ Pair(cs[id]) = {c[1], c[2]}
    <2>1. Proper(cs[id])
      BY <1>1 DEF ClausesOK
    <2>2. /\ c \in Seq(Lits) /\ Len(c) \in Nat /\ DOMAIN c = 1 .. Len(c)
          /\ 1 \in DOMAIN c /\ 2 \in DOMAIN c /\ c[1] \in Lits /\ c[1] # c[2] /\ LitsOf(cs[id]) = Elements(c)
      BY <2>1, PairIn
    <2>3. k \in DOMAIN c /\ k # 1 /\ k # 2
      BY <2>2
    <2>4. c[k] \in Lits
      BY <2>2, <2>3, ElementOfSeq
    <2> QED BY <2>1, <2>2, <2>3, <2>4 DEF Proper, Pair
  <1>5. Reordered(Swap(c, 2, k), c, Lits) /\ Swap(c, 2, k)[1] = c[1] /\ Swap(c, 2, k)[2] = c[k]
    BY <1>4, SwapIs
  <1>6. Alike(ds, cs, id) /\ ds[id].lits = Swap(c, 2, k)
    BY <1>1, <1>5, AlikeIs
  <1>7. d[1] = c[1] /\ d[2] = y
    BY <1>5, <1>6
  <1>8. y # c[1] /\ y # c[2] /\ y \in Lits /\ -y \in Lits /\ -(-y) = y
    BY <1>4, LitFacts DEF Distinct
  <1>9. c[2] = -p /\ y \notin False(tr) /\ Rewatch(xs, ws, -y, w) /\ w = Watch(id, c[1])
    OBVIOUS
  <1>10. Pair(ds[id]) = {c[1], y} /\ y \in LitsOf(cs[id]) /\ c[1] \in LitsOf(cs[id])
    <2>1. Pair(ds[id]) = {c[1], y}
      BY <1>7 DEF Pair
    <2> QED BY <2>1, <1>4 DEF Elements
  <1>11. /\ DOMAIN ds = DOMAIN cs /\ ClausesOK(ds)
         /\ \A j \in DOMAIN cs : LitsOf(ds[j]) = LitsOf(cs[j]) /\ ds[j].deleted = cs[j].deleted
         /\ \A j \in DOMAIN cs : ds[j].glue = cs[j].glue /\ (Long(ds[j]) <=> Long(cs[j]))
         /\ \A j \in DOMAIN cs : j # id => ds[j] = cs[j]
    BY <1>6 DEF Alike
  <1>12. /\ ListOK(cs, p, t) /\ ~Has(t, id)
         /\ \A j : Has(vis, j) <=> j = id \/ Has(t, j)
    BY <1>1, VisitParts DEF VisitOK
  <1> HIDE DEF p, t, c, d, y
  <1>13. ~Has(ws[p], id) /\ \A j : Has(t, j) => ~Has(ws[p], j)
    <2>1. \A j : Has(vis, j) => ~Has(ws[p], j)
      BY <1>1 DEF VisitOK, Apart, Has
    <2> QED BY <2>1, <1>12
  <1>14. p # -y /\ -c[1] # p /\ -p \in Lits /\ -(-p) = p
    <2>1. -(-p) = p /\ -p \in Lits
      BY <1>3, LitFacts
    <2> QED BY <2>1, <1>4, <1>8, <1>9, LitFacts
  <1>15. ASSUME NEW r \in Lits, NEW s, ListOK(cs, r, s), ~ (r = p /\ Has(s, id)) PROVE ListOK(ds, r, s)
    <2>1. ASSUME NEW x \in WatchType, Fits(cs, r, x), Has(s, x.clause) PROVE Fits(ds, r, x)
      <3>1. CASE x.clause # id
        BY <2>1, <3>1, <1>11 DEF Fits
      <3>2. CASE x.clause = id
        <4>1. r # p
          BY <2>1, <3>2, <1>15
        <4>2. -r \in {c[1], c[2]}
          BY <2>1, <3>2, <1>4 DEF Fits
        <4>3. -r # -p
          BY <4>1, <1>3, LitFacts
        <4>4. -r = c[1]
          BY <4>2, <4>3, <1>9
        <4>5. -r \in Pair(ds[id])
          BY <4>4, <1>10
        <4> QED BY <2>1, <3>2, <4>5, <1>11 DEF Fits
      <3> QED BY <3>1, <3>2
    <2> QED BY <2>1, <1>15, ListMoves
  <1>16. ListOK(cs, -y, ws[-y]) /\ ~Has(ws[-y], id)
    <2>1. ListOK(cs, -y, ws[-y])
      BY <1>1, <1>8 DEF WatchesOK
    <2>2. ASSUME NEW i \in DOMAIN ws[-y], ws[-y][i].clause = id PROVE FALSE
      <3>1. Fits(cs, -y, ws[-y][i])
        BY <2>1 DEF ListOK
      <3>2. y \in Pair(cs[id])
        BY <3>1, <2>2, <1>8 DEF Fits
      <3> QED BY <3>2, <1>4, <1>8
    <2> QED BY <2>1, <2>2 DEF Has
  <1>17. w \in WatchType /\ w.clause = id /\ w.blocker = c[1]
    <2>1. id \in Nat
      <3>1. DOMAIN cs = 1 .. Len(cs) /\ Len(cs) \in Nat
        BY <1>1, LenProperties DEF ClausesOK
      <3>2. id \in DOMAIN cs
        OBVIOUS
      <3> QED BY <3>1, <3>2
    <2> QED BY <2>1, <1>4, <1>9 DEF Watch, WatchType
  <1>18. Fits(ds, -y, w)
    <2>1. -(-y) \in Pair(ds[id])
      BY <1>8, <1>10
    <2> QED BY <2>1, <1>10, <1>11, <1>17 DEF Fits
  <1>19. ListOK(ds, -y, Append(ws[-y], w)) /\ \A j : Has(Append(ws[-y], w), j) <=> Has(ws[-y], j) \/ j = id
    <2>1. ListOK(ds, -y, ws[-y])
      BY <1>8, <1>14, <1>15, <1>16
    <2>3. ~Has(ws[-y], w.clause)
      BY <1>16, <1>17
    <2>2. /\ ListOK(ds, -y, Append(ws[-y], w))
          /\ \A j : Has(Append(ws[-y], w), j) <=> Has(ws[-y], j) \/ j = w.clause
      BY <2>1, <2>3, <1>17, <1>18, ListAppend
    <2> QED BY <2>2, <1>17
  <1>20. /\ DOMAIN xs = Lits /\ xs = [r \in Lits |-> xs[r]]
         /\ xs[-y] = Append(ws[-y], w) /\ \A r \in Lits : r # -y => xs[r] = ws[r]
    <2>1. DOMAIN ws = Lits
      BY <1>1 DEF WatchesOK
    <2> QED BY <2>1, <1>8, <1>9, EditIs DEF Rewatch
  <1>21. WatchesOK(ds, xs)
    <2>1. ASSUME NEW r \in Lits PROVE ListOK(ds, r, xs[r])
      <3>1. CASE r = -y
        BY <3>1, <1>19, <1>20
      <3>2. CASE r # -y
        <4>1. ListOK(cs, r, ws[r])
          BY <1>1 DEF WatchesOK
        <4>2. xs[r] = ws[r]
          BY <3>2, <1>20
        <4> QED BY <4>1, <4>2, <1>13, <1>15
      <3> QED BY <3>1, <3>2
    <2> QED BY <2>1, <1>20 DEF WatchesOK
  <1>22. VisitOK(ds, xs, p, t)
    <2>1. ListOK(ds, p, t)
      BY <1>3, <1>12, <1>15
    <2>2. xs[p] = ws[p]
      BY <1>3, <1>14, <1>20
    <2> QED BY <2>1, <2>2, <1>13 DEF VisitOK, Apart, Has
  <1>23. Complete(ds, xs, p, t)
    <2>1. ASSUME NEW j \in DOMAIN cs, ~cs[j].deleted, NEW l \in Pair(ds[j])
          PROVE  Has(xs[-l], j) \/ (p = -l /\ Has(t, j))
      <3>1. -l \in Lits
        BY <1>11, PairNegated
      <3>5. \A r \in Lits : Has(ws[r], j) => Has(xs[r], j)
        BY <1>19, <1>20
      <3>2. CASE j # id
        <4>1. l \in Pair(cs[j])
          BY <2>1, <3>2, <1>11
        <4>2. Has(ws[-l], j) \/ (p = -l /\ Has(vis, j))
          BY <4>1, <2>1, <1>1 DEF Complete
        <4> QED BY <4>2, <3>1, <3>2, <3>5, <1>12
      <3>3. CASE j = id /\ l = c[1]
        <4>1. l \in Pair(cs[j]) /\ -l # p
          BY <3>3, <1>4, <1>14
        <4>2. Has(ws[-l], j)
          BY <4>1, <2>1, <1>1 DEF Complete
        <4> QED BY <4>2, <3>1, <3>5
      <3>4. CASE j = id /\ l = y
        BY <3>4, <1>19, <1>20
      <3> QED BY <2>1, <3>2, <3>3, <3>4, <1>10
    <2> QED BY <2>1, <1>11 DEF Complete
  <1>24. ReasonsOK(ds, tr)
    <2>1. ds[id].lits[1] = cs[id].lits[1]
      BY <1>7 DEF c, d
    <2> QED BY <2>1, <1>1, <1>6, AlikeParts
  <1>25. HeadOK(tr, lm, q, t, None)
    BY <1>1 DEF HeadOK
  <1>26. Structure(ds, xs, tr, lm, q, t, None)
    BY <1>1, <1>11, <1>21, <1>22, <1>23, <1>24, <1>25 DEF Structure, p, ConflictOK
  <1>27. ASSUME Caught(cs, tr, lm, q, vis) PROVE Caught(ds, tr, lm, q, t)
    <2>1. \A j \in DOMAIN cs : \A i : Covered(cs[j], tr, lm, i) => Covered(ds[j], tr, lm, i)
      BY <1>11 DEF Covered
    <2>2. ASSUME NEW j \in DOMAIN cs, ~cs[j].deleted, NEW i \in DOMAIN tr, -tr[i].lit \in Pair(ds[j]),
                 i <= q, i # q \/ ~Has(t, j)
          PROVE  Covered(cs[j], tr, lm, i)
      <3>1. CASE j # id
        BY <2>2, <3>1, <1>11, <1>12, <1>27 DEF Caught
      <3>2. CASE j = id
        <4>1. -tr[i].lit # y
          BY <1>9 DEF False
        <4>2. -tr[i].lit = c[1]
          BY <4>1, <2>2, <3>2, <1>10
        <4>3. i # q
          BY <4>2, <1>4, <1>9 DEF p
        <4> QED BY <4>2, <4>3, <2>2, <3>2, <1>4, <1>27 DEF Caught
      <3> QED BY <3>1, <3>2
    <2> QED BY <2>1, <2>2, <1>11 DEF Caught
  <1> QED BY <1>6, <1>26, <1>27 DEF t

\* What a look at a watch leaves.
Good(cs, ws, tr, q, vis, cf) ==
  /\ Structure(cs, ws, tr, lims, q, vis, cf)
  /\ ~unsat => Caught(cs, tr, lims, SafeHead(q, lims, cf), vis)
  /\ ~unsat => AllKept(premises, cs, tr, lims)
  /\ \A m \in SUBSET Vars : Fulfils(m, premises) => Agrees(m, cs, tr, lims) /\ Supposes(m, task, lemma, tr)
  /\ task # "probe" => DecisionsOK(tr, lims)
  /\ HeapOK(heap, tr)
Else == <<lims, heap, phase, unsat, task, lemma, left, answer, user, here, bounds>>

LEMMA GoodNow ==
  ASSUME Inv, visiting # <<>>
  PROVE  conflict = None /\ Good(clauses, watches, trail, qhead, visiting, None)
  <1>1. conflict = None
    BY DEF Inv, Structure, HeadOK
  <1> QED BY <1>1 DEF Inv, Good, Entailed
LEMMA GoodNext ==
  ASSUME Inv, visiting # <<>>, UNCHANGED Else,
         Good(clauses', watches', trail', qhead', visiting', conflict')
  PROVE  Inv'
  <1>1. UNCHANGED <<lims, heap, phase, unsat, task, lemma, left, answer, todo, premises, here, reductions, calls>>
    BY DEF Else, user, bounds
  <1>2. OthersOK'
    BY <1>1 DEF Inv, OthersOK
  <1>3. task # "idle" /\ TasksOK(task, lims, visiting, conflict, unsat)
    BY DEF Inv, TasksOK
  <1>4. TasksOK(task', lims', visiting', conflict', unsat')
    BY <1>1, <1>3 DEF TasksOK
  <1>5. \A m \in SUBSET Vars : Fulfils(m, premises) => ~unsat /\ answer.kind # "unsat"
    BY DEF Inv, Entailed
  <1>6. Entailed(premises', clauses', trail', lims', task', lemma', unsat', answer')
    BY <1>1, <1>5 DEF Good, Entailed
  <1>7. SatRight(answer', premises')
    BY <1>1 DEF Inv
  <1>8. /\ Structure(clauses', watches', trail', lims', qhead', visiting', conflict')
        /\ ~unsat' => Caught(clauses', trail', lims', SafeHead(qhead', lims', conflict'), visiting')
        /\ ~unsat' => AllKept(premises', clauses', trail', lims')
        /\ task' # "probe" => DecisionsOK(trail', lims')
        /\ HeapOK(heap', trail')
    BY <1>1 DEF Good
  <1> QED BY <1>2, <1>4, <1>6, <1>7, <1>8 DEF Inv

LEMMA SafeNone == \A q, lm : SafeHead(q, lm, None) = q
  BY DEF SafeHead

LEMMA GoodTouched ==
  ASSUME NEW cs, NEW ws, NEW tr, NEW q, NEW vis, Good(cs, ws, tr, q, vis, None),
         NEW ds, NEW id \in DOMAIN cs, Alike(ds, cs, id), Pair(ds[id]) = Pair(cs[id]), ReasonsOK(ds, tr)
  PROVE  Good(ds, ws, tr, q, vis, None) /\ \A p, w : Fits(cs, p, w) => Fits(ds, p, w)
  <1>1. /\ Structure(cs, ws, tr, lims, q, vis, None)
        /\ ~unsat => Caught(cs, tr, lims, q, vis)
        /\ ~unsat => AllKept(premises, cs, tr, lims)
    BY SafeNone DEF Good
  <1>2. /\ Structure(ds, ws, tr, lims, q, vis, None)
        /\ Caught(cs, tr, lims, q, vis) => Caught(ds, tr, lims, q, vis)
        /\ \A p, w : Fits(cs, p, w) => Fits(ds, p, w)
    BY <1>1, AlikePair
  <1>3. /\ \A m : Agrees(m, cs, tr, lims) => Agrees(m, ds, tr, lims)
        /\ AllKept(premises, cs, tr, lims) => AllKept(premises, ds, tr, lims)
    BY AlikeParts
  <1> QED BY <1>1, <1>2, <1>3, SafeNone DEF Good

LEMMA GoodStays ==
  ASSUME NEW cs, NEW ws, NEW tr, NEW q, NEW vis, Good(cs, ws, tr, q, vis, None), vis # <<>>,
         NEW w \in WatchType, w.clause = Head(vis).clause, Fits(cs, tr[q].lit, w),
         NEW xs, Rewatch(xs, ws, tr[q].lit, w),
         cs[w.clause].deleted \/ \E b \in DOMAIN tr : tr[b].lit \in LitsOf(cs[w.clause])
  PROVE  Good(cs, xs, tr, q, Tail(vis), None)
  <1>1. /\ Structure(cs, ws, tr, lims, q, vis, None)
        /\ ~unsat => Caught(cs, tr, lims, q, vis)
    BY SafeNone DEF Good
  <1>2. xs = [ws EXCEPT ![tr[q].lit] = Append(@, w)]
    BY DEF Rewatch
  <1>3. Structure(cs, xs, tr, lims, q, Tail(vis), None)
    BY <1>1, <1>2, StayStructure
  <1>4. ~unsat => Caught(cs, tr, lims, q, Tail(vis))
    BY <1>1, LookedCaught
  <1> QED BY <1>3, <1>4, SafeNone DEF Good

\* All other literals of the clause are false: the one left is true in every model.
LEMMA OnlyOneLeft ==
  ASSUME NEW tr \in Seq(StepType), NEW m, NEW c \in SUBSET Lits, Satisfies(m, c),
         \A i \in DOMAIN tr : Holds(m, tr[i].lit),
         NEW l, \A x \in c : x = l \/ x \in False(tr)
  PROVE  Holds(m, l)
  <1>1. PICK x \in c : Holds(m, x)
    BY HoldsFacts
  <1>2. \A i \in DOMAIN tr : tr[i].lit \in Lits
    <2>1. DOMAIN tr = 1 .. Len(tr) /\ \A i \in 1 .. Len(tr) : tr[i] \in StepType
      BY LenProperties, ElementOfSeq
    <2> QED BY <2>1 DEF StepType
  <1>3. ASSUME x \in False(tr) PROVE FALSE
    <2>1. PICK i \in DOMAIN tr : x = -tr[i].lit
      BY <1>3 DEF False
    <2> QED BY <1>1, <1>2, <2>1, HoldsFacts
  <1> QED BY <1>1, <1>3

LEMMA GoodAssigned ==
  ASSUME NEW cs, NEW ws, NEW tr, NEW q, NEW vis, Good(cs, ws, tr, q, vis, None),
         NEW id \in DOMAIN cs, ~cs[id].deleted, NEW l \in LitsOf(cs[id]), l \notin True(tr), l \notin False(tr),
         \A x \in LitsOf(cs[id]) : x = l \/ x \in False(tr),
         Long(cs[id]) => cs[id].lits[1] = l
  PROVE  Good(cs, ws, Assign(tr, l, id), q, vis, None)
         /\ \E b \in DOMAIN Assign(tr, l, id) : Assign(tr, l, id)[b].lit = l
  <1> DEFINE u == Assign(tr, l, id)
  <1>1. /\ Structure(cs, ws, tr, lims, q, vis, None)
        /\ ~unsat => Caught(cs, tr, lims, q, vis)
        /\ ~unsat => AllKept(premises, cs, tr, lims)
        /\ HeapOK(heap, tr)
    BY SafeNone DEF Good
  <1>2. ClausesOK(cs) /\ TrailOK(tr, lims) /\ HeadOK(tr, lims, q, vis, None)
    BY <1>1 DEF Structure
  <1>3. tr \in Seq(StepType) /\ Len(tr) \in Nat /\ DOMAIN tr = 1 .. Len(tr)
    BY <1>2, LenProperties DEF TrailOK
  <1>4. LitsOf(cs[id]) \in SUBSET Lits /\ l \in Lits
    BY <1>2, PairIn DEF ClausesOK
  <1>5. Var(l) \notin Assigned(tr)
    BY <1>3, <1>4, VarFree
  <1>6. id \in Nat /\ id # None
    <2>1. DOMAIN cs = 1 .. Len(cs) /\ Len(cs) \in Nat
      BY <1>2, LenProperties DEF ClausesOK
    <2> QED BY <2>1 DEF None
  <1>7. /\ Longer(u, tr) /\ Len(u) = Len(tr) + 1 /\ u[Len(tr) + 1].lit = l /\ u[Len(tr) + 1].reason = id
        /\ Assigned(u) = Assigned(tr) \cup {Var(l)}
    BY <1>2, <1>4, <1>5, <1>6, AssignIs
  <1>8. /\ DOMAIN u = 1 .. Len(u) /\ \A i \in DOMAIN tr : i \in DOMAIN u /\ u[i] = tr[i]
    BY <1>7, LongerFacts
  <1> HIDE DEF u
  <1>9. Len(tr) + 1 \in DOMAIN u /\ \A i \in DOMAIN u : i > Len(tr) => i = Len(tr) + 1
    BY <1>3, <1>7, <1>8
  <1>10. Because(cs, u, Len(tr) + 1)
    <2>1. ASSUME NEW x \in LitsOf(cs[id]), x # l PROVE \E k \in 1 .. (Len(tr) + 1) - 1 : x = -u[k].lit
      <3>1. PICK k \in DOMAIN tr : x = -tr[k].lit
        BY <2>1 DEF False
      <3>2. k \in 1 .. (Len(tr) + 1) - 1 /\ u[k] = tr[k]
        BY <3>1, <1>3, <1>8
      <3> QED BY <3>1, <3>2
    <2> QED BY <2>1, <1>7 DEF Because
  <1>11. Structure(cs, ws, u, lims, q, vis, None)
    BY <1>1, <1>4, <1>5, <1>6, <1>10, AssignStructure DEF u
  <1>12. ~unsat => Caught(cs, u, lims, q, vis)
    <2>1. q <= Len(tr) /\ q \in Nat
      BY <1>2 DEF HeadOK
    <2> QED BY <2>1, <1>1, <1>7, GrowCaught
  <1>13. ~unsat => AllKept(premises, cs, u, lims)
    BY <1>1, <1>7, GrowKept
  <1>14. task # "probe" => DecisionsOK(u, lims)
    <2>1. task # "probe" => DecisionsOK(tr, lims)
      BY DEF Good
    <2>2. \A i \in DOMAIN u : i > Len(tr) => u[i].reason # None
      BY <1>6, <1>7, <1>9
    <2> QED BY <2>1, <2>2, <1>7, GrowDecisions
  <1>15. HeapOK(heap, u)
    BY <1>1, <1>7 DEF HeapOK
  <1>16. ASSUME NEW m \in SUBSET Vars, Fulfils(m, premises)
         PROVE  Agrees(m, cs, u, lims) /\ Supposes(m, task, lemma, u)
    <2>1. Agrees(m, cs, tr, lims) /\ Supposes(m, task, lemma, tr)
      BY <1>16 DEF Good
    <2>2. Satisfies(m, LitsOf(cs[id]))
      BY <2>1 DEF Agrees
    <2>3. (\A i \in DOMAIN tr : Holds(m, tr[i].lit)) => Holds(m, l)
      BY <2>2, <1>3, <1>4, OnlyOneLeft
    <2>4. ASSUME NEW i \in DOMAIN u, i > Len(tr), TopLevel(lims, i) PROVE Holds(m, u[i].lit)
      <3>1. \A k \in DOMAIN lims : lims[k] <= Len(tr) /\ lims[k] \in Nat
        <4>1. DOMAIN lims = 1 .. Len(lims) /\ \A k \in 1 .. Len(lims) : lims[k] \in Nat
          BY <1>2, LenProperties, ElementOfSeq DEF TrailOK
        <4> QED BY <4>1, <1>2 DEF TrailOK
      <3>2. i = Len(tr) + 1
        BY <2>4, <1>9
      <3>3. DOMAIN lims = {}
        <4>1. ASSUME NEW k \in DOMAIN lims PROVE FALSE
          <5>1. i <= lims[k]
            BY <2>4 DEF TopLevel
          <5> QED BY <5>1, <3>1, <3>2, <1>3
        <4> QED BY <4>1
      <3>4. \A j \in DOMAIN tr : TopLevel(lims, j)
        BY <3>3 DEF TopLevel
      <3>5. \A j \in DOMAIN tr : Holds(m, tr[j].lit)
        BY <3>4, <2>1 DEF Agrees
      <3> QED BY <3>2, <3>5, <2>3, <1>7
    <2>5. Agrees(m, cs, u, lims)
      BY <2>1, <2>4, <1>7, GrowAgrees
    <2>6. Supposes(m, task, lemma, u)
      <3>1. \A i \in DOMAIN u : i \in DOMAIN tr \/ i = Len(tr) + 1
        BY <1>7, <1>9, LongerFacts
      <3> QED BY <3>1, <2>1, <2>3, <1>7, <1>8 DEF Supposes
    <2> QED BY <2>5, <2>6
  <1>17. Good(cs, ws, u, q, vis, None)
    BY <1>11, <1>12, <1>13, <1>14, <1>15, <1>16, SafeNone DEF Good
  <1> QED BY <1>7, <1>9, <1>17 DEF u

LEMMA GoodConflict ==
  ASSUME NEW cs, NEW ws, NEW tr, NEW q, NEW vis, Good(cs, ws, tr, q, vis, None), vis # <<>>,
         NEW w \in WatchType, w.clause = Head(vis).clause, Fits(cs, tr[q].lit, w),
         NEW xs, xs = [ws EXCEPT ![tr[q].lit] = (@ \o <<w>>) \o Tail(vis)],
         ~cs[w.clause].deleted, \A x \in LitsOf(cs[w.clause]) : x \in False(tr)
  PROVE  Good(cs, xs, tr, Len(tr), <<>>, w.clause)
  <1>1. /\ Structure(cs, ws, tr, lims, q, vis, None)
        /\ ~unsat => Caught(cs, tr, lims, q, vis)
    BY SafeNone DEF Good
  <1>2. PICK cf : cf = w.clause
    OBVIOUS
  <1>3. ~cs[cf].deleted /\ \A x \in LitsOf(cs[cf]) : x \in False(tr)
    BY <1>2
  <1>4. /\ Structure(cs, xs, tr, lims, Len(tr), <<>>, cf)
        /\ Caught(cs, tr, lims, q, vis) => Caught(cs, tr, lims, SafeHead(Len(tr), lims, cf), <<>>)
    BY <1>1, <1>2, <1>3, ConflictStructure
  <1> QED BY <1>1, <1>2, <1>4 DEF Good

LEMMA UnitGood ==
  ASSUME NEW cs, Good(cs, watches, trail, qhead, visiting, None), visiting # <<>>, conflict = None,
         NEW w \in WatchType, w.clause = Head(visiting).clause, Fits(cs, Propagated, w),
         ~cs[w.clause].deleted, NEW l \in LitsOf(cs[w.clause]), l \notin True(trail),
         \A x \in LitsOf(cs[w.clause]) : x = l \/ x \in False(trail),
         Long(cs[w.clause]) => cs[w.clause].lits[1] = l, Unit(w, l)
  PROVE  Good(cs, watches', trail', qhead', visiting', conflict')
  <1>1. Fits(cs, trail[qhead].lit, w)
    BY DEF Propagated
  <1>2. CASE l \in False(trail)
    <2>1. \A x \in LitsOf(cs[w.clause]) : x \in False(trail)
      BY <1>2
    <2>2. PICK xs : xs = watches'
      OBVIOUS
    <2>3. /\ conflict' = w.clause /\ visiting' = <<>> /\ qhead' = Len(trail) /\ trail' = trail
          /\ xs = [watches EXCEPT ![trail[qhead].lit] = (@ \o <<w>>) \o Tail(visiting)]
      BY <1>2, <2>2 DEF Unit, Propagated, Rest
    <2>4. Good(cs, xs, trail, Len(trail), <<>>, w.clause)
      BY <1>1, <2>1, <2>3, GoodConflict
    <2> QED BY <2>2, <2>3, <2>4
  <1>3. CASE l \notin False(trail)
    <2> DEFINE u == Assign(trail, l, w.clause)
    <2>1. PICK xs : xs = watches'
      OBVIOUS
    <2>2. /\ trail' = u /\ visiting' = Tail(visiting) /\ qhead' = qhead /\ conflict' = None
          /\ Rewatch(xs, watches, trail[qhead].lit, w)
      BY <1>3, <2>1 DEF Unit, Stays, Propagated, Rest, Rewatch
    <2>3. w.clause \in DOMAIN cs
      BY DEF Fits
    <2>4. Good(cs, watches, u, qhead, visiting, None) /\ \E b \in DOMAIN u : u[b].lit = l
      BY <1>3, <2>3, GoodAssigned
    <2>5. u[qhead] = trail[qhead]
      <3>1. TrailOK(trail, lims) /\ HeadOK(trail, lims, qhead, visiting, None)
        BY DEF Good, Structure
      <3>2. trail \in Seq(StepType) /\ Len(trail) \in Nat /\ DOMAIN trail = 1 .. Len(trail)
        BY <3>1, LenProperties DEF TrailOK
      <3>3. qhead \in 1 .. Len(trail)
        BY <3>1, <3>2 DEF HeadOK
      <3> QED BY <3>2, <3>3, AppendProperties DEF Assign
    <2> HIDE DEF u
    <2>6. \E b \in DOMAIN u : u[b].lit \in LitsOf(cs[w.clause])
      BY <2>4
    <2>7. Fits(cs, u[qhead].lit, w) /\ Rewatch(xs, watches, u[qhead].lit, w)
      BY <1>1, <2>2, <2>5
    <2>8. Good(cs, xs, u, qhead, Tail(visiting), None)
      BY <2>4, <2>6, <2>7, GoodStays
    <2> QED BY <2>1, <2>2, <2>8
  <1> QED BY <1>2, <1>3

LEMMA SwappedIs ==
  ASSUME NEW c, Proper(c), -Propagated \in Pair(c), NEW ls, ls = Swapped(c.lits)
  PROVE  /\ Reordered(ls, c.lits, Lits) /\ {ls[1], ls[2]} = Pair(c) /\ ls[2] = -Propagated /\ ls[1] # -Propagated
         /\ ls[1] = c.lits[1] \/ c.lits[1] = -Propagated
         /\ ls[1] \in Elements(ls) /\ Elements(ls) = LitsOf(c) /\ ls \in Seq(Lits) /\ DOMAIN ls = 1 .. Len(ls)
         /\ Len(ls) \in Nat /\ Len(ls) = Len(c.lits)
  <1>1. /\ c.lits \in Seq(Lits) /\ Len(c.lits) \in Nat /\ DOMAIN c.lits = 1 .. Len(c.lits)
        /\ 1 \in DOMAIN c.lits /\ 2 \in DOMAIN c.lits /\ c.lits[1] # c.lits[2] /\ LitsOf(c) = Elements(c.lits)
    BY PairIn
  <1>2. Pair(c) = {c.lits[1], c.lits[2]}
    BY DEF Pair
  <1>3. /\ Reordered(Swap(c.lits, 1, 2), c.lits, Lits)
        /\ Swap(c.lits, 1, 2)[1] = c.lits[2] /\ Swap(c.lits, 1, 2)[2] = c.lits[1]
    BY <1>1, SwapIs
  <1>4. Reordered(c.lits, c.lits, Lits)
    BY <1>1 DEF Reordered
  <1>5. CASE c.lits[1] = -Propagated
    <2>1. ls = Swap(c.lits, 1, 2)
      BY <1>5 DEF Swapped
    <2>2. ls[1] = c.lits[2] /\ ls[2] = c.lits[1] /\ Reordered(ls, c.lits, Lits)
      BY <2>1, <1>3
    <2>3. ls \in Seq(Lits) /\ Len(ls) = Len(c.lits) /\ Elements(ls) = LitsOf(c)
      BY <2>2, <1>1 DEF Reordered
    <2>4. DOMAIN ls = 1 .. Len(ls)
      BY <2>3, LenProperties
    <2>5. 1 \in DOMAIN ls
      BY <2>3, <2>4, <1>1
    <2> QED BY <2>2, <2>3, <2>4, <2>5, <1>1, <1>2, <1>5 DEF Elements
  <1>6. CASE c.lits[1] # -Propagated
    <2>1. ls = c.lits
      BY <1>6 DEF Swapped
    <2>2. c.lits[2] = -Propagated
      BY <1>2, <1>6
    <2> QED BY <2>1, <2>2, <1>1, <1>2, <1>4, <1>6 DEF Elements
  <1> QED BY <1>5, <1>6

\* The false literal comes second: the clause is no reason then, unless it was second.
LEMMA SwappedGood ==
  ASSUME NEW cs, NEW ws, NEW vis, Good(cs, ws, trail, qhead, vis, None), vis # <<>>, NEW id \in DOMAIN cs,
         -Propagated \in Pair(cs[id]), NEW ds, Relit(ds, cs, id, Swapped(cs[id].lits))
  PROVE  /\ Good(ds, ws, trail, qhead, vis, None) /\ ds[id].lits = Swapped(cs[id].lits)
         /\ Alike(ds, cs, id) /\ Pair(ds[id]) = Pair(cs[id])
         /\ \A p, w : Fits(cs, p, w) => Fits(ds, p, w)
  <1> DEFINE ls == Swapped(cs[id].lits)
  <1>1. ClausesOK(cs) /\ TrailOK(trail, lims) /\ ReasonsOK(cs, trail) /\ HeadOK(trail, lims, qhead, vis, None)
    BY DEF Good, Structure
  <1>2. Proper(cs[id])
    BY <1>1 DEF ClausesOK
  <1>3. /\ Reordered(ls, cs[id].lits, Lits) /\ {ls[1], ls[2]} = Pair(cs[id])
        /\ ls[1] = cs[id].lits[1] \/ cs[id].lits[1] = -Propagated
    BY <1>2, SwappedIs
  <1>4. Relit(ds, cs, id, ls)
    OBVIOUS
  <1> HIDE DEF ls
  <1>5. Alike(ds, cs, id) /\ ds[id].lits = ls
    BY <1>1, <1>3, <1>4, AlikeIs
  <1>6. Pair(ds[id]) = Pair(cs[id])
    BY <1>3, <1>5 DEF Pair
  <1>7. ASSUME NEW i \in DOMAIN trail, trail[i].reason = id
        PROVE  ~Long(cs[id]) \/ ds[id].lits[1] = cs[id].lits[1]
    <2>1. Len(trail) \in Nat /\ DOMAIN trail = 1 .. Len(trail) /\ \A j \in 1 .. Len(trail) : trail[j] \in StepType
      BY <1>1, LenProperties, ElementOfSeq DEF TrailOK
    <2>2. qhead \in DOMAIN trail
      BY <2>1, <1>1 DEF HeadOK
    <2>3. id # None
      <3>1. DOMAIN cs = 1 .. Len(cs)
        BY <1>1, LenProperties DEF ClausesOK
      <3> QED BY <3>1 DEF None
    <2>4. Long(cs[id]) => cs[id].lits[1] = trail[i].lit
      BY <2>3, <1>1, <1>7 DEF ReasonsOK, Because
    <2>5. trail[i].lit \in Lits /\ trail[qhead].lit \in Lits
      BY <2>1, <2>2 DEF StepType
    <2>6. trail[i].lit # -Propagated
      <3>1. ASSUME trail[i].lit = -Propagated PROVE FALSE
        <4>1. Var(trail[i].lit) = Var(trail[qhead].lit)
          BY <3>1, <2>5, LitFacts DEF Propagated
        <4>2. i = qhead
          BY <4>1, <2>2, <1>1 DEF TrailOK
        <4> QED BY <3>1, <4>2, <2>5, LitFacts DEF Propagated
      <3> QED BY <3>1
    <2> QED BY <2>4, <2>6, <1>3, <1>5
  <1>8. ReasonsOK(ds, trail)
    BY <1>1, <1>5, <1>7, AlikeParts
  <1>9. Good(ds, ws, trail, qhead, vis, None) /\ \A p, w : Fits(cs, p, w) => Fits(ds, p, w)
    BY <1>5, <1>6, <1>8, GoodTouched
  <1> QED BY <1>5, <1>6, <1>9 DEF ls

LEMMA LookKeeps ==
  ASSUME Inv, Look PROVE Inv'
  <1> DEFINE w == Head(visiting)
             id == w.clause
             c == clauses[w.clause]
             p == Propagated
  <1>1. visiting # <<>> /\ (Blocked(w) \/ Gone(w, c) \/ Binary(w, c) \/ LongClause(w, c)) /\ UNCHANGED Else
    BY DEF Look, Else
  <1>2. conflict = None /\ Good(clauses, watches, trail, qhead, visiting, None)
    BY <1>1, GoodNow
  <1>3. /\ ClausesOK(clauses) /\ VisitOK(clauses, watches, p, visiting) /\ TrailOK(trail, lims)
        /\ HeadOK(trail, lims, qhead, visiting, None)
        /\ Structure(clauses, watches, trail, lims, qhead, visiting, None)
    BY <1>2 DEF Good, Structure, Propagated
  <1>4. w \in WatchType /\ Fits(clauses, p, w)
    BY <1>1, <1>3, VisitParts DEF VisitOK
  <1>5. id \in DOMAIN clauses /\ w.blocker \in LitsOf(c) /\ (~c.deleted => -p \in Pair(c))
        /\ (~Long(c) => w.blocker # -p)
    BY <1>4 DEF Fits
  <1>6. Proper(c)
    BY <1>3, <1>5 DEF ClausesOK
  <1>7. -p \in False(trail)
    <2>1. trail \in Seq(StepType) /\ Len(trail) \in Nat /\ DOMAIN trail = 1 .. Len(trail)
      BY <1>3, LenProperties DEF TrailOK
    <2>2. qhead \in DOMAIN trail
      BY <1>1, <1>3, <2>1 DEF HeadOK
    <2> QED BY <2>2 DEF False, Propagated
  <1>8. w.clause = Head(visiting).clause /\ p = trail[qhead].lit
    BY DEF Propagated
  <1>9. SUFFICES Good(clauses', watches', trail', qhead', visiting', conflict')
    BY <1>1, GoodNext
  <1> HIDE DEF w, p
  <1>10. CASE Blocked(w)
    <2>1. PICK xs : xs = watches'
      OBVIOUS
    <2>2. /\ w.blocker \in True(trail) /\ Rewatch(xs, watches, trail[qhead].lit, w)
          /\ visiting' = Tail(visiting) /\ UNCHANGED <<trail, qhead, conflict, clauses>>
      BY <1>10, <2>1 DEF Blocked, Stays, Passes, Rest, Rewatch, Propagated
    <2>3. \E b \in DOMAIN trail : trail[b].lit \in LitsOf(clauses[w.clause])
      BY <2>2, <1>5 DEF True
    <2>4. Good(clauses, xs, trail, qhead, Tail(visiting), None)
      BY <2>2, <2>3, <1>1, <1>2, <1>4, <1>8, GoodStays
    <2> QED BY <2>1, <2>2, <2>4, <1>2
  <1>11. CASE Gone(w, c)
    <2>1. c.deleted /\ visiting' = Tail(visiting) /\ UNCHANGED <<trail, qhead, conflict, clauses, watches>>
      BY <1>11 DEF Gone, Passes, Rest
    <2>2. Structure(clauses, watches, trail, lims, qhead, Tail(visiting), None)
      BY <2>1, <1>1, <1>3, <1>8, GoneStructure
    <2>3. ASSUME ~unsat PROVE Caught(clauses, trail, lims, qhead, Tail(visiting))
      <3>1. Caught(clauses, trail, lims, qhead, visiting)
        BY <2>3, <1>2, SafeNone DEF Good
      <3> QED BY <3>1, <2>1, <1>1, <1>3, <1>8, LookedCaught
    <2>4. Good(clauses, watches, trail, qhead, Tail(visiting), None)
      BY <2>2, <2>3, <1>2, SafeNone DEF Good
    <2> QED BY <2>1, <2>4, <1>2
  <1>12. CASE Binary(w, c)
    <2>1. w.blocker \notin True(trail) /\ ~Long(c) /\ Unit(w, w.blocker) /\ clauses' = clauses
      BY <1>12 DEF Binary
    <2>2. ~c.deleted
      BY <2>1, <1>6 DEF Proper
    <2>3. LitsOf(c) = Pair(c)
      BY <2>1, <1>6, PairIn
    <2>4. \A x \in LitsOf(c) : x = w.blocker \/ x = -p
      BY <2>2, <2>3, <2>1, <1>5 DEF Pair
    <2>5. \A x \in LitsOf(c) : x = w.blocker \/ x \in False(trail)
      BY <2>4, <1>7
    <2>6. Good(clauses, watches', trail', qhead', visiting', conflict')
      BY <2>1, <2>2, <2>5, <1>1, <1>2, <1>4, <1>5, <1>8, UnitGood DEF p
    <2> QED BY <2>1, <2>6
  <1>13. CASE LongClause(w, c)
    <2> DEFINE ls == Swapped(c.lits)
               kept == Watch(id, ls[1])
               mid == [clauses EXCEPT ![id].lits = ls]
    <2>1. /\ w.blocker \notin True(trail) /\ Long(c) /\ ~c.deleted
          /\ \/ ls[1] \in True(trail) /\ Stays(kept) /\ Passes /\ clauses' = mid
             \/ /\ ls[1] \notin True(trail) /\ Watchable(ls) # {}
                /\ clauses' = [clauses EXCEPT ![id].lits = Swap(ls, 2, Min(Watchable(ls)))]
                /\ watches' = [watches EXCEPT ![-ls[Min(Watchable(ls))]] = Append(@, kept)]
                /\ Passes
             \/ /\ ls[1] \notin True(trail) /\ Watchable(ls) = {}
                /\ clauses' = mid /\ Unit(kept, ls[1])
      BY <1>13 DEF LongClause
    <2>2. -Propagated \in Pair(c)
      BY <2>1, <1>5 DEF p
    <2>3. /\ ls[2] = -p /\ ls[1] \in Elements(ls) /\ Elements(ls) = LitsOf(c) /\ {ls[1], ls[2]} = Pair(c)
          /\ ls \in Seq(Lits) /\ DOMAIN ls = 1 .. Len(ls) /\ Len(ls) \in Nat
      BY <2>2, <1>6, SwappedIs DEF p
    <2>4. Relit(mid, clauses, id, Swapped(clauses[id].lits))
      BY DEF Relit
    <2> HIDE DEF mid
    <2>5. /\ Good(mid, watches, trail, qhead, visiting, None) /\ mid[id].lits = Swapped(clauses[id].lits)
          /\ Alike(mid, clauses, id) /\ Pair(mid[id]) = Pair(clauses[id])
          /\ \A q, x : Fits(clauses, q, x) => Fits(mid, q, x)
      BY <2>2, <2>4, <1>1, <1>2, <1>5, SwappedGood
    <2>6. /\ mid[id].lits = ls /\ LitsOf(mid[id]) = LitsOf(c) /\ ~mid[id].deleted /\ Long(mid[id])
          /\ id \in DOMAIN mid /\ -p \in Pair(mid[id])
      BY <2>1, <2>2, <2>5, <1>5 DEF Alike, p
    <2>7. kept \in WatchType /\ kept.clause = id /\ kept.blocker = ls[1]
      <3>1. ls[1] \in Lits
        BY <2>3, PairIn, <1>6
      <3>2. id \in Nat
        BY <1>4 DEF WatchType
      <3> QED BY <3>1, <3>2 DEF Watch, WatchType
    <2>8. Fits(mid, p, kept)
      BY <2>3, <2>6, <2>7 DEF Fits
    <2> HIDE DEF ls, kept
    <2>9. CASE ls[1] \in True(trail) /\ Stays(kept) /\ Passes /\ clauses' = mid
      <3>1. PICK xs : xs = watches'
        OBVIOUS
      <3>2. /\ Rewatch(xs, watches, trail[qhead].lit, kept)
            /\ visiting' = Tail(visiting) /\ UNCHANGED <<trail, qhead, conflict>>
        BY <2>9, <3>1 DEF Stays, Passes, Rest, Rewatch, Propagated
      <3>3. \E b \in DOMAIN trail : trail[b].lit \in LitsOf(mid[kept.clause])
        BY <2>3, <2>6, <2>7, <2>9 DEF True
      <3>4. kept.clause = Head(visiting).clause /\ Fits(mid, trail[qhead].lit, kept)
        BY <2>7, <2>8, <1>8
      <3>5. Good(mid, xs, trail, qhead, Tail(visiting), None)
        BY <3>2, <3>3, <3>4, <2>5, <2>7, <1>1, GoodStays
      <3> QED BY <3>1, <3>2, <3>5, <2>9, <1>2
    <2>10. CASE /\ ls[1] \notin True(trail) /\ Watchable(ls) = {}
                /\ clauses' = mid /\ Unit(kept, ls[1])
      <3>1. ASSUME NEW x \in LitsOf(mid[id]) PROVE x = ls[1] \/ x \in False(trail)
        <4>1. PICK k \in DOMAIN ls : x = ls[k]
          BY <2>3, <2>6 DEF Elements
        <4>2. k = 1 \/ k = 2 \/ k \in 3 .. Len(ls)
          BY <2>3
        <4>3. k \in 3 .. Len(ls) => x \in False(trail)
          BY <4>1, <2>10 DEF Watchable
        <4> QED BY <4>1, <4>2, <4>3, <2>3, <1>7
      <3>2. kept.clause = Head(visiting).clause /\ Fits(mid, Propagated, kept)
        BY <2>7, <2>8, <1>8 DEF p
      <3>3. ls[1] \in LitsOf(mid[id])
        BY <2>3, <2>6
      <3>4. PICK l : l = ls[1]
        OBVIOUS
      <3>5. /\ ~mid[kept.clause].deleted /\ l \in LitsOf(mid[kept.clause]) /\ l \notin True(trail)
            /\ \A x \in LitsOf(mid[kept.clause]) : x = l \/ x \in False(trail)
            /\ Long(mid[kept.clause]) => mid[kept.clause].lits[1] = l
            /\ Unit(kept, l)
        BY <3>1, <3>3, <3>4, <2>6, <2>7, <2>10
      <3>6. Good(mid, watches', trail', qhead', visiting', conflict')
        BY <3>2, <3>5, <2>5, <2>7, <1>1, <1>2, UnitGood
      <3> QED BY <3>6, <2>10
    <2>11. CASE /\ ls[1] \notin True(trail) /\ Watchable(ls) # {}
                /\ clauses' = [clauses EXCEPT ![id].lits = Swap(ls, 2, Min(Watchable(ls)))]
                /\ watches' = [watches EXCEPT ![-ls[Min(Watchable(ls))]] = Append(@, kept)]
                /\ Passes
      <3>1. Min(Watchable(ls)) \in Watchable(ls)
        <4>1. Watchable(ls) \in SUBSET Nat
          BY <2>3 DEF Watchable
        <4> QED BY <4>1, <2>11, MinIs
      <3>2. PICK k : k = Min(Watchable(ls))
        OBVIOUS
      <3>3. PICK xs : xs = watches'
        OBVIOUS
      <3>4. PICK ds : ds = clauses'
        OBVIOUS
      <3>5. k \in 3 .. Len(mid[id].lits) /\ mid[id].lits[k] \notin False(trail)
        BY <3>1, <3>2, <2>6 DEF Watchable
      <3>6. Rewatch(xs, watches, -mid[id].lits[k], kept)
        BY <3>2, <3>3, <2>6, <2>11 DEF Rewatch
      <3>7. Relit(ds, mid, id, Swap(mid[id].lits, 2, k))
        <4>1. ds = [clauses EXCEPT ![id].lits = Swap(ls, 2, k)]
          BY <3>2, <3>4, <2>11
        <4>2. clauses \in Seq(ClauseType)
          BY <1>3 DEF ClausesOK
        <4>3. mid = [clauses EXCEPT ![id].lits = ls]
          BY DEF mid
        <4>4. ds = [mid EXCEPT ![id].lits = Swap(ls, 2, k)]
          BY <4>1, <4>2, <4>3, <1>5
        <4> QED BY <4>4, <2>6 DEF Relit
      <3>8. kept = Watch(id, mid[id].lits[1])
        BY <2>6 DEF kept
      <3>9. mid[id].lits[2] = -trail[qhead].lit /\ id = Head(visiting).clause
        BY <2>3, <2>6, <1>8
      <3>10. Structure(mid, watches, trail, lims, qhead, visiting, None)
             /\ (~unsat => Caught(mid, trail, lims, qhead, visiting))
        BY <2>5, SafeNone DEF Good
      <3> HIDE DEF id
      <3>11. /\ Structure(ds, xs, trail, lims, qhead, Tail(visiting), None) /\ Alike(ds, mid, id)
             /\ Caught(mid, trail, lims, qhead, visiting) => Caught(ds, trail, lims, qhead, Tail(visiting))
        BY <3>5, <3>6, <3>7, <3>8, <3>9, <3>10, <2>6, <1>1, MoveStructure
      <3>12. /\ \A m : Agrees(m, mid, trail, lims) => Agrees(m, ds, trail, lims)
             /\ \A P : AllKept(P, mid, trail, lims) => AllKept(P, ds, trail, lims)
        BY <3>11, AlikeParts
      <3>13. Good(ds, xs, trail, qhead, Tail(visiting), None)
        BY <3>10, <3>11, <3>12, <2>5, SafeNone DEF Good
      <3>14. visiting' = Tail(visiting) /\ UNCHANGED <<trail, qhead, conflict>>
        BY <2>11 DEF Passes, Rest
      <3> QED BY <3>3, <3>4, <3>13, <3>14, <1>2
    <2> QED BY <2>1, <2>9, <2>10, <2>11
  <1> QED BY <1>1, <1>10, <1>11, <1>12, <1>13

-----------------------------------------------------------------------------
(* Levels. *)

\* How many decisions came before a place of the trail.
LevelOf(lm, k) == Cardinality({n \in DOMAIN lm : lm[n] < k})

LEMMA DownSet ==
  ASSUME NEW n \in Nat, NEW S \in SUBSET (1 .. n), \A a, b \in 1 .. n : a <= b /\ b \in S => a \in S
  PROVE  Cardinality(S) \in 0 .. n /\ \A k \in 1 .. n : k \in S <=> k <= Cardinality(S)
  <1>1. CASE S = {}
    BY <1>1, FS_EmptySet
  <1>2. CASE S # {}
    <2>1. PICK m \in S : \A x \in S : x <= m
      <3>1. S \in SUBSET (0 .. n)
        OBVIOUS
      <3> QED BY <3>1, <1>2, MaxIs
    <2>2. S = 1 .. m /\ m \in 1 .. n
      <3>1. \A x \in S : x \in 1 .. m
        BY <2>1
      <3>2. \A x \in 1 .. m : x \in S
        <4>1. ASSUME NEW x \in 1 .. m PROVE x \in S
          <5>1. x \in 1 .. n /\ m \in 1 .. n /\ x <= m
            OBVIOUS
          <5> QED BY <5>1
        <4> QED BY <4>1
      <3> QED BY <3>1, <3>2
    <2>3. Cardinality(1 .. m) = m
      <3>1. 1 \in Int /\ m \in Int /\ m >= 1
        BY <2>2
      <3>2. Cardinality(1 .. m) = m - 1 + 1
        BY <3>1, FS_Interval
      <3> QED BY <3>1, <3>2
    <2>4. Cardinality(S) = m
      BY <2>2, <2>3
    <2> QED BY <2>2, <2>4
  <1> QED BY <1>1, <1>2

LEMMA LevelOfIs ==
  ASSUME NEW tr, NEW lm, TrailOK(tr, lm), NEW k \in Nat
  PROVE  /\ LevelOf(lm, k) \in 0 .. Len(lm) /\ Len(lm) \in Nat /\ DOMAIN lm = 1 .. Len(lm)
         /\ \A n \in DOMAIN lm : lm[n] \in Nat /\ (n <= LevelOf(lm, k) <=> lm[n] < k)
         /\ LevelOf(lm, k) = 0 <=> TopLevel(lm, k)
  <1> DEFINE S == {n \in DOMAIN lm : lm[n] < k}
  <1>1. lm \in Seq(Nat) /\ \A a, b \in DOMAIN lm : a <= b => lm[a] <= lm[b]
    BY DEF TrailOK
  <1>2. Len(lm) \in Nat /\ DOMAIN lm = 1 .. Len(lm) /\ \A n \in DOMAIN lm : lm[n] \in Nat
    BY <1>1, LenProperties, ElementOfSeq
  <1>3. S \in SUBSET (1 .. Len(lm))
    BY <1>2
  <1>4. \A a, b \in 1 .. Len(lm) : a <= b /\ b \in S => a \in S
    <2>1. ASSUME NEW a \in DOMAIN lm, NEW b \in DOMAIN lm, a <= b, lm[b] < k PROVE lm[a] < k
      <3>1. lm[a] <= lm[b] /\ lm[a] \in Nat /\ lm[b] \in Nat
        BY <2>1, <1>1, <1>2
      <3> QED BY <3>1, <2>1
    <2> QED BY <2>1, <1>2
  <1> HIDE DEF S
  <1>5. Cardinality(S) \in 0 .. Len(lm) /\ \A n \in 1 .. Len(lm) : n \in S <=> n <= Cardinality(S)
    BY <1>2, <1>3, <1>4, DownSet
  <1>6. LevelOf(lm, k) = Cardinality(S)
    BY DEF LevelOf, S
  <1>7. \A n \in DOMAIN lm : n \in S <=> lm[n] < k
    BY DEF S
  <1>8. \A n \in DOMAIN lm : n <= LevelOf(lm, k) <=> lm[n] < k
    BY <1>2, <1>5, <1>6, <1>7
  <1>9. LevelOf(lm, k) = 0 <=> TopLevel(lm, k)
    <2>1. ASSUME LevelOf(lm, k) = 0, NEW n \in DOMAIN lm PROVE k <= lm[n]
      <3>1. n \in 1 .. Len(lm) /\ ~ (n <= 0)
        BY <1>2
      <3>2. ~ (lm[n] < k)
        BY <3>1, <2>1, <1>8
      <3> QED BY <3>2, <1>2
    <2>2. ASSUME TopLevel(lm, k), LevelOf(lm, k) # 0 PROVE FALSE
      <3>1. LevelOf(lm, k) \in DOMAIN lm /\ LevelOf(lm, k) <= LevelOf(lm, k)
        BY <2>2, <1>2, <1>5, <1>6
      <3>2. lm[LevelOf(lm, k)] < k
        BY <3>1, <1>8
      <3>3. k <= lm[LevelOf(lm, k)] /\ lm[LevelOf(lm, k)] \in Nat
        BY <3>1, <2>2, <1>2 DEF TopLevel
      <3> QED BY <3>2, <3>3
    <2> QED BY <2>1, <2>2 DEF TopLevel
  <1> QED BY <1>2, <1>5, <1>6, <1>8, <1>9

\* What the module reads off the trail for a false literal.
LEMMA AtIs ==
  ASSUME TrailOK(trail, lims), NEW k \in DOMAIN trail, NEW x, x = -trail[k].lit \/ x = trail[k].lit
  PROVE  /\ At(Var(x)) = k /\ Level(Var(x)) = LevelOf(lims, k) /\ Reason(Var(x)) = trail[k].reason
         /\ x \in Lits /\ trail[k].lit \in Lits
  <1>1. /\ trail \in Seq(StepType)
        /\ \A i, j \in DOMAIN trail : Var(trail[i].lit) = Var(trail[j].lit) => i = j
    BY DEF TrailOK
  <1>2. trail[k].lit \in Lits
    <2>1. DOMAIN trail = 1 .. Len(trail) /\ \A i \in 1 .. Len(trail) : trail[i] \in StepType
      BY <1>1, LenProperties, ElementOfSeq
    <2> QED BY <2>1 DEF StepType
  <1>3. x \in Lits /\ Var(x) = Var(trail[k].lit)
    BY <1>2, LitFacts
  <1>4. At(Var(x)) = k
    BY <1>1, <1>3 DEF At
  <1> QED BY <1>2, <1>3, <1>4 DEF Level, Reason, LevelOf

-----------------------------------------------------------------------------
(* Resolution. *)

\* All literals are false, none of them at the top level; and the clause follows.
Refuted(c, tr, lm) ==
  c \in SUBSET Lits /\ \A x \in c : \E k \in DOMAIN tr : x = -tr[k].lit /\ LevelOf(lm, k) > 0
Implied(P, c) == \A m \in SUBSET Vars : Fulfils(m, P) => Satisfies(m, c)

\* What the top level decides is left out.
LEMMA AboveIs ==
  ASSUME TrailOK(trail, lims), NEW c \in SUBSET Lits, \A x \in c : \E k \in DOMAIN trail : x = -trail[k].lit
  PROVE  /\ Refuted(Above(c), trail, lims) /\ Above(c) \subseteq c
         /\ \A m, cs : Agrees(m, cs, trail, lims) => \A x \in c : Holds(m, x) => x \in Above(c)
  <1>1. ASSUME NEW x \in c
        PROVE  \E k \in DOMAIN trail : /\ x = -trail[k].lit /\ trail[k].lit \in Lits /\ k \in Nat
                                       /\ Level(Var(x)) = LevelOf(lims, k) /\ LevelOf(lims, k) \in Nat
                                       /\ LevelOf(lims, k) = 0 <=> TopLevel(lims, k)
    <2>1. PICK k \in DOMAIN trail : x = -trail[k].lit
      OBVIOUS
    <2>2. trail \in Seq(StepType)
      BY DEF TrailOK
    <2>3. k \in Nat
      BY <2>2, LenProperties
    <2>4. Level(Var(x)) = LevelOf(lims, k) /\ trail[k].lit \in Lits
      BY <2>1, AtIs
    <2>5. LevelOf(lims, k) \in 0 .. Len(lims) /\ (LevelOf(lims, k) = 0 <=> TopLevel(lims, k))
      BY <2>3, LevelOfIs
    <2> QED BY <2>1, <2>3, <2>4, <2>5
  <1>2. Above(c) \subseteq c
    BY DEF Above
  <1>3. Refuted(Above(c), trail, lims)
    <2>1. ASSUME NEW x \in Above(c) PROVE \E k \in DOMAIN trail : x = -trail[k].lit /\ LevelOf(lims, k) > 0
      <3>1. x \in c /\ Level(Var(x)) > 0
        BY DEF Above
      <3> QED BY <3>1, <1>1
    <2> QED BY <2>1, <1>2 DEF Refuted
  <1>4. ASSUME NEW m, NEW cs, Agrees(m, cs, trail, lims), NEW x \in c, Holds(m, x), x \notin Above(c) PROVE FALSE
    <2>1. PICK k \in DOMAIN trail : /\ x = -trail[k].lit /\ trail[k].lit \in Lits /\ k \in Nat
                                    /\ Level(Var(x)) = LevelOf(lims, k) /\ LevelOf(lims, k) \in Nat
                                    /\ LevelOf(lims, k) = 0 <=> TopLevel(lims, k)
      BY <1>1
    <2>2. ~ (Level(Var(x)) > 0)
      BY <1>4 DEF Above
    <2>3. TopLevel(lims, k)
      BY <2>1, <2>2
    <2>4. Holds(m, trail[k].lit)
      BY <2>3, <1>4 DEF Agrees
    <2> QED BY <2>1, <2>4, <1>4, HoldsFacts
  <1> QED BY <1>2, <1>3, <1>4

\* The state of an analysis.
Analysed ==
  /\ TrailOK(trail, lims) /\ ReasonsOK(clauses, trail) /\ ClausesOK(clauses)
  /\ DecisionsOK(trail, lims) /\ ConflictOK(clauses, trail, lims, conflict)
  /\ conflict # None /\ Len(lims) > 0
  /\ \A m \in SUBSET Vars : Fulfils(m, premises) => Agrees(m, clauses, trail, lims)

\* A clause met on the way, after n assignments were looked at.
Met(c, n) ==
  /\ Refuted(c, trail, lims) /\ Implied(premises, c) /\ Newest(c) # {}
  /\ \/ Cardinality(Newest(c)) = 1
     \/ \A k \in DOMAIN trail : -trail[k].lit \in c => k <= Len(trail) - n

Begun == Above(LitsOf(clauses[conflict]))
Onward(c, n) ==
  LET l == trail[Len(trail) + 1 - n].lit
  IN  IF Cardinality(Newest(c)) = 1 \/ -l \notin c THEN c
      ELSE (c \ {-l}) \cup Above(LitsOf(clauses[Reason(Var(l))]) \ {l})

LEMMA BegunIs ==
  ASSUME Analysed PROVE Met(Begun, 0)
  <1>1. /\ TrailOK(trail, lims) /\ ClausesOK(clauses) /\ Len(lims) > 0 /\ trail \in Seq(StepType)
        /\ \A m \in SUBSET Vars : Fulfils(m, premises) => Agrees(m, clauses, trail, lims)
    BY DEF Analysed, TrailOK
  <1>2. /\ conflict \in DOMAIN clauses
        /\ \A x \in LitsOf(clauses[conflict]) : \E k \in DOMAIN trail : x = -trail[k].lit
        /\ \E k \in DOMAIN trail : -trail[k].lit \in LitsOf(clauses[conflict]) /\ \A n \in DOMAIN lims : lims[n] < k
    BY DEF Analysed, ConflictOK
  <1> DEFINE c == LitsOf(clauses[conflict])
  <1>3. c \in SUBSET Lits
    BY <1>1, <1>2, PairIn DEF ClausesOK
  <1>4. PICK k \in DOMAIN trail : -trail[k].lit \in c /\ \A n \in DOMAIN lims : lims[n] < k
    BY <1>2
  <1>5. /\ \A x \in c : \E i \in DOMAIN trail : x = -trail[i].lit
    BY <1>2
  <1>12. Begun = Above(c)
    BY DEF Begun
  <1>13. \A m : Agrees(m, clauses, trail, lims) => Satisfies(m, c)
    BY <1>2 DEF Agrees
  <1> HIDE DEF c
  <1>6. /\ Refuted(Begun, trail, lims)
        /\ \A m, cs : Agrees(m, cs, trail, lims) => \A x \in c : Holds(m, x) => x \in Begun
    BY <1>1, <1>3, <1>5, <1>12, AboveIs
  <1>7. k \in Nat /\ DOMAIN trail = 1 .. Len(trail) /\ Len(trail) \in Nat
    BY <1>1, LenProperties
  <1>8. LevelOf(lims, k) = Len(lims) /\ Len(lims) \in Nat
    <2>1. /\ LevelOf(lims, k) \in 0 .. Len(lims) /\ Len(lims) \in Nat /\ DOMAIN lims = 1 .. Len(lims)
          /\ \A n \in DOMAIN lims : lims[n] \in Nat /\ (n <= LevelOf(lims, k) <=> lims[n] < k)
      BY <1>1, <1>7, LevelOfIs
    <2>2. Len(lims) \in DOMAIN lims
      BY <2>1, <1>1
    <2>3. Len(lims) <= LevelOf(lims, k)
      BY <2>1, <2>2, <1>4
    <2> QED BY <2>1, <2>3
  <1>9. Newest(Begun) # {}
    <2> DEFINE x == -trail[k].lit
    <2>1. Level(Var(x)) = LevelOf(lims, k)
      BY <1>1, AtIs
    <2>2. x \in c
      BY <1>4
    <2> HIDE DEF x
    <2>3. x \in Begun
      BY <2>1, <2>2, <1>1, <1>8, <1>12 DEF Above
    <2> QED BY <2>1, <2>3, <1>8 DEF Newest, DecisionLevel
  <1>10. ASSUME NEW m \in SUBSET Vars, Fulfils(m, premises) PROVE Satisfies(m, Begun)
    <2>1. Agrees(m, clauses, trail, lims)
      BY <1>1, <1>10
    <2>2. \E x \in c : Holds(m, x)
      BY <2>1, <1>13, HoldsFacts
    <2> QED BY <2>1, <2>2, <1>6, HoldsFacts
  <1>11. \A i \in DOMAIN trail : -trail[i].lit \in Begun => i <= Len(trail) - 0
    BY <1>7
  <1> QED BY <1>6, <1>9, <1>10, <1>11 DEF Met, Implied

\* A literal that is not the last of its level left has a reason.
LEMMA Reasoned ==
  ASSUME Analysed, NEW j \in DOMAIN trail, NEW k \in DOMAIN trail, k < j, LevelOf(lims, k) = Len(lims)
  PROVE  trail[j].reason # None
  <1> SUFFICES ASSUME trail[j].reason = None PROVE FALSE
    OBVIOUS
  <1>1. TrailOK(trail, lims) /\ DecisionsOK(trail, lims) /\ Len(lims) > 0 /\ trail \in Seq(StepType)
        /\ \A a, b \in DOMAIN lims : a <= b => lims[a] <= lims[b]
    BY DEF Analysed, TrailOK
  <1>2. k \in Nat /\ j \in Nat
    BY <1>1, LenProperties
  <1>3. /\ LevelOf(lims, k) \in 0 .. Len(lims) /\ Len(lims) \in Nat /\ DOMAIN lims = 1 .. Len(lims)
        /\ \A n \in DOMAIN lims : lims[n] \in Nat /\ (n <= LevelOf(lims, k) <=> lims[n] < k)
    BY <1>1, <1>2, LevelOfIs
  <1>4. \A n \in DOMAIN lims : lims[n] \in Nat /\ lims[n] < k
    <2>1. \A n \in DOMAIN lims : n <= LevelOf(lims, k)
      BY <1>3
    <2> QED BY <2>1, <1>3
  <1>5. lims = <<>> \/ j <= lims[1] \/ \E n \in DOMAIN lims : j = lims[n] + 1
    BY <1>1 DEF DecisionsOK
  <1>6. 1 \in DOMAIN lims /\ lims # <<>>
    BY <1>1, <1>3
  <1>7. ~ (j <= lims[1])
    BY <1>2, <1>4, <1>6
  <1>8. PICK n \in DOMAIN lims : j = lims[n] + 1
    BY <1>5, <1>6, <1>7
  <1> QED BY <1>2, <1>4, <1>8

\* A clause and the reason of the negation of one of its literals, without both.
Resolvent(d, c, l, r) == d = (c \ {-l}) \cup Above(LitsOf(r) \ {l})

LEMMA ResolventIs ==
  ASSUME Analysed, NEW c, Refuted(c, trail, lims), Implied(premises, c),
         NEW j \in DOMAIN trail, -trail[j].lit \in c, trail[j].reason # None,
         NEW d, Resolvent(d, c, trail[j].lit, clauses[trail[j].reason])
  PROVE  /\ Refuted(d, trail, lims) /\ Implied(premises, d)
         /\ \A x \in c : x # -trail[j].lit => x \in d
         /\ \A k \in DOMAIN trail : -trail[k].lit \in d => k < j \/ (-trail[k].lit \in c /\ k # j)
  <1> DEFINE l == trail[j].lit
             r == clauses[trail[j].reason]
             q == LitsOf(r) \ {l}
  <1>1. /\ TrailOK(trail, lims) /\ ClausesOK(clauses) /\ ReasonsOK(clauses, trail) /\ trail \in Seq(StepType)
        /\ \A m \in SUBSET Vars : Fulfils(m, premises) => Agrees(m, clauses, trail, lims)
        /\ \A a, b \in DOMAIN trail : Var(trail[a].lit) = Var(trail[b].lit) => a = b
    BY DEF Analysed, TrailOK
  <1>2. /\ trail[j].reason \in DOMAIN clauses /\ l \in LitsOf(r)
        /\ \A x \in LitsOf(r) : x = l \/ \E k \in 1 .. j - 1 : x = -trail[k].lit
    BY <1>1 DEF ReasonsOK, Because
  <1>3. LitsOf(r) \in SUBSET Lits
    BY <1>1, <1>2, PairIn DEF ClausesOK
  <1>4. DOMAIN trail = 1 .. Len(trail) /\ Len(trail) \in Nat
        /\ \A k \in DOMAIN trail : trail[k].lit \in Lits
    <2>1. DOMAIN trail = 1 .. Len(trail) /\ Len(trail) \in Nat /\ \A i \in 1 .. Len(trail) : trail[i] \in StepType
      BY <1>1, LenProperties, ElementOfSeq
    <2> QED BY <2>1 DEF StepType
  <1>5. \A x \in q : \E k \in DOMAIN trail : k < j /\ x = -trail[k].lit
    <2>1. \A k \in 1 .. j - 1 : k \in DOMAIN trail /\ k < j
      BY <1>4
    <2> QED BY <2>1, <1>2
  <1>6. \A m : Agrees(m, clauses, trail, lims) => Satisfies(m, LitsOf(r))
    BY <1>2 DEF Agrees
  <1>7. d = (c \ {-l}) \cup Above(q)
    BY DEF Resolvent
  <1>8. q \in SUBSET Lits /\ LitsOf(r) \subseteq q \cup {l} /\ l \in Lits /\ -l \in c
    BY <1>3, <1>4
  <1>15. l = trail[j].lit
    OBVIOUS
  <1> HIDE DEF l, r, q
  <1>9. /\ Refuted(Above(q), trail, lims) /\ Above(q) \subseteq q
        /\ \A m, cs : Agrees(m, cs, trail, lims) => \A x \in q : Holds(m, x) => x \in Above(q)
    BY <1>1, <1>5, <1>8, AboveIs
  <1>10. Refuted(d, trail, lims)
    BY <1>7, <1>9 DEF Refuted
  <1>11. ASSUME NEW m \in SUBSET Vars, Fulfils(m, premises) PROVE Satisfies(m, d)
    <2>1. Agrees(m, clauses, trail, lims)
      BY <1>1, <1>11
    <2>2. PICK x \in c : Holds(m, x)
      BY <1>11, HoldsFacts DEF Implied
    <2>3. CASE x # -l
      BY <2>2, <2>3, <1>7, HoldsFacts
    <2>4. CASE x = -l
      <3>1. PICK y \in LitsOf(r) : Holds(m, y)
        BY <2>1, <1>6, HoldsFacts
      <3>2. y # l
        BY <2>2, <2>4, <3>1, <1>8, HoldsFacts
      <3>3. y \in Above(q)
        BY <2>1, <3>1, <3>2, <1>8, <1>9
      <3> QED BY <3>1, <3>3, <1>7, HoldsFacts
    <2> QED BY <2>3, <2>4
  <1>12. \A x \in c : x # -l => x \in d
    BY <1>7
  <1>13. ASSUME NEW k \in DOMAIN trail, -trail[k].lit \in d, ~ (k < j) PROVE -trail[k].lit \in c /\ k # j
    <2>1. CASE -trail[k].lit \in Above(q)
      <3>1. PICK i \in DOMAIN trail : i < j /\ -trail[k].lit = -trail[i].lit
        BY <2>1, <1>5, <1>9
      <3>2. Var(trail[k].lit) = Var(trail[i].lit)
        BY <3>1, <1>4, LitFacts
      <3>3. k = i
        BY <3>2, <1>1
      <3> QED BY <3>1, <3>3, <1>13
    <2>2. CASE -trail[k].lit \in c \ {-l}
      BY <2>2, <1>15
    <2> QED BY <2>1, <2>2, <1>7, <1>13
  <1>14. Implied(premises, d)
    BY <1>11 DEF Implied
  <1> QED BY <1>10, <1>12, <1>13, <1>14, <1>15

LEMMA OnwardIs ==
  ASSUME Analysed, NEW n \in 1 .. Len(trail), NEW c, Met(c, n - 1)
  PROVE  Met(Onward(c, n), n)
  <1> DEFINE j == Len(trail) + 1 - n
             l == trail[j].lit
  <1>1. TrailOK(trail, lims) /\ trail \in Seq(StepType)
    BY DEF Analysed, TrailOK
  <1>2. /\ DOMAIN trail = 1 .. Len(trail) /\ Len(trail) \in Nat
        /\ \A k \in DOMAIN trail : k \in Nat
    BY <1>1, LenProperties
  <1>3. /\ Refuted(c, trail, lims) /\ Implied(premises, c) /\ Newest(c) # {}
        /\ \/ Cardinality(Newest(c)) = 1
           \/ \A k \in DOMAIN trail : -trail[k].lit \in c => k <= Len(trail) - (n - 1)
    BY DEF Met
  <1>4. CASE Cardinality(Newest(c)) = 1
    <2>1. Onward(c, n) = c
      BY <1>4 DEF Onward
    <2> QED BY <1>3, <1>4, <2>1 DEF Met
  <1>5. CASE Cardinality(Newest(c)) # 1
    <2>1. \A k \in DOMAIN trail : -trail[k].lit \in c => k <= j
      <3>1. Len(trail) - (n - 1) = j
        BY <1>2
      <3> HIDE DEF j
      <3> QED BY <3>1, <1>3, <1>5
    <2>2. j \in DOMAIN trail /\ \A k \in Nat : k < j => k <= Len(trail) - n
      BY <1>2
    <2>3. CASE -l \notin c
      <3>1. Onward(c, n) = c
        BY <2>3 DEF Onward
      <3>2. ASSUME NEW k \in DOMAIN trail, -trail[k].lit \in c PROVE k <= Len(trail) - n
        <4>1. k # j /\ k <= j
          BY <2>1, <2>3, <3>2
        <4>2. k < j
          <5> HIDE DEF j
          <5> QED BY <4>1, <2>2, <1>2
        <4> QED BY <4>2, <2>2, <1>2
      <3> QED BY <3>1, <3>2, <1>3 DEF Met
    <2>4. CASE -l \in c
      <3> DEFINE d == Onward(c, n)
      <3>1. Reason(Var(l)) = trail[j].reason /\ l \in Lits /\ -l \in Lits /\ -(-l) = l
        <4>1. l = trail[j].lit
          OBVIOUS
        <4> HIDE DEF l, j
        <4>2. Reason(Var(l)) = trail[j].reason /\ l \in Lits
          BY <4>1, <1>1, <2>2, AtIs
        <4> QED BY <4>2, LitFacts
      <3>2. d = (c \ {-l}) \cup Above(LitsOf(clauses[Reason(Var(l))]) \ {l})
        BY <1>5, <2>4 DEF Onward
      <3>3. Resolvent(d, c, trail[j].lit, clauses[trail[j].reason])
        <4> HIDE DEF d, j
        <4> QED BY <3>1, <3>2 DEF Resolvent
      <3>15. l = trail[j].lit
        OBVIOUS
      <3> HIDE DEF d, j, l
      <3>4. PICK y \in Newest(c) : y # -l
        <4> SUFFICES ASSUME \A y \in Newest(c) : y = -l PROVE FALSE
          OBVIOUS
        <4>1. Newest(c) = {-l}
          BY <1>3
        <4>2. Cardinality(Newest(c)) = 1
          BY <4>1, FS_Singleton
        <4> QED BY <4>2, <1>5
      <3>5. y \in c /\ Level(Var(y)) = Len(lims)
        BY DEF Newest, DecisionLevel
      <3>6. PICK k \in DOMAIN trail : y = -trail[k].lit
        BY <3>5, <1>3 DEF Refuted
      <3>7. LevelOf(lims, k) = Len(lims)
        BY <3>5, <3>6, <1>1, AtIs
      <3>8. k < j
        <4>1. k <= j /\ k # j
          BY <2>1, <3>4, <3>5, <3>6, <3>15
        <4> QED BY <4>1, <2>2, <1>2
      <3>9. trail[j].reason # None
        BY <3>7, <3>8, <2>2, Reasoned
      <3>10. /\ Refuted(d, trail, lims) /\ Implied(premises, d)
             /\ \A x \in c : x # -trail[j].lit => x \in d
             /\ \A i \in DOMAIN trail : -trail[i].lit \in d => i < j \/ (-trail[i].lit \in c /\ i # j)
        BY <1>3, <2>2, <2>4, <3>3, <3>9, <3>15, ResolventIs
      <3>11. y \in Newest(d)
        BY <3>4, <3>5, <3>10, <3>15 DEF Newest, DecisionLevel
      <3>12. ASSUME NEW i \in DOMAIN trail, -trail[i].lit \in d PROVE i <= Len(trail) - n
        <4>1. i < j
          BY <3>10, <3>12, <2>1, <2>2, <1>2
        <4> QED BY <4>1, <2>2, <1>2
      <3>13. Met(d, n)
        BY <3>10, <3>11, <3>12 DEF Met
      <3> QED BY <3>13 DEF d
    <2> QED BY <2>3, <2>4
  <1> QED BY <1>4, <1>5

Traced(g, N) == g = [n \in 0 .. N |-> IF n = 0 THEN Begun ELSE Onward(g[n - 1], n)]

LEMMA TracedExists ==
  ASSUME NEW N \in Nat PROVE \E g : Traced(g, N)
  <1> DEFINE Bad == {k \in Nat : ~ \E g : Traced(g, k)}
  <1> SUFFICES ASSUME Bad # {} PROVE FALSE
    OBVIOUS
  <1>1. Bad \in SUBSET Nat
    OBVIOUS
  <1>2. PICK n \in Bad : \A m \in Bad : n <= m
    <2> HIDE DEF Bad
    <2> QED BY <1>1, LeastNat
  <1>3. CASE n = 0
    <2> DEFINE g == [i \in 0 .. 0 |-> Begun]
    <2>1. Traced(g, 0)
      BY DEF Traced
    <2> QED BY <1>2, <1>3, <2>1
  <1>4. CASE n # 0
    <2>1. n \in Nat /\ n - 1 \in Nat /\ ~(n <= n - 1)
      BY <1>2, <1>4
    <2>2. n - 1 \notin Bad
      <3> HIDE DEF Bad
      <3> QED BY <1>2, <2>1
    <2>3. PICK g : Traced(g, n - 1)
      BY <2>1, <2>2
    <2> DEFINE e == Onward(g[n - 1], n)
               h == [i \in 0 .. n |-> IF i = n THEN e ELSE g[i]]
    <2>4. \A i \in 0 .. n - 1 : g[i] = IF i = 0 THEN Begun ELSE Onward(g[i - 1], i)
      BY <2>3 DEF Traced
    <2>5. \A i \in 0 .. n : h[i] = IF i = n THEN e ELSE g[i]
      OBVIOUS
    <2>6. ASSUME NEW i \in 0 .. n PROVE h[i] = IF i = 0 THEN Begun ELSE Onward(h[i - 1], i)
      <3> HIDE DEF h
      <3>1. CASE i = n
        <4>1. h[i - 1] = g[i - 1] /\ i # 0 /\ h[i] = e
          BY <1>4, <2>1, <2>5, <3>1
        <4> QED BY <3>1, <4>1
      <3>2. CASE i # n
        <4>1. i \in 0 .. n - 1 /\ h[i] = g[i]
          BY <2>1, <2>5, <3>2
        <4>2. i # 0 => i - 1 \in 0 .. n /\ i - 1 # n
          BY <2>1, <4>1
        <4>3. i # 0 => h[i - 1] = g[i - 1]
          BY <2>5, <4>2
        <4> QED BY <2>4, <4>1, <4>3
      <3> QED BY <3>1, <3>2
    <2>7. Traced(h, n)
      BY <2>6 DEF Traced
    <2> QED BY <1>2, <2>7
  <1> QED BY <1>3, <1>4

\* The clauses of an analysis, one after each assignment looked at.
TraceOf(it) ==
  /\ it[0] = Begun /\ it[Len(trail)] = Resolved
  /\ \A n \in 0 .. Len(trail) : Met(it[n], n)
  /\ \A n \in 1 .. Len(trail) : it[n] = Onward(it[n - 1], n)
LEMMA TraceIs ==
  ASSUME Analysed
  PROVE  \E it : TraceOf(it)
  <1> DEFINE It(g) == [n \in 0 .. Len(trail) |-> IF n = 0 THEN Begun ELSE Onward(g[n - 1], n)]
             it == CHOOSE g : g = It(g)
             Bad == {n \in Nat : n <= Len(trail) /\ ~Met(it[n], n)}
  <1>1. DOMAIN trail = 1 .. Len(trail) /\ Len(trail) \in Nat
    BY LenProperties DEF Analysed, TrailOK
  <1>2. Resolved = it[Len(trail)]
    BY DEF Resolved, Begun, Onward
  <1>3. it = It(it)
    <2>1. PICK g : Traced(g, Len(trail))
      BY <1>1, TracedExists
    <2>2. g = It(g)
      BY <2>1 DEF Traced
    <2> HIDE DEF It
    <2> QED BY <2>2
  <1> HIDE DEF it
  <1>4. \A n \in 0 .. Len(trail) : it[n] = IF n = 0 THEN Begun ELSE Onward(it[n - 1], n)
    BY <1>3
  <1> HIDE DEF It
  <1>5. Bad = {}
    <2> SUFFICES ASSUME Bad # {} PROVE FALSE
      OBVIOUS
    <2>1. PICK n \in Bad : \A m \in Bad : n <= m
      <3>1. Bad \in SUBSET Nat
        OBVIOUS
      <3> HIDE DEF Bad
      <3> QED BY <3>1, LeastNat
    <2>2. n \in 0 .. Len(trail) /\ ~Met(it[n], n)
      BY <1>1, <2>1
    <2>3. CASE n = 0
      BY <1>4, <2>2, <2>3, BegunIs
    <2>4. CASE n # 0
      <3>1. n - 1 \in Nat /\ n - 1 <= Len(trail) /\ n \in 1 .. Len(trail) /\ ~(n <= n - 1)
        BY <1>1, <2>2, <2>4
      <3>2. Met(it[n - 1], n - 1)
        BY <2>1, <3>1
      <3>3. it[n] = Onward(it[n - 1], n)
        BY <1>4, <2>2, <2>4
      <3> QED BY <2>2, <3>1, <3>2, <3>3, OnwardIs
    <2> QED BY <2>3, <2>4
  <1>6. it[0] = Begun
    BY <1>1, <1>4
  <1>7. \A n \in 0 .. Len(trail) : Met(it[n], n)
    BY <1>1, <1>5
  <1>8. \A n \in 1 .. Len(trail) : it[n] = Onward(it[n - 1], n)
    BY <1>1, <1>4
  <1>9. TraceOf(it)
    BY <1>2, <1>6, <1>7, <1>8 DEF TraceOf
  <1> QED BY <1>9

\* What is learned follows, and one of its literals, all false, is of the last level.
LEMMA ResolvedIs ==
  ASSUME Analysed
  PROVE  Refuted(Resolved, trail, lims) /\ Implied(premises, Resolved) /\ Cardinality(Newest(Resolved)) = 1
  <1>1. DOMAIN trail = 1 .. Len(trail) /\ Len(trail) \in Nat
    BY LenProperties DEF Analysed, TrailOK
  <1>2. Met(Resolved, Len(trail))
    <2>1. PICK it : TraceOf(it)
      BY TraceIs
    <2>2. Met(it[Len(trail)], Len(trail)) /\ it[Len(trail)] = Resolved
      BY <1>1, <2>1 DEF TraceOf
    <2> QED BY <2>2
  <1> DEFINE c == Resolved
  <1>7. /\ Refuted(c, trail, lims) /\ Implied(premises, c) /\ Newest(c) # {}
        /\ \/ Cardinality(Newest(c)) = 1
           \/ \A k \in DOMAIN trail : -trail[k].lit \in c => k <= Len(trail) - Len(trail)
    BY <1>2 DEF Met
  <1> HIDE DEF c
  <1>8. Cardinality(Newest(c)) = 1
    <2> SUFFICES ASSUME \A k \in DOMAIN trail : -trail[k].lit \in c => k <= Len(trail) - Len(trail) PROVE FALSE
      BY <1>7
    <2>1. PICK x \in c : TRUE
      BY <1>7 DEF Newest
    <2>2. PICK k \in DOMAIN trail : x = -trail[k].lit
      BY <1>7 DEF Refuted
    <2>3. k <= Len(trail) - Len(trail)
      BY <2>2
    <2> QED BY <2>3, <1>1
  <1> QED BY <1>7, <1>8 DEF c

-----------------------------------------------------------------------------
(* Minimisation. *)

\* Assignments that follow from the negation of others: their reasons lead back to them.
Seen(c, seen) ==
  \A i \in seen :
    /\ trail[i].reason # None
    /\ \A q \in LitsOf(clauses[trail[i].reason]) \ {trail[i].lit} :
         Level(Var(q)) = 0 \/ q \in c \ Newest(c) \/ At(Var(q)) \in seen

LEMMA RedundantHas ==
  ASSUME NEW c
  PROVE  /\ Redundant(c) \subseteq c \ Newest(c)
         /\ \A l \in Redundant(c) : \E seen \in SUBSET DOMAIN trail : At(Var(l)) \in seen /\ Seen(c, seen)
  <1>1. Redundant(c) \subseteq c \ Newest(c)
    BY DEF Redundant
  <1>2. ASSUME NEW l \in Redundant(c)
        PROVE  \E seen \in SUBSET DOMAIN trail : At(Var(l)) \in seen /\ Seen(c, seen)
    <2>1. PICK seen \in SUBSET DOMAIN trail :
            /\ At(Var(l)) \in seen
            /\ \A i \in seen :
                 /\ trail[i].reason # None
                 /\ \A q \in LitsOf(clauses[trail[i].reason]) \ {trail[i].lit} :
                      \/ Level(Var(q)) = 0 \/ q \in c \ Newest(c)
                      \/ Level(Var(q)) \in {Level(Var(x)) : x \in c \ Newest(c)} /\ At(Var(q)) \in seen
      BY DEF Redundant
    <2>2. Seen(c, seen)
      BY <2>1 DEF Seen
    <2> QED BY <2>1, <2>2
  <1> QED BY <1>1, <1>2

LEMMA RedundantIs ==
  ASSUME Analysed, NEW c, Refuted(c, trail, lims), Implied(premises, c)
  PROVE  Implied(premises, c \ Redundant(c))
  <1> DEFINE kept == c \ Redundant(c)
  <1>1. /\ TrailOK(trail, lims) /\ ClausesOK(clauses) /\ ReasonsOK(clauses, trail) /\ trail \in Seq(StepType)
        /\ \A m \in SUBSET Vars : Fulfils(m, premises) => Agrees(m, clauses, trail, lims)
    BY DEF Analysed, TrailOK
  <1>2. /\ Redundant(c) \subseteq c \ Newest(c)
        /\ \A l \in Redundant(c) : \E seen \in SUBSET DOMAIN trail : At(Var(l)) \in seen /\ Seen(c, seen)
    BY RedundantHas
  <1>3. DOMAIN trail = 1 .. Len(trail) /\ Len(trail) \in Nat /\ \A k \in DOMAIN trail : trail[k].lit \in Lits
    <2>1. DOMAIN trail = 1 .. Len(trail) /\ Len(trail) \in Nat /\ \A i \in 1 .. Len(trail) : trail[i] \in StepType
      BY <1>1, LenProperties, ElementOfSeq
    <2> QED BY <2>1 DEF StepType
  <1>6. c \in SUBSET Lits /\ \A x \in c : \E k \in DOMAIN trail : x = -trail[k].lit
    BY DEF Refuted
  <1>4. ASSUME NEW m \in SUBSET Vars, Fulfils(m, premises), ~Satisfies(m, kept) PROVE FALSE
    <2>1. Agrees(m, clauses, trail, lims)
      BY <1>1, <1>4
    <2>2. \A x \in kept : ~Holds(m, x)
      BY <1>4, HoldsFacts
    <2> DEFINE Led(j) == \/ -trail[j].lit \in c \ Newest(c)
                         \/ \E seen \in SUBSET DOMAIN trail : j \in seen /\ Seen(c, seen)
               Bad == {j \in Nat : j \in DOMAIN trail /\ Led(j) /\ ~Holds(m, trail[j].lit)}
    <2>3. Bad = {}
      <3> SUFFICES ASSUME Bad # {} PROVE FALSE
        OBVIOUS
      <3>1. PICK j \in Bad : \A i \in Bad : j <= i
        <4>1. Bad \in SUBSET Nat
          OBVIOUS
        <4> HIDE DEF Bad
        <4> QED BY <4>1, LeastNat
      <3>2. j \in DOMAIN trail /\ Led(j) /\ ~Holds(m, trail[j].lit) /\ j \in Nat
        BY <3>1
      <3>12. \A i \in DOMAIN trail : i < j /\ Led(i) => Holds(m, trail[i].lit)
        <4>1. \A i \in DOMAIN trail : i \in Nat /\ (i < j => ~ (j <= i))
          BY <1>3, <3>2
        <4> QED BY <3>1, <4>1
      <3>3. PICK seen \in SUBSET DOMAIN trail : j \in seen /\ Seen(c, seen)
        <4>1. CASE -trail[j].lit \in c \ Newest(c)
          <5>1. trail[j].lit \in Lits
            BY <3>2, <1>3
          <5>2. Holds(m, -trail[j].lit)
            BY <5>1, <3>2, HoldsFacts
          <5>3. -trail[j].lit \in Redundant(c)
            BY <5>2, <4>1, <2>2
          <5>4. At(Var(-trail[j].lit)) = j
            BY <1>1, <3>2, AtIs
          <5> QED BY <1>2, <5>3, <5>4
        <4>2. CASE \E seen \in SUBSET DOMAIN trail : j \in seen /\ Seen(c, seen)
          BY <4>2
        <4> QED BY <3>2, <4>1, <4>2
      <3> DEFINE r == clauses[trail[j].reason]
                 l == trail[j].lit
      <3>4. /\ trail[j].reason # None
            /\ \A q \in LitsOf(r) \ {l} :
                 Level(Var(q)) = 0 \/ q \in c \ Newest(c) \/ At(Var(q)) \in seen
        BY <3>3 DEF Seen
      <3>5. /\ trail[j].reason \in DOMAIN clauses
            /\ \A x \in LitsOf(r) : x = l \/ \E k \in 1 .. j - 1 : x = -trail[k].lit
        BY <3>2, <3>4, <1>1 DEF ReasonsOK, Because
      <3>6. Satisfies(m, LitsOf(r))
        BY <2>1, <3>5 DEF Agrees
      <3>7. PICK q \in LitsOf(r) : Holds(m, q)
        BY <3>6, HoldsFacts
      <3>8. q # l
        BY <3>2, <3>7
      <3>9. PICK k \in 1 .. j - 1 : q = -trail[k].lit
        BY <3>5, <3>8
      <3>10. k \in DOMAIN trail /\ k < j /\ k \in Nat
        BY <3>2, <1>3
      <3>11. Level(Var(q)) = LevelOf(lims, k) /\ At(Var(q)) = k /\ trail[k].lit \in Lits
        BY <3>9, <3>10, <1>1, AtIs
      <3>13. Holds(m, trail[k].lit)
        <4>1. CASE Level(Var(q)) = 0
          <5>1. TopLevel(lims, k)
            BY <4>1, <3>10, <3>11, <1>1, LevelOfIs
          <5> QED BY <5>1, <3>10, <2>1 DEF Agrees
        <4>2. CASE q \in c \ Newest(c)
          <5>1. Led(k)
            BY <4>2, <3>9
          <5> HIDE DEF Led
          <5> QED BY <5>1, <3>10, <3>12
        <4>3. CASE At(Var(q)) \in seen
          <5>1. Led(k)
            BY <4>3, <3>3, <3>11
          <5> HIDE DEF Led
          <5> QED BY <5>1, <3>10, <3>12
        <4> QED BY <4>1, <4>2, <4>3, <3>4, <3>8
      <3> QED BY <3>7, <3>9, <3>11, <3>13, HoldsFacts
    <2>4. PICK x \in c : Holds(m, x)
      BY <1>4, HoldsFacts DEF Implied
    <2>5. x \in Redundant(c)
      BY <2>2, <2>4
    <2>6. PICK k \in DOMAIN trail : x = -trail[k].lit
      BY <1>6
    <2>7. Led(k)
      BY <2>5, <2>6, <1>2
    <2>8. Holds(m, trail[k].lit)
      <3>1. k \in Nat
        BY <1>3
      <3> HIDE DEF Led
      <3> QED BY <3>1, <2>3, <2>7
    <2>9. trail[k].lit \in Lits
      BY <1>3
    <2> QED BY <2>4, <2>6, <2>8, <2>9, HoldsFacts
  <1> QED BY <1>4 DEF Implied

-----------------------------------------------------------------------------
(* What is learned. *)

\* All but the user's part of the invariant, between two propagations.
Fine(P, cs, ws, tr, lm, q) ==
  /\ Structure(cs, ws, tr, lm, q, <<>>, None) /\ Caught(cs, tr, lm, q, <<>>) /\ AllKept(P, cs, tr, lm)
  /\ DecisionsOK(tr, lm)
  /\ \A m \in SUBSET Vars : Fulfils(m, P) => Agrees(m, cs, tr, lm)

LEMMA FineParts ==
  ASSUME NEW P, NEW cs, NEW ws, NEW tr, NEW lm, NEW q, Fine(P, cs, ws, tr, lm, q)
  PROVE  /\ ClausesOK(cs) /\ TrailOK(tr, lm) /\ ReasonsOK(cs, tr) /\ WatchesOK(cs, ws)
         /\ q \in Nat /\ q <= Len(tr) /\ tr \in Seq(StepType) /\ cs \in Seq(ClauseType)
         /\ Len(tr) \in Nat /\ DOMAIN tr = 1 .. Len(tr) /\ Len(cs) \in Nat /\ DOMAIN cs = 1 .. Len(cs)
  <1>1. /\ ClausesOK(cs) /\ TrailOK(tr, lm) /\ ReasonsOK(cs, tr) /\ WatchesOK(cs, ws)
        /\ q \in Nat /\ q <= Len(tr)
    BY DEF Fine, Structure, HeadOK
  <1>2. tr \in Seq(StepType) /\ cs \in Seq(ClauseType)
    BY <1>1 DEF ClausesOK, TrailOK
  <1> QED BY <1>1, <1>2, LenProperties

\* A literal that follows, at the top level.
LEMMA FineUnit ==
  ASSUME NEW P, NEW cs, NEW ws, NEW t, NEW q, Fine(P, cs, ws, t, <<>>, q),
         NEW l \in Lits, Var(l) \notin Assigned(t), Implied(P, {l})
  PROVE  Fine(P, cs, ws, Assign(t, l, None), <<>>, q)
  <1> DEFINE u == Assign(t, l, None)
  <1>1. /\ TrailOK(t, <<>>) /\ q \in Nat /\ q <= Len(t) /\ Len(t) \in Nat /\ None \in Nat
    BY FineParts DEF None
  <1>2. Structure(cs, ws, u, <<>>, q, <<>>, None)
    BY <1>1, AssignStructure DEF Fine
  <1>3. Longer(u, t) /\ Len(u) = Len(t) + 1 /\ u[Len(t) + 1].lit = l
    BY <1>1, AssignIs
  <1> HIDE DEF u
  <1>4. Caught(cs, u, <<>>, q, <<>>)
    BY <1>1, <1>3, GrowCaught DEF Fine
  <1>5. AllKept(P, cs, u, <<>>)
    BY <1>3, GrowKept DEF Fine
  <1>6. DecisionsOK(u, <<>>)
    BY DEF DecisionsOK
  <1>7. ASSUME NEW m \in SUBSET Vars, Fulfils(m, P) PROVE Agrees(m, cs, u, <<>>)
    <2>1. Agrees(m, cs, t, <<>>)
      BY <1>7 DEF Fine
    <2>2. Holds(m, l)
      <3>1. Satisfies(m, {l})
        BY <1>7 DEF Implied
      <3> QED BY <3>1 DEF Satisfies, Holds
    <2>3. \A i \in DOMAIN u : i > Len(t) => i = Len(t) + 1
      BY <1>1, <1>3, LongerFacts
    <2>4. \A i \in DOMAIN u : i > Len(t) /\ TopLevel(<<>>, i) => Holds(m, u[i].lit)
      BY <1>3, <2>2, <2>3
    <2> QED BY <1>3, <2>1, <2>4, GrowAgrees
  <1> QED BY <1>2, <1>4, <1>5, <1>6, <1>7 DEF Fine, u

\* A clause whose literals are false but for the first, the second from the last level on.
Late(x, t, m) == \A i \in DOMAIN t : x = -t[i].lit => \A k \in DOMAIN m : m[k] < i
Asserts(c, t, m) ==
  /\ Proper(c) /\ ~c.deleted /\ Var(c.lits[1]) \notin Assigned(t) /\ Late(c.lits[2], t, m)
  /\ \A x \in LitsOf(c) : x = c.lits[1] \/ \E k \in 1 .. Len(t) : x = -t[k].lit

LEMMA FineLearnt ==
  ASSUME NEW P, NEW cs, NEW ws, NEW t, NEW m, NEW q, Fine(P, cs, ws, t, m, q), Len(m) > 0,
         NEW c, Asserts(c, t, m), Implied(P, LitsOf(c))
  PROVE  Fine(P, Append(cs, c), Watching(ws, Len(cs) + 1, c), Assign(t, c.lits[1], Len(cs) + 1), m, q)
  <1> DEFINE id == Len(cs) + 1
             ds == Append(cs, c)
             vs == Watching(ws, Len(cs) + 1, c)
             l == c.lits[1]
             s == c.lits[2]
             u == Assign(t, l, id)
  <1>1. /\ ClausesOK(cs) /\ TrailOK(t, m) /\ q \in Nat /\ q <= Len(t) /\ Len(t) \in Nat /\ Len(cs) \in Nat
        /\ DOMAIN t = 1 .. Len(t) /\ t \in Seq(StepType)
    BY FineParts
  <1>2. Proper(c) /\ ~c.deleted /\ Var(l) \notin Assigned(t) /\ Late(s, t, m)
        /\ \A x \in LitsOf(c) : x = l \/ \E k \in 1 .. Len(t) : x = -t[k].lit
    BY DEF Asserts
  <1>3. l \in Lits /\ s \in Lits /\ l # s /\ l \in LitsOf(c) /\ Pair(c) = {l, s}
    BY <1>2, PairIn DEF Pair
  <1>4. Structure(ds, vs, t, m, q, <<>>, None)
    BY <1>2, AttachStructure DEF Fine
  <1>5. ClausesOK(ds) /\ Attached(ds, cs, c)
    BY <1>1, <1>2, AttachIs
  <1>6. id \in Nat /\ id # None
    BY <1>1 DEF None
  <1>7. Longer(u, t) /\ Len(u) = Len(t) + 1 /\ u[Len(t) + 1].lit = l /\ u[Len(t) + 1].reason = id
    BY <1>1, <1>2, <1>3, <1>6, AssignIs
  <1>8. id \in DOMAIN ds /\ ds[id] = c
    BY <1>1 DEF ClausesOK
  <1> HIDE DEF ds, vs, u, id, l, s
  <1>9. \A i \in DOMAIN t : i \in DOMAIN u /\ u[i] = t[i]
    BY <1>7, LongerFacts
  <1>10. DOMAIN u = 1 .. Len(t) + 1
    BY <1>7, LongerFacts
  <1>11. Because(ds, u, Len(t) + 1)
    <2>1. \A x \in LitsOf(c) : x = l \/ \E k \in 1 .. (Len(t) + 1) - 1 : x = -u[k].lit
      <3>1. (Len(t) + 1) - 1 = Len(t)
        BY <1>1
      <3>2. \A k \in 1 .. Len(t) : u[k] = t[k]
        BY <1>1, <1>9
      <3> QED BY <3>1, <3>2, <1>2
    <2>2. c.lits[1] = l
      BY DEF l
    <2> QED BY <2>1, <2>2, <1>2, <1>3, <1>7, <1>8 DEF Because
  <1>12. Structure(ds, vs, u, m, q, <<>>, None)
    <2>1. id # None => Because(ds, Assign(t, l, id), Len(t) + 1)
      BY <1>11 DEF u
    <2> QED BY <2>1, <1>2, <1>3, <1>4, <1>6, AssignStructure DEF u
  <1>13. Caught(cs, u, m, q, <<>>)
    BY <1>1, <1>7, GrowCaught DEF Fine
  <1>14. ASSUME NEW i \in DOMAIN u, -u[i].lit \in Pair(c), i <= q PROVE Covered(c, u, m, i)
    <2>1. i \in DOMAIN t /\ u[i] = t[i]
      <3>1. i \in 1 .. Len(t)
        BY <1>1, <1>10, <1>14
      <3> QED BY <3>1, <1>1, <1>9
    <2>2. t[i].lit \in Lits
      <3>1. t[i] \in StepType
        BY <2>1, <1>1, ElementOfSeq
      <3> QED BY <3>1 DEF StepType
    <2>3. -u[i].lit # l
      <3> SUFFICES ASSUME -t[i].lit = l PROVE FALSE
        BY <2>1
      <3>1. Var(t[i].lit) = Var(l)
        BY <2>2, LitFacts
      <3> QED BY <3>1, <2>1, <1>2 DEF Assigned
    <2>4. s = -t[i].lit
      BY <2>1, <2>3, <1>3, <1>14
    <2>5. \A k \in DOMAIN m : m[k] < i
      BY <2>1, <2>4, <1>2 DEF Late
    <2>6. \A k \in DOMAIN m : ~ (i <= m[k])
      <3>1. \A k \in DOMAIN m : m[k] \in Nat
        BY <1>1, LevelOfIs
      <3>2. i \in Nat
        BY <2>1, <1>1
      <3> QED BY <3>1, <3>2, <2>5
    <2>7. Len(t) + 1 \in DOMAIN u
      BY <1>1, <1>10
    <2> QED BY <2>6, <2>7, <1>3, <1>7 DEF Covered
  <1>15. Caught(ds, u, m, q, <<>>)
    BY <1>1, <1>2, <1>5, <1>13, <1>14, AttachCaught
  <1>16. AllKept(P, ds, u, m)
    <2>1. AllKept(P, cs, u, m)
      BY <1>7, GrowKept DEF Fine
    <2> QED BY <2>1, <1>1, <1>2, <1>5, AttachRest
  <1>20. \A i \in DOMAIN u : i > Len(t) => i = Len(t) + 1
    BY <1>1, <1>10
  <1>17. DecisionsOK(u, m)
    <2>1. \A i \in DOMAIN u : i > Len(t) => u[i].reason # None
      BY <1>6, <1>7, <1>20
    <2> QED BY <2>1, <1>7, GrowDecisions DEF Fine
  <1>18. ASSUME NEW mo \in SUBSET Vars, Fulfils(mo, P) PROVE Agrees(mo, ds, u, m)
    <2>1. Agrees(mo, cs, t, m) /\ Satisfies(mo, LitsOf(c))
      BY <1>18 DEF Fine, Implied
    <2>2. \A i \in DOMAIN u : ~ (i > Len(t) /\ TopLevel(m, i))
      <3>1. Len(m) \in DOMAIN m /\ m[Len(m)] \in Nat /\ m[Len(m)] <= Len(t)
        <4>1. Len(m) \in Nat /\ DOMAIN m = 1 .. Len(m) /\ \A k \in DOMAIN m : m[k] \in Nat
          BY <1>1, LevelOfIs
        <4>2. Len(m) \in DOMAIN m
          BY <4>1
        <4> QED BY <4>1, <4>2, <1>1 DEF TrailOK
      <3>2. ~ (Len(t) + 1 <= m[Len(m)])
        BY <3>1, <1>1
      <3>3. ~TopLevel(m, Len(t) + 1)
        BY <3>1, <3>2 DEF TopLevel
      <3> QED BY <3>3, <1>20
    <2>3. Agrees(mo, cs, u, m)
      BY <2>1, <2>2, <1>7, GrowAgrees
    <2> QED BY <2>1, <2>3, <1>1, <1>2, <1>5, AttachRest
  <1>19. Fine(P, ds, vs, u, m, q)
    BY <1>12, <1>15, <1>16, <1>17, <1>18 DEF Fine
  <1> QED BY <1>19 DEF ds, vs, u, id, l

-----------------------------------------------------------------------------
(* Reductions. *)

\* Some clauses are deleted, none that a reason names, nor glue.
Thinner(ds, cs, tr) ==
  /\ ds \in Seq(ClauseType) /\ DOMAIN ds = DOMAIN cs
  /\ \A id \in DOMAIN cs : /\ ds[id].lits = cs[id].lits /\ ds[id].glue = cs[id].glue
                           /\ cs[id].deleted => ds[id].deleted
                           /\ cs[id].glue => ~ds[id].deleted
  /\ \A i \in DOMAIN tr : tr[i].reason # None => ~ds[tr[i].reason].deleted

LEMMA FineThinner ==
  ASSUME NEW P, NEW cs, NEW ws, NEW t, NEW m, NEW q, Fine(P, cs, ws, t, m, q),
         NEW ds, Thinner(ds, cs, t)
  PROVE  Fine(P, ds, ws, t, m, q)
  <1>1. /\ ClausesOK(cs) /\ TrailOK(t, m) /\ ReasonsOK(cs, t) /\ WatchesOK(cs, ws)
        /\ HeadOK(t, m, q, <<>>, None) /\ Complete(cs, ws, t[q].lit, <<>>)
        /\ Caught(cs, t, m, q, <<>>) /\ AllKept(P, cs, t, m) /\ DecisionsOK(t, m)
        /\ \A mo \in SUBSET Vars : Fulfils(mo, P) => Agrees(mo, cs, t, m)
    BY DEF Fine, Structure
  <1>2. /\ ds \in Seq(ClauseType) /\ DOMAIN ds = DOMAIN cs
        /\ \A id \in DOMAIN cs : /\ ds[id].lits = cs[id].lits /\ ds[id].glue = cs[id].glue
                                 /\ cs[id].deleted => ds[id].deleted
                                 /\ cs[id].glue => ~ds[id].deleted
        /\ \A i \in DOMAIN t : t[i].reason # None => ~ds[t[i].reason].deleted
    BY DEF Thinner
  <1>3. \A id \in DOMAIN cs : /\ LitsOf(ds[id]) = LitsOf(cs[id]) /\ Pair(ds[id]) = Pair(cs[id])
                              /\ (Long(ds[id]) <=> Long(cs[id]))
    BY <1>2 DEF LitsOf, Pair, Long
  <1>4. ClausesOK(ds)
    <2>1. ASSUME NEW id \in DOMAIN ds PROVE Proper(ds[id])
      <3>1. ds[id] \in ClauseType
        BY <1>2, LenProperties, ElementOfSeq
      <3>2. Proper(cs[id])
        BY <1>1, <1>2 DEF ClausesOK
      <3> QED BY <3>1, <3>2, <1>2, <1>3 DEF Proper
    <2> QED BY <2>1, <1>2 DEF ClausesOK
  <1>5. ReasonsOK(ds, t)
    BY <1>1, <1>2, <1>3 DEF ReasonsOK, Because
  <1>6. WatchesOK(ds, ws)
    <2>1. ASSUME NEW p, NEW w, Fits(cs, p, w) PROVE Fits(ds, p, w)
      BY <2>1, <1>2, <1>3 DEF Fits
    <2>2. ASSUME NEW p \in Lits PROVE ListOK(ds, p, ws[p])
      <3>1. ListOK(cs, p, ws[p])
        BY <1>1 DEF WatchesOK
      <3> QED BY <3>1, <2>1 DEF ListOK
    <2> QED BY <2>2, <1>1 DEF WatchesOK
  <1>7. Complete(ds, ws, t[q].lit, <<>>)
    BY <1>1, <1>2, <1>3 DEF Complete
  <1>8. VisitOK(ds, ws, t[q].lit, <<>>) /\ ConflictOK(ds, t, m, None) /\ None \in Nat
    BY EmptyLists DEF VisitOK, ConflictOK, None
  <1>9. Structure(ds, ws, t, m, q, <<>>, None)
    BY <1>1, <1>4, <1>5, <1>6, <1>7, <1>8 DEF Structure
  <1>10. Caught(ds, t, m, q, <<>>)
    BY <1>1, <1>2, <1>3 DEF Caught, Covered
  <1>11. AllKept(P, ds, t, m)
    <2>1. ASSUME NEW c \in P PROVE Kept1(c, ds, t, m)
      <3>1. Kept1(c, cs, t, m)
        BY <1>1 DEF AllKept
      <3>2. (\E id \in DOMAIN cs : cs[id].glue /\ LitsOf(cs[id]) \subseteq c) =>
              \E id \in DOMAIN ds : ds[id].glue /\ LitsOf(ds[id]) \subseteq c
        BY <1>2, <1>3
      <3> QED BY <3>1, <3>2 DEF Kept1
    <2> QED BY <2>1 DEF AllKept
  <1>12. ASSUME NEW mo, Agrees(mo, cs, t, m) PROVE Agrees(mo, ds, t, m)
    BY <1>12, <1>2, <1>3 DEF Agrees
  <1> QED BY <1>1, <1>9, <1>10, <1>11, <1>12 DEF Fine

\* Deleted clauses leave, and the others get new numbers.
Live(cs) == {i \in DOMAIN cs : ~cs[i].deleted}
Compact(ds, cs) ==
  /\ ds \in Seq(ClauseType)
  /\ \A id \in Live(cs) : NewId(cs, id) \in DOMAIN ds /\ ds[NewId(cs, id)] = cs[id] /\ NewId(cs, id) \in Nat \ {0}
  /\ \A a, b \in Live(cs) : NewId(cs, a) = NewId(cs, b) => a = b
  /\ \A j \in DOMAIN ds : \E id \in Live(cs) : NewId(cs, id) = j

LEMMA CompactIs ==
  ASSUME NEW cs, cs \in Seq(ClauseType)
  PROVE  Compact(Only(cs, Live(cs)), cs)
  <1> DEFINE K == Live(cs)
             ds == Only(cs, K)
             n == Cardinality(K)
             o == InOrder(K)
  <1>1. K \in SUBSET DOMAIN cs
    BY DEF Live
  <1>2. DOMAIN cs = 1 .. Len(cs) /\ Len(cs) \in Nat
    BY LenProperties
  <1>3. /\ n \in Nat /\ ds \in Seq(ClauseType) /\ DOMAIN ds = 1 .. n
        /\ o \in [1 .. n -> K]
        /\ \A i \in 1 .. n : ds[i] = cs[o[i]]
        /\ \A i, j \in 1 .. n : o[i] = o[j] => i = j
        /\ \A k \in K : Cardinality(Upto(K, k)) \in 1 .. n /\ o[Cardinality(Upto(K, k))] = k
    <2> HIDE DEF K
    <2> QED BY <1>1, OnlyIs
  <1>4. ASSUME NEW id \in K PROVE NewId(cs, id) = Cardinality(Upto(K, id))
    <2>1. {i \in 1 .. id : ~cs[i].deleted} = Upto(K, id)
      <3>1. \A i : (i \in 1 .. id /\ ~cs[i].deleted) <=> (i \in DOMAIN cs /\ ~cs[i].deleted /\ i <= id)
        BY <1>1, <1>2
      <3> QED BY <3>1 DEF Upto, Live
    <2> QED BY <2>1 DEF NewId
  <1> HIDE DEF K, ds, n, o
  <1>5. ASSUME NEW id \in K
        PROVE  NewId(cs, id) \in DOMAIN ds /\ ds[NewId(cs, id)] = cs[id] /\ NewId(cs, id) \in Nat \ {0}
    <2>1. NewId(cs, id) \in 1 .. n /\ o[NewId(cs, id)] = id
      BY <1>3, <1>4
    <2> QED BY <2>1, <1>3
  <1>6. \A a, b \in K : NewId(cs, a) = NewId(cs, b) => a = b
    BY <1>3, <1>4
  <1>7. ASSUME NEW j \in DOMAIN ds PROVE \E id \in K : NewId(cs, id) = j
    <2>1. j \in 1 .. n /\ o[j] \in K
      BY <1>3
    <2>2. NewId(cs, o[j]) \in 1 .. n /\ o[NewId(cs, o[j])] = o[j]
      BY <2>1, <1>3, <1>4
    <2>3. NewId(cs, o[j]) = j
      BY <2>1, <2>2, <1>3
    <2> QED BY <2>1, <2>3
  <1> QED BY <1>3, <1>5, <1>6, <1>7 DEF Compact, ds, K

\* The watches of the clauses that stay, under their new numbers.
Relabelled(cs, s) ==
  LET live == Only(s, {i \in DOMAIN s : ~cs[s[i].clause].deleted})
  IN  [i \in DOMAIN live |-> Watch(NewId(cs, live[i].clause), live[i].blocker)]

LEMMA ListCompact ==
  ASSUME NEW cs, NEW ds, Compact(ds, cs), NEW p, NEW s, ListOK(cs, p, s)
  PROVE  /\ ListOK(ds, p, Relabelled(cs, s))
         /\ \A id \in Live(cs) : Has(s, id) => Has(Relabelled(cs, s), NewId(cs, id))
  <1> DEFINE K == {i \in DOMAIN s : ~cs[s[i].clause].deleted}
             live == Only(s, K)
             r == Relabelled(cs, s)
             n == Cardinality(K)
             o == InOrder(K)
  <1>1. s \in Seq(WatchType) /\ (\A i \in DOMAIN s : Fits(cs, p, s[i])) /\ Once(s)
    BY DEF ListOK
  <1>2. K \in SUBSET DOMAIN s
    OBVIOUS
  <1>14. r = [i \in DOMAIN live |-> Watch(NewId(cs, live[i].clause), live[i].blocker)]
    BY DEF Relabelled
  <1>3. \A i \in DOMAIN s : i \in K <=> ~cs[s[i].clause].deleted
    OBVIOUS
  <1>4. /\ n \in Nat /\ live \in Seq(WatchType) /\ DOMAIN live = 1 .. n
        /\ o \in [1 .. n -> K]
        /\ \A i \in 1 .. n : live[i] = s[o[i]]
        /\ \A i, j \in 1 .. n : o[i] = o[j] => i = j
        /\ \A k \in K : Cardinality(Upto(K, k)) \in 1 .. n /\ o[Cardinality(Upto(K, k))] = k
    <2> HIDE DEF K
    <2> QED BY <1>1, <1>2, OnlyIs
  <1> HIDE DEF K, live, n, o, r
  <1>5. DOMAIN r = 1 .. n
    BY <1>4, <1>14
  <1>6. ASSUME NEW i \in 1 .. n
        PROVE  /\ o[i] \in DOMAIN s /\ s[o[i]].clause \in Live(cs) /\ s[o[i]] \in WatchType
               /\ r[i].clause = NewId(cs, s[o[i]].clause) /\ r[i].blocker = s[o[i]].blocker
               /\ Fits(cs, p, s[o[i]])
    <2>1. o[i] \in K /\ o[i] \in DOMAIN s
      BY <1>2, <1>4
    <2>2. Fits(cs, p, s[o[i]])
      BY <2>1, <1>1
    <2>3. s[o[i]].clause \in Live(cs)
      BY <2>1, <2>2, <1>3 DEF Fits, Live
    <2>4. r[i] = Watch(NewId(cs, s[o[i]].clause), s[o[i]].blocker)
      BY <1>4, <1>14
    <2>5. s[o[i]] \in WatchType
      BY <2>1, <1>1, LenProperties, ElementOfSeq
    <2> QED BY <2>1, <2>2, <2>3, <2>4, <2>5 DEF Watch
  <1>15. /\ \A id \in Live(cs) : NewId(cs, id) \in DOMAIN ds /\ ds[NewId(cs, id)] = cs[id] /\ NewId(cs, id) \in Nat
         /\ \A a, b \in Live(cs) : NewId(cs, a) = NewId(cs, b) => a = b
    BY DEF Compact
  <1>16. \A i \in 1 .. n : r[i] = [clause |-> NewId(cs, s[o[i]].clause), blocker |-> s[o[i]].blocker]
    <2>1. ASSUME NEW i \in 1 .. n PROVE r[i] = Watch(NewId(cs, live[i].clause), live[i].blocker)
      BY <1>4, <1>14
    <2> QED BY <2>1, <1>4 DEF Watch
  <1>7. ASSUME NEW i \in 1 .. n PROVE r[i] \in WatchType
    <2>1. NewId(cs, s[o[i]].clause) \in Nat
      BY <1>6, <1>15
    <2>2. s[o[i]].blocker \in Lits
      BY <1>6 DEF WatchType
    <2>3. r[i] = [clause |-> NewId(cs, s[o[i]].clause), blocker |-> s[o[i]].blocker]
      BY <1>16
    <2> QED BY <2>1, <2>2, <2>3 DEF WatchType
  <1>8. r \in Seq(WatchType)
    BY <1>4, <1>5, <1>7, <1>14
  <1>9. ASSUME NEW i \in 1 .. n PROVE Fits(ds, p, r[i])
    <2>1. r[i].clause \in DOMAIN ds /\ ds[r[i].clause] = cs[s[o[i]].clause]
      <3>1. s[o[i]].clause \in Live(cs) /\ r[i].clause = NewId(cs, s[o[i]].clause)
        BY <1>6
      <3> QED BY <3>1, <1>15
    <2> QED BY <2>1, <1>6 DEF Fits
  <1>10. \A i, j \in 1 .. n : r[i].clause = r[j].clause => i = j
    <2>1. ASSUME NEW i \in 1 .. n, NEW j \in 1 .. n, r[i].clause = r[j].clause PROVE i = j
      <3>1. s[o[i]].clause = s[o[j]].clause
        <4>1. /\ s[o[i]].clause \in Live(cs) /\ r[i].clause = NewId(cs, s[o[i]].clause)
              /\ s[o[j]].clause \in Live(cs) /\ r[j].clause = NewId(cs, s[o[j]].clause)
          BY <1>6
        <4> QED BY <2>1, <4>1, <1>15
      <3>2. o[i] = o[j]
        BY <3>1, <1>1, <1>6 DEF Once
      <3> QED BY <3>2, <1>4
    <2> QED BY <2>1
  <1>11. ListOK(ds, p, r)
    BY <1>5, <1>8, <1>9, <1>10 DEF ListOK, Once
  <1>12. ASSUME NEW id \in Live(cs), Has(s, id) PROVE Has(r, NewId(cs, id))
    <2>1. PICK k \in DOMAIN s : s[k].clause = id
      BY <1>12 DEF Has
    <2>2. k \in K
      BY <2>1, <1>3 DEF Live
    <2>3. PICK i \in 1 .. n : o[i] = k
      BY <2>2, <1>4
    <2>4. r[i].clause = NewId(cs, id)
      BY <2>1, <2>3, <1>6
    <2> QED BY <2>4, <1>5 DEF Has
  <1> QED BY <1>11, <1>12 DEF r

\* A trail that differs in the numbers of the reasons.
SameTrail(u, t) ==
  /\ u \in Seq(StepType) /\ DOMAIN u = DOMAIN t /\ Len(u) = Len(t)
  /\ \A i \in DOMAIN t : u[i].lit = t[i].lit /\ (u[i].reason = None <=> t[i].reason = None)
LEMMA SameTrailIs ==
  ASSUME NEW t, NEW u, SameTrail(u, t), NEW m, TrailOK(t, m)
  PROVE  /\ TrailOK(u, m) /\ Assigned(u) = Assigned(t)
         /\ \A q, vis, cf : HeadOK(t, m, q, vis, cf) => HeadOK(u, m, q, vis, cf)
         /\ DecisionsOK(t, m) => DecisionsOK(u, m)
  <1>1. /\ u \in Seq(StepType) /\ DOMAIN u = DOMAIN t /\ Len(u) = Len(t)
        /\ \A i \in DOMAIN t : u[i].lit = t[i].lit /\ (u[i].reason = None <=> t[i].reason = None)
    BY DEF SameTrail
  <1>2. TrailOK(u, m)
    BY <1>1 DEF TrailOK
  <1>3. Assigned(u) = Assigned(t)
    BY <1>1 DEF Assigned
  <1>4. ASSUME NEW q, NEW vis, NEW cf, HeadOK(t, m, q, vis, cf) PROVE HeadOK(u, m, q, vis, cf)
    BY <1>1, <1>4 DEF HeadOK
  <1>5. DecisionsOK(t, m) => DecisionsOK(u, m)
    BY <1>1 DEF DecisionsOK
  <1> QED BY <1>2, <1>3, <1>4, <1>5

LEMMA RenumberedIs ==
  ASSUME NEW cs, NEW ds, Compact(ds, cs), NEW t \in Seq(StepType), ReasonsOK(cs, t)
  PROVE  /\ SameTrail(Renumbered(t, cs), t) /\ ReasonsOK(ds, Renumbered(t, cs))
  <1> DEFINE u == Renumbered(t, cs)
  <1>1. DOMAIN t = 1 .. Len(t) /\ Len(t) \in Nat /\ \A i \in DOMAIN t : t[i] \in StepType
    BY LenProperties, ElementOfSeq
  <1>2. u = [i \in DOMAIN t |-> IF t[i].reason = None THEN t[i]
                                ELSE [t[i] EXCEPT !.reason = NewId(cs, t[i].reason)]]
    BY DEF Renumbered
  <1>3. ASSUME NEW i \in DOMAIN t, t[i].reason # None
        PROVE  Because(cs, t, i) /\ t[i].reason \in Live(cs) /\ NewId(cs, t[i].reason) \in Nat \ {0}
    <2>1. Because(cs, t, i)
      BY <1>3 DEF ReasonsOK
    <2>2. t[i].reason \in Live(cs)
      BY <2>1 DEF Because, Live
    <2> QED BY <2>1, <2>2 DEF Compact
  <1>4. ASSUME NEW i \in DOMAIN t
        PROVE  /\ u[i] \in StepType /\ u[i].lit = t[i].lit
               /\ u[i].reason = IF t[i].reason = None THEN None ELSE NewId(cs, t[i].reason)
    <2>1. t[i].lit \in Lits /\ t[i].reason \in Nat /\ t[i] = [lit |-> t[i].lit, reason |-> t[i].reason]
      BY <1>1 DEF StepType
    <2>2. CASE t[i].reason = None
      BY <2>1, <2>2, <1>1, <1>2
    <2>3. CASE t[i].reason # None
      <3>1. u[i] = [lit |-> t[i].lit, reason |-> NewId(cs, t[i].reason)]
        BY <2>1, <2>3, <1>2
      <3>2. NewId(cs, t[i].reason) \in Nat
        BY <2>3, <1>3
      <3> QED BY <2>1, <2>3, <3>1, <3>2 DEF StepType
    <2> QED BY <2>2, <2>3
  <1>5. u \in Seq(StepType) /\ DOMAIN u = DOMAIN t /\ Len(u) = Len(t)
    <2>1. DOMAIN u = 1 .. Len(t)
      BY <1>1, <1>2
    <2>2. u \in [1 .. Len(t) -> StepType]
      <3>1. \A i \in 1 .. Len(t) : u[i] \in StepType
        BY <1>1, <1>4
      <3> QED BY <3>1, <1>1, <1>2
    <2> HIDE DEF u
    <2> QED BY <1>1, <2>1, <2>2
  <1>6. SameTrail(u, t)
    <2> HIDE DEF u
    <2>1. \A i \in DOMAIN t : u[i].reason = None <=> t[i].reason = None
      BY <1>3, <1>4 DEF None
    <2> QED BY <2>1, <1>4, <1>5 DEF SameTrail
  <1>7. ASSUME NEW i \in DOMAIN u, u[i].reason # None PROVE Because(ds, u, i)
    <2> HIDE DEF u
    <2>1. i \in DOMAIN t /\ t[i].reason # None
      BY <1>4, <1>5, <1>7
    <2>2. Because(cs, t, i) /\ t[i].reason \in Live(cs)
      BY <2>1, <1>3
    <2>3. u[i].reason = NewId(cs, t[i].reason) /\ u[i].lit = t[i].lit
      BY <2>1, <1>4
    <2>4. u[i].reason \in DOMAIN ds /\ ds[u[i].reason] = cs[t[i].reason]
      BY <2>2, <2>3 DEF Compact
    <2>5. \A k \in 1 .. i - 1 : u[k].lit = t[k].lit
      <3>1. \A k \in 1 .. i - 1 : k \in DOMAIN t
        BY <2>1, <1>1
      <3> QED BY <3>1, <1>4
    <2> QED BY <2>2, <2>3, <2>4, <2>5 DEF Because
  <1> QED BY <1>6, <1>7 DEF ReasonsOK

Rewatched(vs, cs, ws) == vs = [l \in Lits |-> Relabelled(cs, ws[l])]

LEMMA FineCompact ==
  ASSUME NEW P, NEW cs, NEW ws, NEW t, NEW m, NEW q, Fine(P, cs, ws, t, m, q),
         NEW ds, Compact(ds, cs), NEW vs, Rewatched(vs, cs, ws)
  PROVE  Fine(P, ds, vs, Renumbered(t, cs), m, q) /\ Assigned(Renumbered(t, cs)) = Assigned(t)
  <1> DEFINE u == Renumbered(t, cs)
  <1>1. /\ ClausesOK(cs) /\ TrailOK(t, m) /\ ReasonsOK(cs, t) /\ WatchesOK(cs, ws)
        /\ HeadOK(t, m, q, <<>>, None) /\ Complete(cs, ws, t[q].lit, <<>>)
        /\ Caught(cs, t, m, q, <<>>) /\ AllKept(P, cs, t, m) /\ DecisionsOK(t, m)
        /\ \A mo \in SUBSET Vars : Fulfils(mo, P) => Agrees(mo, cs, t, m)
    BY DEF Fine, Structure
  <1>2. /\ ds \in Seq(ClauseType)
        /\ \A id \in Live(cs) : NewId(cs, id) \in DOMAIN ds /\ ds[NewId(cs, id)] = cs[id]
        /\ \A j \in DOMAIN ds : \E id \in Live(cs) : NewId(cs, id) = j
    BY DEF Compact
  <1>3. SameTrail(u, t) /\ ReasonsOK(ds, u)
    BY <1>1, RenumberedIs DEF TrailOK
  <1> HIDE DEF u
  <1>4. /\ TrailOK(u, m) /\ Assigned(u) = Assigned(t) /\ HeadOK(u, m, q, <<>>, None) /\ DecisionsOK(u, m)
    BY <1>1, <1>3, SameTrailIs
  <1>5. DOMAIN u = DOMAIN t /\ \A i \in DOMAIN t : u[i].lit = t[i].lit
    BY <1>3 DEF SameTrail
  <1>6. \A j \in DOMAIN ds : \E id \in DOMAIN cs : id \in Live(cs) /\ NewId(cs, id) = j /\ ds[j] = cs[id] /\ ~cs[id].deleted
    <2>1. \A id \in Live(cs) : id \in DOMAIN cs /\ ~cs[id].deleted
      BY DEF Live
    <2> QED BY <2>1, <1>2
  <1>7. ClausesOK(ds)
    BY <1>1, <1>2, <1>6 DEF ClausesOK
  <1>8. WatchesOK(ds, vs)
    <2>1. vs = [l \in Lits |-> Relabelled(cs, ws[l])]
      BY DEF Rewatched
    <2>2. ASSUME NEW p \in Lits PROVE ListOK(ds, p, vs[p])
      <3>1. ListOK(cs, p, ws[p])
        BY <1>1 DEF WatchesOK
      <3>2. ListOK(ds, p, Relabelled(cs, ws[p]))
        BY <3>1, ListCompact
      <3> QED BY <2>1, <3>2
    <2>3. DOMAIN vs = Lits /\ vs = [l \in Lits |-> vs[l]]
      BY <2>1
    <2> QED BY <2>2, <2>3 DEF WatchesOK
  <1>9. Complete(ds, vs, u[q].lit, <<>>)
    <2>1. ASSUME NEW j \in DOMAIN ds, NEW l \in Pair(ds[j]) PROVE Has(vs[-l], j)
      <3>1. PICK id \in DOMAIN cs : id \in Live(cs) /\ NewId(cs, id) = j /\ ds[j] = cs[id] /\ ~cs[id].deleted
        BY <1>6
      <3>2. Has(ws[-l], id)
        BY <2>1, <3>1, <1>1, EmptyLists DEF Complete
      <3>3. -l \in Lits
        <4>1. l \in Lits
          BY <3>1, <2>1, <1>1, PairIn DEF ClausesOK
        <4> QED BY <4>1, LitFacts
      <3>4. ListOK(cs, -l, ws[-l])
        BY <3>3, <1>1 DEF WatchesOK
      <3>5. Has(Relabelled(cs, ws[-l]), NewId(cs, id))
        BY <3>1, <3>2, <3>4, ListCompact
      <3>6. vs[-l] = Relabelled(cs, ws[-l])
        BY <3>3 DEF Rewatched
      <3> QED BY <3>1, <3>5, <3>6
    <2> QED BY <2>1 DEF Complete
  <1>10. VisitOK(ds, vs, u[q].lit, <<>>) /\ ConflictOK(ds, u, m, None) /\ None \in Nat
    BY EmptyLists DEF VisitOK, ConflictOK, None
  <1>11. Structure(ds, vs, u, m, q, <<>>, None)
    BY <1>3, <1>4, <1>7, <1>8, <1>9, <1>10 DEF Structure
  <1>12. Caught(ds, u, m, q, <<>>)
    <2>1. ASSUME NEW j \in DOMAIN ds, NEW i \in DOMAIN u, -u[i].lit \in Pair(ds[j]), i <= q PROVE Covered(ds[j], u, m, i)
      <3>1. PICK id \in DOMAIN cs : ds[j] = cs[id] /\ ~cs[id].deleted
        BY <1>6
      <3>2. Covered(cs[id], t, m, i)
        BY <2>1, <3>1, <1>1, <1>5, EmptyLists DEF Caught
      <3> QED BY <3>1, <3>2, <1>5 DEF Covered
    <2> QED BY <2>1 DEF Caught
  <1>13. AllKept(P, ds, u, m)
    <2>1. ASSUME NEW c \in P PROVE Kept1(c, ds, u, m)
      <3>1. Kept1(c, cs, t, m)
        BY <1>1 DEF AllKept
      <3>2. ASSUME NEW id \in DOMAIN cs, cs[id].glue, LitsOf(cs[id]) \subseteq c
            PROVE  \E j \in DOMAIN ds : ds[j].glue /\ LitsOf(ds[j]) \subseteq c
        <4>1. ~cs[id].deleted
          BY <3>2, <1>1 DEF ClausesOK, Proper
        <4>2. id \in Live(cs)
          BY <4>1 DEF Live
        <4> QED BY <4>2, <3>2, <1>2
      <3>3. (\E i \in DOMAIN t : t[i].lit \in c /\ TopLevel(m, i)) => \E i \in DOMAIN u : u[i].lit \in c /\ TopLevel(m, i)
        BY <1>5
      <3> QED BY <3>1, <3>2, <3>3 DEF Kept1
    <2> QED BY <2>1 DEF AllKept
  <1>14. ASSUME NEW mo, Agrees(mo, cs, t, m) PROVE Agrees(mo, ds, u, m)
    BY <1>14, <1>5, <1>6 DEF Agrees
  <1> QED BY <1>1, <1>4, <1>11, <1>12, <1>13, <1>14 DEF Fine, u

\* A reduction, and what follows learning, keep all this.
Marked(cs, doomed) == [i \in DOMAIN cs |-> [cs[i] EXCEPT !.deleted = @ \/ i \in doomed]]
Free(cs, t) ==
  {i \in {j \in DOMAIN cs : cs[j].learnt /\ ~cs[j].deleted /\ ~cs[j].glue} : ~Locked(i, cs[i], t)}

LEMMA MarkedIs ==
  ASSUME NEW cs, ClausesOK(cs), NEW t, ReasonsOK(cs, t), NEW doomed \in SUBSET Free(cs, t)
  PROVE  Thinner(Marked(cs, doomed), cs, t)
  <1> DEFINE ds == Marked(cs, doomed)
  <1>1. cs \in Seq(ClauseType) /\ \A id \in DOMAIN cs : Proper(cs[id])
    BY DEF ClausesOK
  <1>2. DOMAIN cs = 1 .. Len(cs) /\ Len(cs) \in Nat /\ \A id \in DOMAIN cs : cs[id] \in ClauseType
    BY <1>1, LenProperties, ElementOfSeq
  <1>3. DOMAIN ds = DOMAIN cs /\ \A i \in DOMAIN cs : ds[i] = [cs[i] EXCEPT !.deleted = @ \/ i \in doomed]
    BY DEF Marked
  <1>9. ds = [i \in DOMAIN cs |-> ds[i]]
    BY DEF Marked
  <1> HIDE DEF ds
  <1>4. ASSUME NEW i \in DOMAIN cs
        PROVE  /\ ds[i] \in ClauseType /\ ds[i].lits = cs[i].lits /\ ds[i].glue = cs[i].glue
               /\ ds[i].deleted <=> cs[i].deleted \/ i \in doomed
    <2>1. (cs[i].deleted \/ i \in doomed) \in BOOLEAN
      OBVIOUS
    <2>2. ds[i] = [cs[i] EXCEPT !.deleted = cs[i].deleted \/ i \in doomed]
      BY <1>3
    <2>3. cs[i] \in ClauseType
      BY <1>2
    <2> QED BY <2>1, <2>2, <2>3 DEF ClauseType
  <1>5. \A i \in doomed : i \in DOMAIN cs /\ ~cs[i].glue /\ ~Locked(i, cs[i], t)
    BY DEF Free
  <1>6. ASSUME NEW i \in DOMAIN t, t[i].reason # None PROVE ~ds[t[i].reason].deleted
    <2>1. Because(cs, t, i)
      BY <1>6 DEF ReasonsOK
    <2>2. t[i].reason \in DOMAIN cs /\ ~cs[t[i].reason].deleted
      BY <2>1 DEF Because
    <2>3. ASSUME t[i].reason \in doomed PROVE FALSE
      <3>1. ~cs[t[i].reason].glue /\ ~Locked(t[i].reason, cs[t[i].reason], t)
        BY <2>3, <1>5
      <3>2. Long(cs[t[i].reason])
        BY <3>1, <2>2, <1>1 DEF Proper
      <3>3. cs[t[i].reason].lits[1] = t[i].lit
        BY <3>2, <2>1 DEF Because
      <3> QED BY <3>1, <3>3 DEF Locked
    <2> QED BY <2>2, <2>3, <1>4
  <1>7. ds \in Seq(ClauseType)
    BY <1>2, <1>3, <1>4, <1>9
  <1>8. \A i \in DOMAIN cs : cs[i].glue => ~cs[i].deleted /\ i \notin doomed
    BY <1>1, <1>5 DEF Proper
  <1> QED BY <1>3, <1>4, <1>6, <1>7, <1>8 DEF Thinner, ds

LEMMA ReducedIs ==
  ASSUME NEW cs, NEW ws, NEW t, NEW d, Reduced(cs, ws, t, d)
  PROVE  /\ reductions' = reductions + 1
         /\ \E doomed \in SUBSET Free(cs, t) :
              /\ db' = Unlog(d, Said(cs, doomed))
              /\ \/ clauses' = Marked(cs, doomed) /\ watches' = ws /\ trail' = t
                 \/ Collected(Marked(cs, doomed), ws, t)
  BY DEF Reduced, Free, Marked

LEMMA CollectedIs ==
  ASSUME NEW cs, NEW ws, NEW t, Collected(cs, ws, t)
  PROVE  clauses' = Only(cs, Live(cs)) /\ Rewatched(watches', cs, ws) /\ trail' = Renumbered(t, cs)
  BY DEF Collected, Live, Rewatched, Relabelled

LEMMA KeptFine ==
  ASSUME NEW P, NEW cs, NEW ws, NEW t, NEW m, NEW q, Fine(P, cs, ws, t, m, q),
         NEW d, Kept(cs, ws, t, d), reductions \in Nat
  PROVE  Fine(P, clauses', watches', trail', m, q) /\ Assigned(trail') = Assigned(t) /\ reductions' \in Nat
  <1>1. CASE clauses' = cs /\ watches' = ws /\ trail' = t /\ db' = d /\ UNCHANGED reductions
    BY <1>1
  <1>2. CASE Reduced(cs, ws, t, d)
    <2>1. PICK doomed \in SUBSET Free(cs, t) :
              \/ clauses' = Marked(cs, doomed) /\ watches' = ws /\ trail' = t
              \/ Collected(Marked(cs, doomed), ws, t)
      BY <1>2, ReducedIs
    <2>2. reductions' \in Nat
      <3>1. reductions' = reductions + 1
        BY <1>2, ReducedIs
      <3> QED BY <3>1
    <2> DEFINE ds == Marked(cs, doomed)
    <2>3. Fine(P, ds, ws, t, m, q)
      <3>1. ClausesOK(cs) /\ ReasonsOK(cs, t)
        BY FineParts
      <3>2. Thinner(ds, cs, t)
        BY <3>1, MarkedIs
      <3> HIDE DEF ds
      <3> QED BY <3>2, FineThinner
    <2> HIDE DEF ds
    <2>4. CASE clauses' = ds /\ watches' = ws /\ trail' = t
      BY <2>2, <2>3, <2>4
    <2>5. CASE Collected(ds, ws, t)
      <3>1. clauses' = Only(ds, Live(ds)) /\ Rewatched(watches', ds, ws) /\ trail' = Renumbered(t, ds)
        BY <2>5, CollectedIs
      <3>2. ds \in Seq(ClauseType)
        BY <2>3, FineParts
      <3>3. Compact(clauses', ds)
        BY <3>1, <3>2, CompactIs
      <3> QED BY <2>2, <2>3, <3>1, <3>3, FineCompact
    <2> QED BY <2>1, <2>4, <2>5 DEF ds
  <1> QED BY <1>1, <1>2 DEF Kept

-----------------------------------------------------------------------------
(* Learning keeps the invariant. *)

\* What is of a level up to b stays when going back to it, the rest does not.
LEMMA BackPlaces ==
  ASSUME TrailOK(trail, lims), qhead \in Nat, NEW b \in Nat, b < Len(lims), NEW k \in DOMAIN trail
  PROVE  /\ LevelOf(lims, k) <= b => k \in 1 .. Len(TrailAt(b)) /\ TrailAt(b)[k] = trail[k]
         /\ LevelOf(lims, k) > b => Var(trail[k].lit) \notin Assigned(TrailAt(b))
         /\ DOMAIN TrailAt(b) = 1 .. Len(TrailAt(b)) /\ Len(LimsAt(b)) = b
         /\ \A n \in DOMAIN LimsAt(b) : n <= b /\ LimsAt(b)[n] = lims[n] /\ n \in DOMAIN lims
         /\ \A i \in DOMAIN TrailAt(b) : i \in DOMAIN trail /\ TrailAt(b)[i] = trail[i]
  <1> DEFINE t == TrailAt(b)
             m == LimsAt(b)
             h == QheadAt(b)
  <1>1. Backed(t, m, h, trail, lims, qhead) /\ Len(m) = b
    BY BackState
  <1> HIDE DEF t, m, h
  <1>2. /\ Len(t) \in Nat /\ DOMAIN t = 1 .. Len(t) /\ DOMAIN m = 1 .. Len(m)
        /\ Len(trail) \in Nat /\ DOMAIN trail = 1 .. Len(trail) /\ DOMAIN m \subseteq DOMAIN lims
    BY <1>1, BackTrail
  <1>3. /\ \A i \in 1 .. Len(t) : t[i] = trail[i]
        /\ \A n \in 1 .. Len(m) : m[n] = lims[n]
        /\ (m = lims /\ t = trail /\ h = qhead) \/ (Len(m) < Len(lims) /\ Len(t) = lims[Len(m) + 1] /\ h = Len(t))
    BY <1>1 DEF Backed
  <1>4. Len(t) = lims[b + 1]
    <2>1. Len(m) # Len(lims)
      BY <1>1
    <2> QED BY <2>1, <1>1, <1>3
  <1>5. \A i \in DOMAIN t : i \in DOMAIN trail /\ t[i] = trail[i]
    BY <1>1, BackTop
  <1>6. k \in Nat /\ k >= 1
    BY <1>2
  <1>7. /\ LevelOf(lims, k) \in Nat /\ b + 1 \in DOMAIN lims
        /\ b + 1 <= LevelOf(lims, k) <=> Len(t) < k
    <2>1. /\ LevelOf(lims, k) \in 0 .. Len(lims) /\ Len(lims) \in Nat /\ DOMAIN lims = 1 .. Len(lims)
          /\ \A n \in DOMAIN lims : lims[n] \in Nat /\ (n <= LevelOf(lims, k) <=> lims[n] < k)
      BY <1>6, LevelOfIs
    <2>2. b + 1 \in DOMAIN lims
      BY <2>1
    <2> QED BY <2>1, <2>2, <1>4
  <1>8. LevelOf(lims, k) <= b => k \in 1 .. Len(t) /\ t[k] = trail[k]
    <2>1. LevelOf(lims, k) <= b => k \in 1 .. Len(t)
      BY <1>2, <1>6, <1>7
    <2> QED BY <2>1, <1>3
  <1>9. ASSUME LevelOf(lims, k) > b PROVE Var(trail[k].lit) \notin Assigned(t)
    <2> SUFFICES ASSUME NEW i \in DOMAIN t, Var(t[i].lit) = Var(trail[k].lit) PROVE FALSE
      BY DEF Assigned
    <2>1. i \in DOMAIN trail /\ t[i] = trail[i]
      BY <1>5
    <2>2. i = k
      BY <2>1 DEF TrailOK
    <2>3. Len(t) < k
      BY <1>9, <1>7
    <2> QED BY <2>2, <2>3, <1>2
  <1>10. \A n \in DOMAIN m : n <= b /\ m[n] = lims[n] /\ n \in DOMAIN lims
    BY <1>1, <1>2, <1>3
  <1> QED BY <1>1, <1>2, <1>5, <1>8, <1>9, <1>10 DEF t, m

LEMMA LearnState ==
  ASSUME Inv, task = "search", conflict # None, DecisionLevel > 0
  PROVE  /\ Analysed /\ visiting = <<>> /\ ~unsat /\ qhead \in Nat
         /\ \A b \in Nat : b < Len(lims) =>
              Fine(premises, clauses, watches, TrailAt(b), LimsAt(b), QheadAt(b))
              /\ HeapAt(b) \subseteq Vars /\ HeapOK(HeapAt(b), TrailAt(b)) /\ PhaseAt(b) \in [Vars -> BOOLEAN]
  <1>1. /\ Structure(clauses, watches, trail, lims, qhead, visiting, conflict)
        /\ TasksOK(task, lims, visiting, conflict, unsat) /\ DecisionsOK(trail, lims)
        /\ Entailed(premises, clauses, trail, lims, task, lemma, unsat, answer)
    BY DEF Inv
  <1>2. visiting = <<>> /\ qhead \in Nat /\ Len(lims) > 0
    BY <1>1 DEF Structure, HeadOK, DecisionLevel
  <1>3. ~unsat
    BY <1>1 DEF TasksOK
  <1>4. Analysed
    BY <1>1, <1>2 DEF Analysed, Structure, Entailed
  <1>5. ASSUME NEW b \in Nat, b < Len(lims)
        PROVE  Fine(premises, clauses, watches, TrailAt(b), LimsAt(b), QheadAt(b))
               /\ HeapAt(b) \subseteq Vars /\ HeapOK(HeapAt(b), TrailAt(b)) /\ PhaseAt(b) \in [Vars -> BOOLEAN]
    <2>1. ~ (Len(lims) <= b)
      <3>1. Len(lims) \in Nat
        BY <1>1, LenProperties DEF Structure, TrailOK
      <3> QED BY <3>1, <1>5
    <2>2. Len(lims) <= b => conflict = None
      BY <2>1
    <2> QED BY <2>2, <1>1, <1>2, <1>3, BackInv DEF Fine
  <1> QED BY <1>2, <1>3, <1>4, <1>5

\* The clause learned, its literal of the last level, the others, the level to go back to
\* and a literal of that level.
LearntSet == Resolved \ Redundant(Resolved)
LearntUip == CHOOSE x \in Newest(Resolved) : TRUE
LearntRest == LearntSet \ Newest(Resolved)
LearntBack == Max({0} \cup {Level(Var(x)) : x \in LearntRest})
LearntNext == CHOOSE x \in LearntRest : Level(Var(x)) = LearntBack
LearntClause ==
  Clause(<<LearntUip, LearntNext>> \o SetToSeq(LearntRest \ {LearntNext}), TRUE,
         Cardinality({Level(Var(x)) : x \in LearntSet}) <= 2)

LEMMA LearntIs ==
  ASSUME Analysed
  PROVE  /\ Refuted(LearntSet, trail, lims) /\ Implied(premises, LearntSet) /\ LearntSet \in SUBSET Lits
         /\ LearntSet = LearntRest \cup {LearntUip} /\ LearntUip \notin LearntRest
         /\ Level(Var(LearntUip)) = Len(lims)
         /\ LearntBack \in Nat /\ LearntBack < Len(lims)
         /\ \A x \in LearntRest : Level(Var(x)) <= LearntBack
         /\ LearntRest = {} => LearntBack = 0
         /\ LearntRest # {} => LearntBack > 0 /\ LearntNext \in LearntRest /\ Level(Var(LearntNext)) = LearntBack
  <1> DEFINE c == Resolved
             l == LearntUip
             R == LearntRest
             K == LearntSet
             b == LearntBack
  <1>1. Refuted(c, trail, lims) /\ Implied(premises, c) /\ Cardinality(Newest(c)) = 1
    BY ResolvedIs
  <1>2. Redundant(c) \subseteq c \ Newest(c)
    BY RedundantHas
  <1>3. Implied(premises, K)
    BY <1>1, RedundantIs DEF LearntSet
  <1>4. K \subseteq c /\ Newest(c) \subseteq K /\ c \in SUBSET Lits
    <2>1. Newest(c) \subseteq c
      BY DEF Newest
    <2> QED BY <2>1, <1>1, <1>2 DEF LearntSet, Refuted
  <1>5. Refuted(K, trail, lims)
    BY <1>1, <1>4 DEF Refuted
  <1>6. Newest(c) = {l}
    <2>1. IsFiniteSet(Newest(c))
      <3>1. Newest(c) \in SUBSET Lits
        BY <1>4 DEF Newest
      <3> QED BY <3>1, LitsFinite
    <2>2. \E x : Newest(c) = {x}
      BY <2>1, <1>1, FS_Singleton
    <2> QED BY <2>2 DEF LearntUip
  <1>7. R = K \ {l} /\ K = R \cup {l} /\ l \notin R
    BY <1>4, <1>6 DEF LearntRest
  <1>8. Level(Var(l)) = Len(lims)
    BY <1>6 DEF Newest, DecisionLevel
  <1>9. TrailOK(trail, lims) /\ Len(lims) > 0
    BY DEF Analysed
  <1>10. Len(lims) \in Nat
    BY <1>9, LenProperties DEF TrailOK
  <1>11. ASSUME NEW x \in K PROVE Level(Var(x)) \in 1 .. Len(lims)
    <2>1. PICK k \in DOMAIN trail : x = -trail[k].lit /\ LevelOf(lims, k) > 0
      BY <1>5 DEF Refuted
    <2>2. Level(Var(x)) = LevelOf(lims, k)
      BY <2>1, <1>9, AtIs
    <2>3. k \in Nat
      BY <1>9, LenProperties DEF TrailOK
    <2>4. LevelOf(lims, k) \in 0 .. Len(lims)
      BY <2>3, <1>9, LevelOfIs
    <2> QED BY <2>1, <2>2, <2>4, <1>10
  <1>12. ASSUME NEW x \in R PROVE Level(Var(x)) \in 1 .. Len(lims) - 1
    <2>1. Level(Var(x)) \in 1 .. Len(lims)
      BY <1>7, <1>11
    <2>2. x \in c /\ x \notin Newest(c)
      BY <1>4, <1>6, <1>7
    <2>3. Level(Var(x)) # Len(lims)
      BY <2>2 DEF Newest, DecisionLevel
    <2> QED BY <2>1, <2>3, <1>10
  <1> DEFINE S == {Level(Var(x)) : x \in R}
  <1>13. S \in SUBSET (1 .. Len(lims) - 1)
    BY <1>12
  <1>14. b = Max({0} \cup S)
    BY DEF LearntBack
  <1>15. \A x \in R : Level(Var(x)) \in S
    OBVIOUS
  <1>16. \A n \in S : \E x \in R : Level(Var(x)) = n
    OBVIOUS
  <1>17. R = {} => S = {}
    OBVIOUS
  <1> HIDE DEF S, R, K, b, l, c
  <1>18. b \in {0} \cup S /\ \A n \in {0} \cup S : n <= b
    <2>1. {0} \cup S \in SUBSET (0 .. Len(lims) - 1) /\ {0} \cup S # {} /\ Len(lims) - 1 \in Nat
      BY <1>9, <1>10, <1>13
    <2> QED BY <2>1, <1>14, MaxIs
  <1>19. b \in 0 .. Len(lims) - 1
    BY <1>9, <1>10, <1>13, <1>18
  <1>20. b \in Nat /\ b < Len(lims)
    BY <1>10, <1>19
  <1>21. \A x \in R : Level(Var(x)) <= b
    BY <1>15, <1>18
  <1>22. R = {} => b = 0
    BY <1>17, <1>18
  <1>23. ASSUME R # {} PROVE b > 0 /\ LearntNext \in R /\ Level(Var(LearntNext)) = b
    <2>1. PICK x \in R : TRUE
      BY <1>23
    <2>2. Level(Var(x)) >= 1 /\ Level(Var(x)) \in Int /\ Level(Var(x)) <= b
      BY <1>12, <1>21
    <2>3. b > 0
      BY <2>2, <1>20
    <2>4. b \in S
      BY <2>3, <1>18
    <2>5. \E y \in R : Level(Var(y)) = b
      BY <2>4, <1>16
    <2>6. LearntNext \in R /\ Level(Var(LearntNext)) = b
      BY <2>5 DEF LearntNext, R, b
    <2> QED BY <2>3, <2>6
  <1>24. K \in SUBSET Lits
    BY <1>5 DEF Refuted
  <1> QED BY <1>3, <1>5, <1>7, <1>8, <1>20, <1>21, <1>22, <1>23, <1>24 DEF R, K, b, l

\* Two literals in front of others.
LEMMA InFront ==
  ASSUME NEW S \in SUBSET Lits, NEW l \in Lits, NEW s \in Lits, l # s, l \notin S, s \notin S
  PROVE  /\ <<l, s>> \o SetToSeq(S) \in Seq(Lits) /\ Len(<<l, s>> \o SetToSeq(S)) >= 2
         /\ (Len(<<l, s>> \o SetToSeq(S)) > 2 \/ S = {})
         /\ Distinct(<<l, s>> \o SetToSeq(S)) /\ Elements(<<l, s>> \o SetToSeq(S)) = S \cup {l, s}
         /\ (<<l, s>> \o SetToSeq(S))[1] = l /\ (<<l, s>> \o SetToSeq(S))[2] = s
  <1> DEFINE e == SetToSeq(S)
             n == Cardinality(S)
             two == <<l, s>>
             u == two \o e
  <1>1. /\ n \in Nat /\ e \in [1 .. n -> S] /\ e \in Seq(S) /\ Len(e) = n
        /\ \A i, j \in 1 .. n : e[i] = e[j] => i = j
        /\ \A x \in S : \E i \in 1 .. n : e[i] = x
    <2>1. IsFiniteSet(S)
      BY LitsFinite
    <2> QED BY <2>1, SetToSeqIs
  <1>2. two \in Seq(Lits) /\ Len(two) = 2 /\ DOMAIN two = {1, 2} /\ two[1] = l /\ two[2] = s
    OBVIOUS
  <1>3. e \in Seq(Lits) /\ \A i \in 1 .. n : e[i] \in S
    <2> HIDE DEF e, n
    <2>1. \A i \in 1 .. n : e[i] \in Lits
      BY <1>1
    <2> QED BY <2>1, <1>1
  <1>4. Concat(u, two, e)
    BY DEF Concat
  <1> HIDE DEF u, two, e, n
  <1>5. /\ u \in Seq(Lits) /\ Len(u) = 2 + n /\ DOMAIN u = 1 .. 2 + n
        /\ \A i \in {1, 2} : u[i] = two[i]
        /\ \A i \in 1 .. n : 2 + i \in DOMAIN u /\ u[2 + i] = e[i]
        /\ \A i \in DOMAIN u : i \in {1, 2} \/ (i > 2 /\ i - 2 \in 1 .. n /\ u[i] = e[i - 2])
    <2>3. two \in Seq(Lits) /\ e \in Seq(Lits)
      BY <1>2, <1>3
    <2>1. /\ u \in Seq(Lits) /\ Len(u) = Len(two) + Len(e) /\ DOMAIN e = 1 .. Len(e)
          /\ DOMAIN u = 1 .. Len(two) + Len(e)
          /\ \A i \in DOMAIN two : i \in DOMAIN u /\ u[i] = two[i]
          /\ \A i \in DOMAIN e : Len(two) + i \in DOMAIN u /\ u[Len(two) + i] = e[i]
          /\ \A i \in DOMAIN u : i \in DOMAIN two \/ (i > Len(two) /\ i - Len(two) \in DOMAIN e /\ u[i] = e[i - Len(two)])
      BY <2>3, <1>4, Joined
    <2>2. DOMAIN u = 1 .. 2 + n /\ Len(u) = 2 + n /\ DOMAIN e = 1 .. n
      BY <2>1, <1>1, <1>2
    <2>4. \A i \in {1, 2} : u[i] = two[i]
      BY <2>1, <1>2
    <2>5. ASSUME NEW i \in 1 .. n PROVE 2 + i \in DOMAIN u /\ u[2 + i] = e[i]
      BY <2>1, <2>2, <1>2
    <2>6. ASSUME NEW i \in DOMAIN u PROVE i \in {1, 2} \/ (i > 2 /\ i - 2 \in 1 .. n /\ u[i] = e[i - 2])
      BY <2>1, <2>2, <1>2
    <2> QED BY <2>1, <2>2, <2>4, <2>5, <2>6
  <1>6. u[1] = l /\ u[2] = s
    BY <1>2, <1>5
  <1>7. Distinct(u)
    <2>1. ASSUME NEW i \in DOMAIN u, NEW j \in DOMAIN u, u[i] = u[j] PROVE i = j
      <3>1. CASE i \in {1, 2} /\ j \in {1, 2}
        BY <2>1, <3>1, <1>6
      <3>2. CASE i \in {1, 2} /\ j \notin {1, 2}
        BY <2>1, <3>2, <1>3, <1>5, <1>6
      <3>3. CASE i \notin {1, 2} /\ j \in {1, 2}
        BY <2>1, <3>3, <1>3, <1>5, <1>6
      <3>4. CASE i \notin {1, 2} /\ j \notin {1, 2}
        <4>1. e[i - 2] = e[j - 2] /\ i - 2 \in 1 .. n /\ j - 2 \in 1 .. n
          BY <2>1, <3>4, <1>5
        <4>2. i - 2 = j - 2 /\ i \in Int /\ j \in Int
          BY <4>1, <1>1, <1>5
        <4> QED BY <4>2
      <3> QED BY <3>1, <3>2, <3>3, <3>4
    <2> QED BY <2>1 DEF Distinct
  <1>8. Elements(u) = S \cup {l, s}
    <2>1. ASSUME NEW x \in S PROVE \E i \in DOMAIN u : u[i] = x
      <3>1. PICK i \in 1 .. n : e[i] = x
        BY <1>1
      <3>2. 2 + i \in DOMAIN u /\ u[2 + i] = e[i]
        BY <1>5
      <3> QED BY <3>1, <3>2
    <2>2. 1 \in DOMAIN u /\ 2 \in DOMAIN u
      BY <1>1, <1>5
    <2>3. \A i \in DOMAIN u : u[i] \in S \cup {l, s}
      BY <1>3, <1>5, <1>6
    <2> QED BY <2>1, <2>2, <2>3, <1>6 DEF Elements
  <1>9. Len(u) >= 2 /\ (Len(u) > 2 \/ S = {})
    <2>1. n = 0 => S = {}
      BY <1>1
    <2> QED BY <2>1, <1>1, <1>5
  <1> QED BY <1>5, <1>6, <1>7, <1>8, <1>9 DEF u, two, e

\* Going back frees the variable of the literal that is to be assigned, not the others.
LEMMA LearntFree ==
  ASSUME Analysed, qhead \in Nat
  PROVE  /\ LearntUip \in Lits /\ Var(LearntUip) \notin Assigned(TrailAt(LearntBack))
         /\ Len(LimsAt(LearntBack)) = LearntBack
         /\ \A x \in LearntRest : \E k \in 1 .. Len(TrailAt(LearntBack)) : x = -TrailAt(LearntBack)[k].lit
         /\ \A x \in LearntRest : Level(Var(x)) = LearntBack => Late(x, TrailAt(LearntBack), LimsAt(LearntBack))
  <1> DEFINE b == LearntBack
             l == LearntUip
             t == TrailAt(b)
             m == LimsAt(b)
  <1>1. /\ Refuted(LearntSet, trail, lims) /\ LearntSet \in SUBSET Lits
        /\ LearntSet = LearntRest \cup {l} /\ Level(Var(l)) = Len(lims)
        /\ b \in Nat /\ b < Len(lims)
        /\ \A x \in LearntRest : Level(Var(x)) <= b
    BY LearntIs
  <1>2. TrailOK(trail, lims)
    BY DEF Analysed
  <1> HIDE DEF b, l
  <1>3. ASSUME NEW x \in LearntSet
        PROVE  \E k \in DOMAIN trail : x = -trail[k].lit /\ Level(Var(x)) = LevelOf(lims, k) /\ Var(x) = Var(trail[k].lit)
    <2>1. PICK k \in DOMAIN trail : x = -trail[k].lit
      BY <1>1 DEF Refuted
    <2>2. Level(Var(x)) = LevelOf(lims, k) /\ trail[k].lit \in Lits
      BY <2>1, <1>2, AtIs
    <2>3. Var(x) = Var(trail[k].lit)
      BY <2>1, <2>2, LitFacts
    <2> QED BY <2>1, <2>2, <2>3
  <1>4. \A k \in DOMAIN trail :
          /\ LevelOf(lims, k) <= b => k \in 1 .. Len(t) /\ t[k] = trail[k]
          /\ LevelOf(lims, k) > b => Var(trail[k].lit) \notin Assigned(t)
          /\ DOMAIN t = 1 .. Len(t) /\ Len(m) = b
          /\ \A n \in DOMAIN m : n <= b /\ m[n] = lims[n] /\ n \in DOMAIN lims
          /\ \A i \in DOMAIN t : i \in DOMAIN trail /\ t[i] = trail[i]
    BY <1>1, <1>2, BackPlaces
  <1> HIDE DEF t, m
  <1>5. l \in LearntSet /\ l \in Lits
    BY <1>1
  <1>6. PICK kl \in DOMAIN trail : l = -trail[kl].lit /\ Level(Var(l)) = LevelOf(lims, kl) /\ Var(l) = Var(trail[kl].lit)
    BY <1>3, <1>5
  <1>7. Len(lims) > b
    <2>1. Len(lims) \in Nat
      BY <1>2, LenProperties DEF TrailOK
    <2> QED BY <2>1, <1>1
  <1>8. Var(l) \notin Assigned(t) /\ Len(m) = b /\ DOMAIN t = 1 .. Len(t)
    BY <1>1, <1>4, <1>6, <1>7
  <1>9. ASSUME NEW x \in LearntRest PROVE \E k \in 1 .. Len(t) : x = -t[k].lit
    <2>1. PICK k \in DOMAIN trail : x = -trail[k].lit /\ Level(Var(x)) = LevelOf(lims, k)
      BY <1>1, <1>3
    <2>2. LevelOf(lims, k) <= b
      BY <2>1, <1>1
    <2>3. k \in 1 .. Len(t) /\ t[k] = trail[k]
      BY <2>2, <1>4
    <2> QED BY <2>1, <2>3
  <1>10. ASSUME NEW x \in LearntRest, Level(Var(x)) = b PROVE Late(x, t, m)
    <2> SUFFICES ASSUME NEW i \in DOMAIN t, x = -t[i].lit, NEW n \in DOMAIN m PROVE m[n] < i
      BY DEF Late
    <2>1. i \in DOMAIN trail /\ t[i] = trail[i]
      BY <1>4, <1>6
    <2>2. Level(Var(x)) = LevelOf(lims, i)
      BY <2>1, <1>2, AtIs
    <2>3. n <= b /\ m[n] = lims[n] /\ n \in DOMAIN lims
      BY <1>4, <1>6
    <2>4. i \in Nat
      BY <2>1, <1>2, LenProperties DEF TrailOK
    <2>5. n <= LevelOf(lims, i) <=> lims[n] < i
      BY <2>3, <2>4, <1>2, LevelOfIs
    <2> QED BY <2>2, <2>3, <2>5, <1>10
  <1> QED BY <1>5, <1>8, <1>9, <1>10 DEF b, l, t, m

LEMMA LearntClauseIs ==
  ASSUME Analysed, qhead \in Nat, LearntRest # {}
  PROVE  /\ Asserts(LearntClause, TrailAt(LearntBack), LimsAt(LearntBack))
         /\ LitsOf(LearntClause) = LearntSet /\ LearntClause.lits[1] = LearntUip
  <1> DEFINE l == LearntUip
             s == LearntNext
             S == LearntRest \ {s}
             ls == <<l, s>> \o SetToSeq(S)
             glue == Cardinality({Level(Var(x)) : x \in LearntSet}) <= 2
             t == TrailAt(LearntBack)
             m == LimsAt(LearntBack)
             c == LearntClause
  <1>1. /\ LearntSet \in SUBSET Lits /\ LearntSet = LearntRest \cup {l} /\ l \notin LearntRest
        /\ s \in LearntRest /\ Level(Var(s)) = LearntBack
    BY LearntIs
  <1>2. c = Clause(ls, TRUE, glue)
    BY DEF LearntClause
  <1>3. S \in SUBSET Lits /\ l \in Lits /\ s \in Lits /\ l # s /\ l \notin S /\ s \notin S
    BY <1>1
  <1>4. /\ ls \in Seq(Lits) /\ Len(ls) >= 2 /\ (Len(ls) > 2 \/ S = {})
        /\ Distinct(ls) /\ Elements(ls) = S \cup {l, s} /\ ls[1] = l /\ ls[2] = s
    <2> HIDE DEF S, l, s
    <2> QED BY <1>3, InFront
  <1>5. S = {} => LearntSet = {l, s}
    BY <1>1
  <1>6. S = {} => glue
    <2> SUFFICES ASSUME LearntSet = {l, s} PROVE glue
      BY <1>5
    <2>1. {Level(Var(x)) : x \in LearntSet} = {Level(Var(l))} \cup {Level(Var(s))}
      <3> HIDE DEF l, s
      <3> QED OBVIOUS
    <2> HIDE DEF l, s
    <2>2. IsFiniteSet({Level(Var(l))}) /\ Cardinality({Level(Var(l))}) = 1
      BY FS_Singleton
    <2>3. Cardinality({Level(Var(l))} \cup {Level(Var(s))}) =
            IF Level(Var(s)) \in {Level(Var(l))} THEN Cardinality({Level(Var(l))}) ELSE Cardinality({Level(Var(l))}) + 1
      BY <2>2, FS_AddElement
    <2>4. Cardinality({Level(Var(l))} \cup {Level(Var(s))}) <= 2
      BY <2>2, <2>3
    <2> QED BY <2>1, <2>4
  <1>7. glue \in BOOLEAN
    OBVIOUS
  <1>13. LearntSet = S \cup {l, s}
    BY <1>1
  <1> HIDE DEF ls, glue, S, c
  <1>8. /\ Proper(c) /\ LitsOf(c) = Elements(ls) /\ c.lits = ls /\ c.deleted = FALSE
    <2>1. Len(ls) > 2 \/ glue
      BY <1>4, <1>6
    <2>2. TRUE \in BOOLEAN
      OBVIOUS
    <2>3. /\ Proper(Clause(ls, TRUE, glue)) /\ LitsOf(Clause(ls, TRUE, glue)) = Elements(ls)
          /\ Clause(ls, TRUE, glue).lits = ls /\ Clause(ls, TRUE, glue).deleted = FALSE
      BY <2>1, <2>2, <1>4, <1>7, ClauseIs
    <2> QED BY <2>3, <1>2
  <1>9. LitsOf(c) = LearntSet
    BY <1>4, <1>8, <1>13
  <1>10. /\ Var(l) \notin Assigned(t)
         /\ \A x \in LearntRest : \E k \in 1 .. Len(t) : x = -t[k].lit
         /\ Late(s, t, m)
    BY <1>1, LearntFree
  <1> HIDE DEF l, s, t, m
  <1>11. c.lits[1] = l /\ c.lits[2] = s
    BY <1>4, <1>8
  <1>12. Asserts(c, t, m)
    BY <1>1, <1>8, <1>9, <1>10, <1>11 DEF Asserts
  <1> QED BY <1>9, <1>11, <1>12 DEF c, l, t, m

LEMMA LearnIs ==
  ASSUME Learn
  PROVE  /\ task = "search" /\ conflict # None /\ DecisionLevel > 0
         /\ lims' = LimsAt(LearntBack) /\ qhead' = QheadAt(LearntBack) /\ heap' = HeapAt(LearntBack)
         /\ phase' = PhaseAt(LearntBack)
         /\ LearntRest = {} =>
              Kept(clauses, watches, Assign(TrailAt(LearntBack), LearntUip, None), Log(db, LearntSet))
         /\ LearntRest # {} =>
              Kept(Append(clauses, LearntClause), Watching(watches, Len(clauses) + 1, LearntClause),
                   Assign(TrailAt(LearntBack), LearntUip, Len(clauses) + 1), Log(db, LearntSet))
  BY DEF Learn, LearntSet, LearntUip, LearntRest, LearntBack, LearntNext, LearntClause

LEMMA LearnRest ==
  ASSUME Learn, OthersOK
  PROVE  /\ conflict' = None /\ here' \in Nat /\ left' \in [conflicts : Int, propagations : Int]
         /\ UNCHANGED <<visiting, unsat, lemma, todo, premises, calls>>
         /\ (task' = "idle" /\ answer' = [kind |-> "unknown"]) \/ (task' = task /\ answer' = answer)
  <1>1. here \in Nat /\ left \in [conflicts : Int, propagations : Int]
    BY DEF OthersOK
  <1>2. Less(left.conflicts) \in Int
    BY <1>1 DEF Less
  <1>3. left' = [left EXCEPT !.conflicts = Less(left.conflicts)]
    BY DEF Learn
  <1>4. left' \in [conflicts : Int, propagations : Int]
    BY <1>1, <1>2, <1>3
  <1>5. here' = here + 1
    BY DEF Learn
  <1>6. here' \in Nat
    BY <1>1, <1>5
  <1>7. conflict' = None /\ UNCHANGED <<visiting, unsat, lemma, todo, premises, calls>>
    BY DEF Learn, user
  <1>8. (task' = "idle" /\ answer' = [kind |-> "unknown"]) \/ (task' = task /\ answer' = answer)
    BY DEF Learn
  <1> QED BY <1>4, <1>6, <1>7, <1>8

\* What is learned, with what went back, before a reduction.
LEMMA LearntFine ==
  ASSUME Inv, Learn
  PROVE  /\ LearntRest = {} =>
              Fine(premises, clauses, watches, Assign(TrailAt(LearntBack), LearntUip, None),
                   LimsAt(LearntBack), QheadAt(LearntBack))
         /\ LearntRest # {} =>
              Fine(premises, Append(clauses, LearntClause), Watching(watches, Len(clauses) + 1, LearntClause),
                   Assign(TrailAt(LearntBack), LearntUip, Len(clauses) + 1),
                   LimsAt(LearntBack), QheadAt(LearntBack))
  <1> DEFINE b == LearntBack
             l == LearntUip
             t == TrailAt(b)
             m == LimsAt(b)
             h == QheadAt(b)
  <1>1. task = "search" /\ conflict # None /\ DecisionLevel > 0
    BY LearnIs
  <1>2. Analysed /\ qhead \in Nat
    BY <1>1, LearnState
  <1>3. /\ Implied(premises, LearntSet) /\ LearntSet = LearntRest \cup {l} /\ b \in Nat /\ b < Len(lims)
        /\ LearntRest = {} => b = 0
        /\ LearntRest # {} => b > 0
    BY <1>2, LearntIs
  <1>4. /\ l \in Lits /\ Var(l) \notin Assigned(t) /\ Len(m) = b
    BY <1>2, LearntFree
  <1>5. Fine(premises, clauses, watches, t, m, h)
    BY <1>1, <1>3, LearnState
  <1>6. /\ LearntRest # {} => /\ Asserts(LearntClause, t, m)
                              /\ LitsOf(LearntClause) = LearntSet /\ LearntClause.lits[1] = l
    BY <1>2, LearntClauseIs
  <1>7. TrailOK(t, m)
    BY <1>5, FineParts
  <1> HIDE DEF b, l, t, m, h
  <1>8. CASE LearntRest = {}
    <2>1. m = <<>>
      <3>1. m \in Seq(Nat) /\ Len(m) <= 0
        BY <1>8, <1>3, <1>4, <1>7 DEF TrailOK
      <3> QED BY <3>1, EmptyLims
    <2>2. LearntSet = {l}
      BY <1>8, <1>3
    <2>3. Fine(premises, clauses, watches, t, <<>>, h) /\ Implied(premises, {l})
      BY <2>1, <2>2, <1>3, <1>5
    <2>4. Fine(premises, clauses, watches, Assign(t, l, None), <<>>, h)
      BY <2>3, <1>4, FineUnit
    <2>5. Fine(premises, clauses, watches, Assign(t, l, None), m, h)
      BY <2>1, <2>4
    <2> QED BY <2>5, <1>8 DEF b, l, t, m, h
  <1>9. CASE LearntRest # {}
    <2>1. Len(m) > 0
      BY <1>9, <1>3, <1>4
    <2>2. Asserts(LearntClause, t, m) /\ LitsOf(LearntClause) = LearntSet /\ LearntClause.lits[1] = l
      BY <1>9, <1>6
    <2>3. Implied(premises, LitsOf(LearntClause))
      BY <2>2, <1>3
    <2>4. Fine(premises, Append(clauses, LearntClause), Watching(watches, Len(clauses) + 1, LearntClause),
               Assign(t, LearntClause.lits[1], Len(clauses) + 1), m, h)
      BY <2>1, <2>2, <2>3, <1>5, FineLearnt
    <2>5. Fine(premises, Append(clauses, LearntClause), Watching(watches, Len(clauses) + 1, LearntClause),
               Assign(t, l, Len(clauses) + 1), m, h)
      BY <2>2, <2>4
    <2> QED BY <2>5, <1>9 DEF b, l, t, m, h
  <1> QED BY <1>8, <1>9

\* What is learned, with what went back, and a reduction after it.
LEMMA LearnFine ==
  ASSUME Inv, Learn
  PROVE  /\ Fine(premises, clauses', watches', trail', lims', qhead')
         /\ HeapOK(heap', trail') /\ heap' \subseteq Vars /\ phase' \in [Vars -> BOOLEAN] /\ reductions' \in Nat
  <1> DEFINE b == LearntBack
             l == LearntUip
             t == TrailAt(b)
             m == LimsAt(b)
             h == QheadAt(b)
             id == Len(clauses) + 1
  <1>1. /\ task = "search" /\ conflict # None /\ DecisionLevel > 0
        /\ lims' = m /\ qhead' = h /\ heap' = HeapAt(b) /\ phase' = PhaseAt(b)
        /\ LearntRest = {} => Kept(clauses, watches, Assign(t, l, None), Log(db, LearntSet))
        /\ LearntRest # {} => Kept(Append(clauses, LearntClause), Watching(watches, id, LearntClause),
                                   Assign(t, l, id), Log(db, LearntSet))
    BY LearnIs
  <1>2. Analysed /\ qhead \in Nat
    BY <1>1, LearnState
  <1>3. b \in Nat /\ b < Len(lims)
    BY <1>2, LearntIs
  <1>4. l \in Lits /\ Var(l) \notin Assigned(t)
    BY <1>2, LearntFree
  <1>5. /\ Fine(premises, clauses, watches, t, m, h)
        /\ HeapAt(b) \subseteq Vars /\ HeapOK(HeapAt(b), t) /\ PhaseAt(b) \in [Vars -> BOOLEAN]
    BY <1>1, <1>3, LearnState
  <1>6. reductions \in Nat
    BY DEF Inv, OthersOK
  <1>7. /\ LearntRest = {} => Fine(premises, clauses, watches, Assign(t, l, None), m, h)
        /\ LearntRest # {} => Fine(premises, Append(clauses, LearntClause), Watching(watches, id, LearntClause),
                                   Assign(t, l, id), m, h)
    BY LearntFine
  <1> HIDE DEF b, l, t, m, h, id
  <1>8. TrailOK(t, m) /\ Len(clauses) \in Nat
    BY <1>5, FineParts
  <1>9. id \in Nat /\ None \in Nat
    BY <1>8 DEF id, None
  <1>10. /\ Assigned(Assign(t, l, None)) = Assigned(t) \cup {Var(l)}
         /\ Assigned(Assign(t, l, id)) = Assigned(t) \cup {Var(l)}
    BY <1>4, <1>8, <1>9, AssignIs
  <1>11. Fine(premises, clauses', watches', trail', m, h) /\ Assigned(trail') = Assigned(t) \cup {Var(l)}
         /\ reductions' \in Nat
    <2>1. CASE LearntRest = {}
      <3>1. /\ Fine(premises, clauses, watches, Assign(t, l, None), m, h)
            /\ Kept(clauses, watches, Assign(t, l, None), Log(db, LearntSet))
        BY <2>1, <1>1, <1>7
      <3>2. /\ Fine(premises, clauses', watches', trail', m, h)
            /\ Assigned(trail') = Assigned(Assign(t, l, None)) /\ reductions' \in Nat
        BY <3>1, <1>6, KeptFine
      <3> QED BY <3>2, <1>10
    <2>2. CASE LearntRest # {}
      <3>1. /\ Fine(premises, Append(clauses, LearntClause), Watching(watches, id, LearntClause), Assign(t, l, id), m, h)
            /\ Kept(Append(clauses, LearntClause), Watching(watches, id, LearntClause), Assign(t, l, id),
                    Log(db, LearntSet))
        BY <2>2, <1>1, <1>7
      <3>2. /\ Fine(premises, clauses', watches', trail', m, h)
            /\ Assigned(trail') = Assigned(Assign(t, l, id)) /\ reductions' \in Nat
        BY <3>1, <1>6, KeptFine
      <3> QED BY <3>2, <1>10
    <2> QED BY <2>1, <2>2
  <1>12. HeapOK(heap', trail')
    BY <1>1, <1>5, <1>11 DEF HeapOK
  <1> QED BY <1>1, <1>5, <1>11, <1>12

LEMMA LearnKeeps ==
  ASSUME Inv, Learn PROVE Inv'
  <1>1. /\ OthersOK /\ TasksOK(task, lims, visiting, conflict, unsat) /\ SatRight(answer, premises)
        /\ Entailed(premises, clauses, trail, lims, task, lemma, unsat, answer)
    BY DEF Inv
  <1>2. task = "search" /\ visiting = <<>> /\ ~unsat
    <2>1. task = "search" /\ conflict # None /\ DecisionLevel > 0
      BY LearnIs
    <2> QED BY <2>1, LearnState
  <1>3. /\ conflict' = None /\ here' \in Nat /\ left' \in [conflicts : Int, propagations : Int]
        /\ UNCHANGED <<visiting, unsat, lemma, todo, premises, calls>>
        /\ (task' = "idle" /\ answer' = [kind |-> "unknown"]) \/ (task' = task /\ answer' = answer)
    BY <1>1, LearnRest
  <1>4. /\ Fine(premises, clauses', watches', trail', lims', qhead')
        /\ HeapOK(heap', trail') /\ heap' \subseteq Vars /\ phase' \in [Vars -> BOOLEAN] /\ reductions' \in Nat
    BY LearnFine
  <1>5. premises' = premises /\ visiting' = <<>> /\ unsat' = unsat /\ lemma' = lemma
    BY <1>2, <1>3
  <1>6. /\ Structure(clauses', watches', trail', lims', qhead', visiting', conflict')
        /\ Caught(clauses', trail', lims', qhead', visiting') /\ AllKept(premises', clauses', trail', lims')
        /\ DecisionsOK(trail', lims')
        /\ \A mo \in SUBSET Vars : Fulfils(mo, premises) => Agrees(mo, clauses', trail', lims')
    BY <1>3, <1>4, <1>5 DEF Fine
  <1>7. Caught(clauses', trail', lims', SafeHead(qhead', lims', conflict'), visiting')
    BY <1>3, <1>6 DEF SafeHead
  <1>8. (answer'.kind = "unknown") \/ answer' = answer
    BY <1>3
  <1>9. OthersOK'
    <2>1. answer'.kind \in {"none", "unknown", "unsat", "sat"} /\ (answer'.kind = "sat" => answer'.model \in SUBSET Vars)
      BY <1>1, <1>8 DEF OthersOK
    <2>2. task' \in Tasks
      BY <1>1, <1>3 DEF OthersOK, Tasks
    <2> QED BY <2>1, <2>2, <1>1, <1>3, <1>4 DEF OthersOK
  <1>10. TasksOK(task', lims', visiting', conflict', unsat')
    BY <1>2, <1>3, <1>5 DEF TasksOK
  <1>11. SatRight(answer', premises')
    BY <1>1, <1>5, <1>8 DEF SatRight
  <1>12. Entailed(premises', clauses', trail', lims', task', lemma', unsat', answer')
    <2>1. task' # "probe"
      BY <1>2, <1>3
    <2>2. ASSUME NEW mo \in SUBSET Vars, Fulfils(mo, premises) PROVE ~unsat /\ answer'.kind # "unsat"
      BY <2>2, <1>1, <1>8 DEF Entailed
    <2> QED BY <2>1, <2>2, <1>5, <1>6 DEF Entailed, Supposes
  <1> QED BY <1>4, <1>6, <1>7, <1>9, <1>10, <1>11, <1>12 DEF Inv

-----------------------------------------------------------------------------
(* The theorems. *)

LEMMA InitInv ==
  ASSUME Init PROVE Inv
  <1>1. /\ clauses = <<>> /\ watches = [l \in Lits |-> <<>>]
        /\ trail = <<>> /\ lims = <<>> /\ qhead = 0 /\ visiting = <<>> /\ conflict = None
        /\ heap = Vars /\ phase = [v \in Vars |-> FALSE] /\ unsat = FALSE
        /\ task = "idle" /\ lemma = {} /\ left = [conflicts |-> 0, propagations |-> 0]
        /\ answer = [kind |-> "none"] /\ todo \in Formulas /\ premises = {}
        /\ here = 0 /\ reductions = 0 /\ calls = 0
    BY DEF Init
  <1>2. /\ <<>> \in Seq(ClauseType) /\ <<>> \in Seq(StepType) /\ <<>> \in Seq(Nat)
        /\ DOMAIN <<>> = {} /\ Len(<<>>) = 0
    OBVIOUS
  <1>3. ClausesOK(<<>>) /\ TrailOK(<<>>, <<>>) /\ ReasonsOK(<<>>, <<>>) /\ DecisionsOK(<<>>, <<>>)
    BY <1>2 DEF ClausesOK, TrailOK, ReasonsOK, DecisionsOK
  <1>4. WatchesOK(<<>>, watches)
    <2>1. DOMAIN watches = Lits /\ watches = [l \in Lits |-> watches[l]]
      BY <1>1
    <2>2. \A p \in Lits : watches[p] = <<>>
      BY <1>1
    <2> QED BY <2>1, <2>2, EmptyLists DEF WatchesOK
  <1>5. HeadOK(<<>>, <<>>, 0, <<>>, None) /\ ConflictOK(<<>>, <<>>, <<>>, None) /\ None \in Nat
    BY <1>2 DEF HeadOK, ConflictOK, None
  <1>6. \A p : VisitOK(<<>>, watches, p, <<>>) /\ Complete(<<>>, watches, p, <<>>)
    BY <1>2, EmptyLists DEF VisitOK, Complete
  <1>7. Structure(<<>>, watches, <<>>, <<>>, 0, <<>>, None)
    BY <1>3, <1>4, <1>5, <1>6 DEF Structure
  <1>8. OthersOK
    <2>1. phase \in [Vars -> BOOLEAN]
      BY <1>1
    <2>2. left \in [conflicts : Int, propagations : Int]
      BY <1>1
    <2>3. todo \in Seq(AddType)
      BY <1>1, ClausesAssumption DEF AddType
    <2>4. answer.kind = "none"
      BY <1>1
    <2>5. task \in Tasks /\ unsat \in BOOLEAN /\ heap \subseteq Vars /\ lemma \subseteq Lits
      BY <1>1 DEF Tasks
    <2>6. premises \in SUBSET (SUBSET Lits) /\ here \in Nat /\ reductions \in Nat /\ calls \in Nat
      BY <1>1
    <2> QED BY <2>1, <2>2, <2>3, <2>4, <2>5, <2>6 DEF OthersOK
  <1>9. TasksOK(task, lims, visiting, conflict, unsat)
    BY <1>1 DEF TasksOK
  <1>10. Caught(<<>>, <<>>, <<>>, SafeHead(0, <<>>, None), <<>>) /\ AllKept({}, <<>>, <<>>, <<>>)
    BY <1>2 DEF Caught, AllKept
  <1>11. Entailed(premises, clauses, trail, lims, task, lemma, unsat, answer)
    <2>1. \A m : Agrees(m, <<>>, <<>>, <<>>)
      BY <1>2 DEF Agrees
    <2>2. answer.kind # "unsat" /\ task # "probe" /\ ~unsat
      BY <1>1
    <2> QED BY <2>1, <2>2, <1>1 DEF Entailed, Supposes
  <1>12. SatRight(answer, premises)
    BY <1>1 DEF SatRight
  <1>13. HeapOK(heap, trail)
    BY <1>1 DEF HeapOK
  <1> QED BY <1>1, <1>3, <1>7, <1>8, <1>9, <1>10, <1>11, <1>12, <1>13 DEF Inv

LEMMA StutterKeeps ==
  ASSUME Inv, UNCHANGED vars PROVE Inv'
  <1>1. UNCHANGED <<clauses, watches, trail, lims, qhead, visiting, conflict, heap, phase, unsat, task,
                    lemma, left, answer, todo, premises, here, reductions, calls>>
    BY DEF vars, search, user, bounds
  <1> QED BY <1>1 DEF Inv, OthersOK

LEMMA InvKept ==
  ASSUME Inv, [Next]_vars PROVE Inv'
  <1>1. CASE AddClause BY <1>1, AddClauseKeeps
  <1>2. CASE OfferLemma BY <1>2, OfferLemmaKeeps
  <1>3. CASE Solve BY <1>3, SolveKeeps
  <1>4. CASE TryLemma BY <1>4, TryLemmaKeeps
  <1>5. CASE AcceptLemma BY <1>5, AcceptLemmaKeeps
  <1>6. CASE RejectLemma BY <1>6, RejectLemmaKeeps
  <1>7. CASE UnitDone BY <1>7, UnitDoneKeeps
  <1>8. CASE Propagate BY <1>8, PropagateKeeps
  <1>9. CASE Look BY <1>9, LookKeeps
  <1>10. CASE Contradiction BY <1>10, ContradictionKeeps
  <1>11. CASE Learn BY <1>11, LearnKeeps
  <1>12. CASE Pause BY <1>12, PauseKeeps
  <1>13. CASE Restart BY <1>13, RestartKeeps
  <1>14. CASE Decide BY <1>14, DecideKeeps
  <1>15. CASE AnswerSat BY <1>15, AnswerSatKeeps
  <1>16. CASE UNCHANGED vars BY <1>16, StutterKeeps
  <1>17. AddClause \/ OfferLemma \/ Solve \/ Work \/ UNCHANGED vars
    BY DEF Next, Finished
  <1>18. CASE Work
    BY <1>4, <1>5, <1>6, <1>7, <1>8, <1>9, <1>10, <1>11, <1>12, <1>13, <1>14, <1>15, <1>18 DEF Work
  <1> QED BY <1>1, <1>2, <1>3, <1>16, <1>17, <1>18

\* The inductive invariant: structure of clauses, watches and trail, what propagation has
\* caught, and what a model of the premises agrees with.
THEOREM InvHolds == Spec => []Inv
  <1>1. Init => Inv
    BY InitInv
  <1>2. Inv /\ [Next]_vars => Inv'
    BY InvKept
  <1> QED BY <1>1, <1>2, PTL DEF Spec

\* Every variable of the solver keeps its type, through every step of a call: clauses are
\* named by numbers, watches by literals, levels by lengths of the trail.
THEOREM TypeCorrect == Spec => []TypeOK
  <1>1. Inv => TypeOK
    BY TypesHold
  <1> QED BY <1>1, InvHolds, PTL

LEMMA ReasonsFollow ==
  ASSUME Inv PROVE ReasonsHold
  <1>1. ReasonsOK(clauses, trail) /\ trail \in Seq(StepType)
    BY DEF Inv, Structure, TrailOK
  <1>2. Len(trail) \in Nat /\ DOMAIN trail = 1 .. Len(trail) /\ \A i \in 1 .. Len(trail) : trail[i] \in StepType
    BY <1>1, LenProperties, ElementOfSeq
  <1>3. ASSUME NEW i \in DOMAIN trail, trail[i].reason # None
        PROVE  /\ trail[i].reason \in DOMAIN clauses /\ ~clauses[trail[i].reason].deleted
               /\ trail[i].lit \in LitsOf(clauses[trail[i].reason])
               /\ LitsOf(clauses[trail[i].reason]) \ {trail[i].lit} \subseteq False(SubSeq(trail, 1, i - 1))
               /\ Long(clauses[trail[i].reason]) => clauses[trail[i].reason].lits[1] = trail[i].lit
    <2>1. Because(clauses, trail, i)
      BY <1>1, <1>3 DEF ReasonsOK
    <2>2. i - 1 \in Nat /\ i - 1 <= Len(trail) /\ \A k \in 1 .. i - 1 : trail[k] \in StepType
      BY <1>2
    <2> DEFINE s == SubSeq(trail, 1, i - 1)
    <2>3. DOMAIN s = 1 .. i - 1 /\ \A k \in 1 .. i - 1 : s[k] = trail[k]
      <3>1. /\ s \in Seq(StepType) /\ Len(s) = IF 1 <= i - 1 THEN (i - 1) - 1 + 1 ELSE 0
            /\ \A k \in 1 .. (i - 1) - 1 + 1 : s[k] = trail[1 + k - 1]
        BY <2>2, SubSeqProperties
      <3>2. DOMAIN s = 1 .. Len(s)
        BY <3>1, LenProperties
      <3> HIDE DEF s
      <3>3. (i - 1) - 1 + 1 = i - 1 /\ Len(s) = i - 1
        BY <2>2, <3>1
      <3>4. \A k \in 1 .. i - 1 : 1 + k - 1 = k
        BY <2>2
      <3> QED BY <3>1, <3>2, <3>3, <3>4
    <2> HIDE DEF s
    <2>4. ASSUME NEW q \in LitsOf(clauses[trail[i].reason]), q # trail[i].lit PROVE q \in False(s)
      <3>1. PICK k \in 1 .. i - 1 : q = -trail[k].lit
        BY <2>1, <2>4 DEF Because
      <3> QED BY <3>1, <2>3 DEF False
    <2>5. LitsOf(clauses[trail[i].reason]) \ {trail[i].lit} \subseteq False(s)
      BY <2>4
    <2> QED BY <2>1, <2>5 DEF Because, s
  <1> QED BY <1>3 DEF ReasonsHold

LEMMA MissesNothing ==
  ASSUME Inv PROVE NothingMissed
  <1> SUFFICES ASSUME Quiet, ~unsat, NEW i \in DOMAIN clauses, ~clauses[i].deleted,
                      LitsOf(clauses[i]) \cap True(trail) = {}
               PROVE  Cardinality(LitsOf(clauses[i]) \ False(trail)) > 1
    BY DEF NothingMissed
  <1>1. /\ ClausesOK(clauses) /\ TrailOK(trail, lims) /\ trail \in Seq(StepType)
        /\ Caught(clauses, trail, lims, SafeHead(qhead, lims, conflict), visiting)
    BY DEF Inv, Structure, TrailOK
  <1>2. qhead = Len(trail) /\ visiting = <<>> /\ conflict = None
    BY DEF Quiet
  <1>3. Caught(clauses, trail, lims, qhead, <<>>)
    BY <1>1, <1>2 DEF SafeHead
  <1>4. \A l \in Pair(clauses[i]) : l \notin False(trail)
    BY <1>1, <1>2, <1>3, CaughtTrue
  <1> DEFINE S == LitsOf(clauses[i]) \ False(trail)
             a == clauses[i].lits[1]
             b == clauses[i].lits[2]
  <1>5. Proper(clauses[i])
    BY <1>1 DEF ClausesOK
  <1>6. a # b /\ Pair(clauses[i]) = {a, b} /\ Pair(clauses[i]) \subseteq LitsOf(clauses[i])
        /\ LitsOf(clauses[i]) \subseteq Lits
    BY <1>5, PairIn DEF Pair
  <1>7. {a, b} \subseteq S
    BY <1>4, <1>6
  <1>8. IsFiniteSet(S) /\ Cardinality(S) \in Nat
    <2>1. S \in SUBSET Lits
      BY <1>6
    <2> QED BY <2>1, LitsFinite
  <1> HIDE DEF S, a, b
  <1>9. Cardinality({a} \cup {b}) = 2
    <2>1. IsFiniteSet({a}) /\ Cardinality({a}) = 1
      BY FS_Singleton
    <2>2. Cardinality({a} \cup {b}) = Cardinality({a}) + 1
      BY <2>1, <1>6, FS_AddElement
    <2> QED BY <2>1, <2>2
  <1>10. Cardinality({a} \cup {b}) <= Cardinality(S)
    <2>1. {a} \cup {b} \subseteq S
      BY <1>7
    <2> QED BY <2>1, <1>8, FS_Subset
  <1> QED BY <1>8, <1>9, <1>10 DEF S

LEMMA AnswersFollow ==
  ASSUME Inv PROVE AnswersRight
  <1>1. /\ Entailed(premises, clauses, trail, lims, task, lemma, unsat, answer) /\ SatRight(answer, premises)
    BY DEF Inv
  <1>2. answer.kind = "sat" => \A c \in premises : Satisfies(answer.model, c)
    BY <1>1 DEF SatRight, Fulfils
  <1>3. ASSUME unsat \/ answer.kind = "unsat", NEW model \in SUBSET Vars, \A c \in premises : Satisfies(model, c)
        PROVE  FALSE
    BY <1>1, <1>3 DEF Entailed, Fulfils
  <1> QED BY <1>2, <1>3 DEF AnswersRight

\* An assignment that has a reason follows from it: the clause is still in the arena, after
\* reductions and renumberings, all its other literals became false before, and it names
\* the assigned literal first when it is long, as analysis and the lock of a clause assume.
THEOREM ReasonsAreKept == Spec => []ReasonsHold
  <1>1. Inv => ReasonsHold
    BY ReasonsFollow
  <1> QED BY <1>1, InvHolds, PTL

\* Two watched literals are enough: when propagation rests, no clause of the arena is false
\* or has a single literal left, whatever jumps back, deletions and pauses came before.
THEOREM PropagationIsComplete == Spec => []NothingMissed
  <1>1. Inv => NothingMissed
    BY MissesNothing
  <1> QED BY <1>1, InvHolds, PTL

\* The solver is sound: a model it reports satisfies every clause added, and it says that
\* there is none only when there is none.
THEOREM AnswersAreRight == Spec => []AnswersRight
  <1>1. Inv => AnswersRight
    BY AnswersFollow
  <1> QED BY <1>1, InvHolds, PTL

-----------------------------------------------------------------------------
(* The checker's unit propagation. *)

\* Unit propagation over the clauses has nothing to add to these literals.
Spread(cs, T) == \A d \in cs : \A l \in d : (\A q \in d : q # l => -q \in T) => l \in T
More(cs, T) == T \cup UNION {{l \in d : \A q \in d \ {l} : -q \in T} : d \in cs}
Propagates(cs, f) == f = [T \in SUBSET Lits |-> IF More(cs, T) = T THEN T ELSE f[More(cs, T)]]

LEMMA MoreIs ==
  ASSUME NEW cs \in SUBSET (SUBSET Lits), NEW T \in SUBSET Lits
  PROVE  /\ More(cs, T) \in SUBSET Lits /\ T \subseteq More(cs, T)
         /\ More(cs, T) = T => Spread(cs, T)
         /\ \A U \in SUBSET Lits : T \subseteq U /\ Spread(cs, U) => More(cs, T) \subseteq U
  <1>1. \A x : x \in More(cs, T) <=> x \in T \/ \E d \in cs : x \in d /\ \A q \in d \ {x} : -q \in T
    BY DEF More
  <1>2. More(cs, T) \in SUBSET Lits
    BY <1>1
  <1>3. ASSUME More(cs, T) = T PROVE Spread(cs, T)
    <2>1. ASSUME NEW d \in cs, NEW l \in d, \A q \in d : q # l => -q \in T PROVE l \in T
      BY <1>1, <1>3, <2>1
    <2> QED BY <2>1 DEF Spread
  <1>4. ASSUME NEW U \in SUBSET Lits, T \subseteq U, Spread(cs, U), NEW x \in More(cs, T) PROVE x \in U
    <2>1. CASE x \in T
      BY <1>4, <2>1
    <2>2. CASE x \notin T
      <3>1. PICK d \in cs : x \in d /\ \A q \in d \ {x} : -q \in T
        BY <1>1, <1>4, <2>2
      <3>2. \A q \in d : q # x => -q \in U
        BY <1>4, <3>1
      <3> QED BY <1>4, <3>1, <3>2 DEF Spread
    <2> QED BY <2>1, <2>2
  <1> QED BY <1>1, <1>2, <1>3, <1>4

\* The closure exists: the least set that has nothing to add.
LEMMA PropagatesExists ==
  ASSUME NEW cs \in SUBSET (SUBSET Lits)
  PROVE  \E f : Propagates(cs, f)
  <1> DEFINE Least(T) == {l \in Lits : \A U \in SUBSET Lits : T \subseteq U /\ Spread(cs, U) => l \in U}
             f == [T \in SUBSET Lits |-> Least(T)]
  <1>1. ASSUME NEW T \in SUBSET Lits PROVE f[T] = IF More(cs, T) = T THEN T ELSE f[More(cs, T)]
    <2> DEFINE m == More(cs, T)
    <2>1. /\ m \in SUBSET Lits /\ T \subseteq m /\ (m = T => Spread(cs, T))
          /\ \A U \in SUBSET Lits : T \subseteq U /\ Spread(cs, U) => m \subseteq U
      BY MoreIs
    <2> HIDE DEF m
    <2>2. CASE m = T
      <3>1. Least(T) = T
        BY <2>1, <2>2
      <3> QED BY <2>2, <3>1 DEF m
    <2>3. CASE m # T
      <3>1. \A U \in SUBSET Lits : (T \subseteq U /\ Spread(cs, U)) <=> (m \subseteq U /\ Spread(cs, U))
        BY <2>1
      <3>2. Least(T) = Least(m)
        BY <3>1
      <3> QED BY <2>1, <2>3, <3>2 DEF m
    <2> QED BY <2>2, <2>3
  <1>2. f = [T \in SUBSET Lits |-> f[T]]
    OBVIOUS
  <1> HIDE DEF f
  <1>3. f = [T \in SUBSET Lits |-> IF More(cs, T) = T THEN T ELSE f[More(cs, T)]]
    BY <1>1, <1>2
  <1> QED BY <1>3 DEF Propagates

\* It has nothing to add, and has what it began with.
LEMMA PropagatesIs ==
  ASSUME NEW cs \in SUBSET (SUBSET Lits), NEW f, Propagates(cs, f), NEW T \in SUBSET Lits
  PROVE  f[T] \in SUBSET Lits /\ T \subseteq f[T] /\ Spread(cs, f[T])
  <1> DEFINE Fine1(S) == f[S] \in SUBSET Lits /\ S \subseteq f[S] /\ Spread(cs, f[S])
             Bad == {n \in Nat : \E S \in SUBSET Lits : n = Cardinality(Lits \ S) /\ ~Fine1(S)}
  <1>0. \A S \in SUBSET Lits : f[S] = IF More(cs, S) = S THEN S ELSE f[More(cs, S)]
    BY DEF Propagates
  <1>1. Bad = {}
    <2> SUFFICES ASSUME Bad # {} PROVE FALSE
      OBVIOUS
    <2>1. PICK n \in Bad : \A m \in Bad : n <= m
      <3>1. Bad \in SUBSET Nat
        OBVIOUS
      <3> HIDE DEF Bad
      <3> QED BY <3>1, LeastNat
    <2>2. PICK S \in SUBSET Lits : n = Cardinality(Lits \ S) /\ ~Fine1(S)
      BY <2>1
    <2> DEFINE m == More(cs, S)
    <2>3. /\ m \in SUBSET Lits /\ S \subseteq m /\ (m = S => Spread(cs, S))
      BY MoreIs
    <2>4. f[S] = IF m = S THEN S ELSE f[m]
      BY <1>0
    <2> HIDE DEF m
    <2>5. CASE m = S
      BY <2>2, <2>3, <2>4, <2>5
    <2>6. CASE m # S
      <3>1. IsFiniteSet(Lits \ S) /\ Lits \ m \in SUBSET (Lits \ S) /\ Lits \ m # Lits \ S
        <4>1. Lits \ S \in SUBSET Lits
          OBVIOUS
        <4>2. PICK x \in m : x \notin S
          BY <2>3, <2>6
        <4>3. x \in Lits \ S /\ x \notin Lits \ m
          BY <2>3, <4>2
        <4> QED BY <2>3, <4>1, <4>3, LitsFinite
      <3>2. Cardinality(Lits \ m) <= Cardinality(Lits \ S) /\ Cardinality(Lits \ m) # Cardinality(Lits \ S)
        BY <3>1, FS_Subset
      <3>3. Cardinality(Lits \ m) \in Nat /\ Cardinality(Lits \ S) \in Nat
        BY LitsFinite
      <3>4. ~(n <= Cardinality(Lits \ m))
        BY <2>2, <3>2, <3>3
      <3>5. Fine1(m)
        BY <2>1, <2>3, <3>3, <3>4
      <3> QED BY <2>2, <2>3, <2>4, <2>6, <3>5
    <2> QED BY <2>5, <2>6
  <1>2. Cardinality(Lits \ T) \in Nat
    BY LitsFinite
  <1> QED BY <1>1, <1>2

\* A clause follows by unit propagation if whatever has nothing to add and makes it false has
\* a literal and its negation.
Clashes(cs, c) ==
  \A T \in SUBSET Lits : (\A l \in c : -l \in T) /\ Spread(cs, T) => Tautology(T)
LEMMA RupIs ==
  ASSUME NEW cs \in SUBSET (SUBSET Lits), NEW c \in SUBSET Lits, Clashes(cs, c)
  PROVE  Rup(cs, c)
  <1> DEFINE It(f) == [T \in SUBSET Lits |-> IF More(cs, T) = T THEN T ELSE f[More(cs, T)]]
             it == CHOOSE f : f = It(f)
             from == {-l : l \in c}
  <1>1. Rup(cs, c) = Tautology(it[from])
    BY DEF Rup, More
  <1>2. it = It(it)
    <2>1. PICK f : Propagates(cs, f)
      BY PropagatesExists
    <2>2. f = It(f)
      BY <2>1 DEF Propagates
    <2> HIDE DEF It
    <2> QED BY <2>2
  <1> HIDE DEF it
  <1>3. Propagates(cs, it)
    BY <1>2 DEF Propagates
  <1>4. from \in SUBSET Lits
    BY LitFacts
  <1>5. it[from] \in SUBSET Lits /\ from \subseteq it[from] /\ Spread(cs, it[from])
    <2> HIDE DEF from
    <2> QED BY <1>3, <1>4, PropagatesIs
  <1>6. \A l \in c : -l \in it[from]
    BY <1>5
  <1>7. Tautology(it[from])
    <2> HIDE DEF from
    <2> QED BY <1>5, <1>6 DEF Clashes
  <1> QED BY <1>1, <1>7

-----------------------------------------------------------------------------
(* What the checker holds. *)

Standing(cs, S) == {id \in DOMAIN cs : ~cs[id].deleted /\ LitsOf(cs[id]) = S}
Number(cs, S) == Cardinality(Standing(cs, S))
Copies(h, S) == IF S \in DOMAIN h THEN h[S] ELSE 0
BagOK(h) == \A S \in DOMAIN h : S \in SUBSET Lits /\ h[S] \in Nat /\ h[S] > 0

\* A bag of clauses, none of them refused.
DbOK(d) == DOMAIN d = {"held", "refused"} /\ ~d.refused /\ BagOK(d.held)
\* Every clause of the arena is among them, as often as it is there.
Backs(h, cs) == \A S \in SUBSET Lits : Number(cs, S) <= Copies(h, S)

LEMMA CopiesIs ==
  ASSUME NEW h, BagOK(h), NEW S
  PROVE  Copies(h, S) \in Nat /\ (Copies(h, S) > 0 <=> S \in DOMAIN h)
  BY DEF Copies, BagOK

\* One more copy of a clause.
OneMore(g, h, c) ==
  /\ BagOK(g) /\ DOMAIN g = DOMAIN h \cup {c}
  /\ Copies(g, c) = Copies(h, c) + 1 /\ \A S : S # c => Copies(g, S) = Copies(h, S)
LEMMA OneMoreIs ==
  ASSUME NEW h, BagOK(h), NEW c \in SUBSET Lits
  PROVE  OneMore(h (+) SetToBag({c}), h, c)
  <1> DEFINE b == SetToBag({c})
             g == h (+) b
  <1>1. DOMAIN b = {c} /\ b[c] = 1
    BY DEF SetToBag
  <1>2. DOMAIN g = DOMAIN h \cup {c}
    BY <1>1 DEF (+)
  <1>3. \A S \in DOMAIN g : g[S] = (IF S \in DOMAIN h THEN h[S] ELSE 0) + (IF S \in DOMAIN b THEN b[S] ELSE 0)
    BY <1>1 DEF (+)
  <1> HIDE DEF g, b
  <1>4. \A S \in DOMAIN h : S \in SUBSET Lits /\ h[S] \in Nat /\ h[S] > 0
    BY DEF BagOK
  <1>5. \A S \in DOMAIN h : S # c => g[S] = h[S] + 0
    BY <1>1, <1>2, <1>3
  <1>6. g[c] = Copies(h, c) + 1
    BY <1>1, <1>2, <1>3 DEF Copies
  <1>7. Copies(h, c) \in Nat
    BY CopiesIs
  <1>8. BagOK(g)
    <2>1. ASSUME NEW S \in DOMAIN g PROVE S \in SUBSET Lits /\ g[S] \in Nat /\ g[S] > 0
      <3>1. CASE S = c
        BY <1>6, <1>7, <3>1
      <3>2. CASE S # c
        BY <1>2, <1>4, <1>5, <3>2
      <3> QED BY <3>1, <3>2
    <2> QED BY <2>1 DEF BagOK
  <1>9. Copies(g, c) = Copies(h, c) + 1
    BY <1>2, <1>6 DEF Copies
  <1>10. ASSUME NEW S, S # c PROVE Copies(g, S) = Copies(h, S)
    BY <1>2, <1>4, <1>5, <1>10 DEF Copies
  <1>11. OneMore(g, h, c)
    BY <1>2, <1>8, <1>9, <1>10 DEF OneMore
  <1> QED BY <1>11 DEF g, b

LEMMA GivenIs ==
  ASSUME NEW d, DbOK(d), NEW c \in SUBSET Lits
  PROVE  DbOK(Given(d, c)) /\ OneMore(Given(d, c).held, d.held, c)
  <1>1. /\ DOMAIN Given(d, c) = {"held", "refused"} /\ Given(d, c).refused = d.refused
        /\ Given(d, c).held = d.held (+) SetToBag({c})
    BY DEF Given, DbOK
  <1>2. OneMore(Given(d, c).held, d.held, c)
    BY <1>1, OneMoreIs DEF DbOK
  <1> QED BY <1>1, <1>2 DEF DbOK, OneMore

LEMMA LogIs ==
  ASSUME NEW d, DbOK(d), NEW c \in SUBSET Lits, Clashes(DOMAIN d.held, c)
  PROVE  DbOK(Log(d, c)) /\ OneMore(Log(d, c).held, d.held, c)
  <1>1. DOMAIN d.held \in SUBSET (SUBSET Lits)
    BY DEF DbOK, BagOK
  <1>2. Rup(BagToSet(d.held), c)
    BY <1>1, RupIs DEF BagToSet
  <1>3. DbOK(Given(d, c)) /\ OneMore(Given(d, c).held, d.held, c)
    BY GivenIs
  <1>4. /\ DOMAIN Log(d, c) = DOMAIN Given(d, c) /\ Log(d, c).held = Given(d, c).held
        /\ Log(d, c).refused = (Given(d, c).refused \/ ~Rup(BagToSet(d.held), c))
    BY <1>3 DEF Log, DbOK
  <1> QED BY <1>2, <1>3, <1>4 DEF DbOK

\* Copies of clauses taken away.
Gone1(cs, doomed, S) == Cardinality({i \in doomed : LitsOf(cs[i]) = S})
LEMMA UnlogIs ==
  ASSUME NEW d, DbOK(d), NEW cs \in Seq(ClauseType), NEW doomed \in SUBSET DOMAIN cs
  PROVE  /\ DbOK(Unlog(d, Said(cs, doomed)))
         /\ \A S : Gone1(cs, doomed, S) \in Nat
         /\ \A S : Copies(Unlog(d, Said(cs, doomed)).held, S) >= Copies(d.held, S) - Gone1(cs, doomed, S)
         /\ \A S \in DOMAIN d.held : (\A i \in doomed : LitsOf(cs[i]) # S) =>
              S \in DOMAIN Unlog(d, Said(cs, doomed)).held
  <1> DEFINE h == d.held
             b == Said(cs, doomed)
             g == h (-) b
  <1>1. /\ DOMAIN Unlog(d, b) = {"held", "refused"} /\ Unlog(d, b).refused = d.refused
        /\ Unlog(d, b).held = g
    BY DEF Unlog, DbOK
  <1>2. IsFiniteSet(DOMAIN cs)
    <2>1. DOMAIN cs = 1 .. Len(cs) /\ Len(cs) \in Nat
      BY LenProperties
    <2> QED BY <2>1, FS_Interval
  <1>3. ASSUME NEW S PROVE Gone1(cs, doomed, S) \in Nat
    <2>1. {i \in doomed : LitsOf(cs[i]) = S} \in SUBSET DOMAIN cs
      OBVIOUS
    <2> QED BY <1>2, <2>1, FS_Subset, FS_CardinalityType DEF Gone1
  <1>4. DOMAIN b = {LitsOf(cs[i]) : i \in doomed} /\ \A S \in DOMAIN b : b[S] = Gone1(cs, doomed, S)
    BY DEF Said, Gone1
  <1> HIDE DEF b
  <1>5. /\ \A S : S \in DOMAIN g <=> S \in DOMAIN h /\ (IF S \in DOMAIN b THEN h[S] - b[S] ELSE h[S]) > 0
        /\ \A S \in DOMAIN g : g[S] = IF S \in DOMAIN b THEN h[S] - b[S] ELSE h[S]
    BY DEF (-)
  <1>6. \A S \in DOMAIN h : S \in SUBSET Lits /\ h[S] \in Nat /\ h[S] > 0
    BY DEF DbOK, BagOK
  <1> HIDE DEF g, h
  <1>7. \A S \in DOMAIN b : b[S] \in Nat
    BY <1>3, <1>4
  <1>8. BagOK(g)
    <2>1. ASSUME NEW S \in DOMAIN g PROVE S \in SUBSET Lits /\ g[S] \in Nat /\ g[S] > 0
      BY <1>5, <1>6, <1>7
    <2> QED BY <2>1 DEF BagOK
  <1>9. DbOK(Unlog(d, b))
    BY <1>1, <1>8 DEF DbOK
  <1>10. ASSUME NEW S PROVE Copies(g, S) >= Copies(h, S) - Gone1(cs, doomed, S)
    <2>1. CASE S \notin DOMAIN h
      BY <1>3, <1>5, <2>1 DEF Copies
    <2>2. CASE S \in DOMAIN h /\ S \in DOMAIN b
      BY <1>3, <1>4, <1>5, <1>6, <2>2 DEF Copies
    <2>3. CASE S \in DOMAIN h /\ S \notin DOMAIN b
      BY <1>3, <1>4, <1>5, <1>6, <2>3 DEF Copies
    <2> QED BY <2>1, <2>2, <2>3
  <1>11. ASSUME NEW S \in DOMAIN h, \A i \in doomed : LitsOf(cs[i]) # S PROVE S \in DOMAIN g
    <2>1. S \notin DOMAIN b
      BY <1>4, <1>11
    <2> QED BY <1>5, <1>6, <2>1
  <1> QED BY <1>1, <1>3, <1>9, <1>10, <1>11 DEF h, b

LEMMA StandingFinite ==
  ASSUME NEW cs \in Seq(ClauseType), NEW S
  PROVE  /\ IsFiniteSet(DOMAIN cs) /\ IsFiniteSet(Standing(cs, S)) /\ Number(cs, S) \in Nat
         /\ Number(cs, S) > 0 <=> \E id \in DOMAIN cs : ~cs[id].deleted /\ LitsOf(cs[id]) = S
  <1>1. DOMAIN cs = 1 .. Len(cs) /\ Len(cs) \in Nat
    BY LenProperties
  <1>2. IsFiniteSet(DOMAIN cs)
    BY <1>1, FS_Interval
  <1>3. Standing(cs, S) \in SUBSET DOMAIN cs
    BY DEF Standing
  <1>4. IsFiniteSet(Standing(cs, S))
    BY <1>2, <1>3, FS_Subset
  <1>5. Number(cs, S) \in Nat /\ (Number(cs, S) = 0 <=> Standing(cs, S) = {})
    BY <1>4, FS_CardinalityType, FS_EmptySet DEF Number
  <1>6. Standing(cs, S) # {} <=> \E id \in DOMAIN cs : ~cs[id].deleted /\ LitsOf(cs[id]) = S
    BY DEF Standing
  <1> QED BY <1>2, <1>4, <1>5, <1>6

\* A clause of the arena is one the checker holds.
LEMMA BacksClause ==
  ASSUME NEW h, BagOK(h), NEW cs, ClausesOK(cs), Backs(h, cs), NEW id \in DOMAIN cs, ~cs[id].deleted
  PROVE  LitsOf(cs[id]) \in DOMAIN h
  <1> DEFINE S == LitsOf(cs[id])
  <1>1. S \in SUBSET Lits /\ cs \in Seq(ClauseType)
    BY PairIn DEF ClausesOK
  <1>2. Number(cs, S) \in Nat /\ Number(cs, S) > 0
    BY <1>1, StandingFinite
  <1>3. Number(cs, S) <= Copies(h, S)
    BY <1>1 DEF Backs
  <1> HIDE DEF S
  <1>4. Copies(h, S) \in Nat /\ Copies(h, S) > 0
    BY <1>2, <1>3, CopiesIs
  <1> QED BY <1>4, CopiesIs DEF S

\* With a clause, a copy of it.
LEMMA BacksAttached ==
  ASSUME NEW h, BagOK(h), NEW cs, ClausesOK(cs), Backs(h, cs), NEW c, Proper(c),
         NEW g, OneMore(g, h, LitsOf(c)), NEW ds, Attached(ds, cs, c)
  PROVE  Backs(g, ds)
  <1> DEFINE id == Len(cs) + 1
  <1>1. /\ ds \in Seq(ClauseType) /\ Len(cs) \in Nat /\ DOMAIN cs = 1 .. Len(cs)
        /\ DOMAIN ds = DOMAIN cs \cup {id} /\ id \notin DOMAIN cs
        /\ ds[id] = c /\ \A j \in DOMAIN cs : ds[j] = cs[j]
    BY DEF Attached
  <1>2. cs \in Seq(ClauseType)
    BY DEF ClausesOK
  <1> HIDE DEF id
  <1>3. ASSUME NEW S \in SUBSET Lits PROVE Number(ds, S) <= Copies(g, S)
    <2>1. Number(cs, S) \in Nat /\ IsFiniteSet(Standing(cs, S)) /\ Number(cs, S) <= Copies(h, S)
      BY <1>2, StandingFinite DEF Backs
    <2>2. Copies(h, S) \in Nat
      BY CopiesIs
    <2>3. CASE S = LitsOf(c)
      <3>1. Standing(ds, S) \in SUBSET (Standing(cs, S) \cup {id})
        BY <1>1 DEF Standing
      <3>2. IsFiniteSet(Standing(cs, S) \cup {id}) /\ Cardinality(Standing(cs, S) \cup {id}) <= Number(cs, S) + 1
            /\ Cardinality(Standing(cs, S) \cup {id}) \in Nat
        <4>1. /\ IsFiniteSet(Standing(cs, S) \cup {id})
              /\ Cardinality(Standing(cs, S) \cup {id}) = IF id \in Standing(cs, S) THEN Number(cs, S) ELSE Number(cs, S) + 1
          BY <2>1, FS_AddElement DEF Number
        <4> QED BY <2>1, <4>1
      <3>3. Number(ds, S) <= Cardinality(Standing(cs, S) \cup {id}) /\ Number(ds, S) \in Nat
        BY <1>1, <3>1, <3>2, FS_Subset, StandingFinite DEF Number
      <3>4. Copies(g, S) = Copies(h, S) + 1
        BY <2>3 DEF OneMore
      <3> QED BY <2>1, <2>2, <3>2, <3>3, <3>4
    <2>4. CASE S # LitsOf(c)
      <3>1. Standing(ds, S) = Standing(cs, S)
        BY <1>1, <2>4 DEF Standing
      <3>2. Copies(g, S) = Copies(h, S)
        BY <2>4 DEF OneMore
      <3> QED BY <2>1, <3>1, <3>2 DEF Number
    <2> QED BY <2>3, <2>4
  <1> QED BY <1>3 DEF Backs

LEMMA BacksMore ==
  ASSUME NEW h, BagOK(h), NEW cs, Backs(h, cs), cs \in Seq(ClauseType), NEW c, NEW g, OneMore(g, h, c)
  PROVE  Backs(g, cs)
  <1>1. ASSUME NEW S \in SUBSET Lits PROVE Number(cs, S) <= Copies(g, S)
    <2>1. Number(cs, S) <= Copies(h, S) /\ Number(cs, S) \in Nat /\ Copies(h, S) \in Nat
      BY StandingFinite, CopiesIs DEF Backs
    <2>2. Copies(g, S) = Copies(h, S) \/ Copies(g, S) = Copies(h, S) + 1
      BY DEF OneMore
    <2> QED BY <2>1, <2>2
  <1> QED BY <1>1 DEF Backs

\* Propagation moves literals within clauses only.
LEMMA BacksAlike ==
  ASSUME NEW h, NEW cs, Backs(h, cs), NEW ds, DOMAIN ds = DOMAIN cs,
         \A id \in DOMAIN cs : LitsOf(ds[id]) = LitsOf(cs[id]) /\ ds[id].deleted = cs[id].deleted
  PROVE  Backs(h, ds)
  <1>1. ASSUME NEW S \in SUBSET Lits PROVE Number(ds, S) <= Copies(h, S)
    <2>1. Standing(ds, S) = Standing(cs, S)
      BY DEF Standing
    <2> QED BY <2>1 DEF Number, Backs
  <1> QED BY <1>1 DEF Backs

\* Clauses deleted go with their copies.
LEMMA MarkedNumber ==
  ASSUME NEW cs \in Seq(ClauseType), NEW doomed \in SUBSET Live(cs), NEW S
  PROVE  Number(Marked(cs, doomed), S) = Number(cs, S) - Gone1(cs, doomed, S)
  <1> DEFINE ds == Marked(cs, doomed)
             D == {i \in doomed : LitsOf(cs[i]) = S}
             A == Standing(cs, S)
  <1>1. DOMAIN ds = DOMAIN cs
    BY DEF Marked
  <1>2. ASSUME NEW i \in DOMAIN cs PROVE ds[i].deleted = (cs[i].deleted \/ i \in doomed) /\ LitsOf(ds[i]) = LitsOf(cs[i])
    <2>1. cs[i] \in ClauseType
      BY ElementOfSeq, LenProperties
    <2>2. ds[i] = [cs[i] EXCEPT !.deleted = @ \/ i \in doomed]
      BY DEF Marked
    <2>3. ds[i].deleted = (cs[i].deleted \/ i \in doomed) /\ ds[i].lits = cs[i].lits
      BY <2>1, <2>2 DEF ClauseType
    <2> QED BY <2>3 DEF LitsOf
  <1> HIDE DEF ds
  <1>3. Standing(ds, S) = A \ D
    BY <1>1, <1>2 DEF Standing
  <1>4. A \cap D = D
    BY DEF Standing, Live
  <1>5. IsFiniteSet(A)
    BY StandingFinite
  <1> HIDE DEF A, D
  <1>6. Cardinality(A \ D) = Cardinality(A) - Cardinality(D)
    BY <1>4, <1>5, FS_Difference
  <1> QED BY <1>3, <1>6 DEF A, D, Number, Gone1, ds

LEMMA UnlogBacks ==
  ASSUME NEW d, DbOK(d), NEW cs \in Seq(ClauseType), Backs(d.held, cs), NEW doomed \in SUBSET Live(cs)
  PROVE  Backs(Unlog(d, Said(cs, doomed)).held, Marked(cs, doomed))
  <1> DEFINE g == Unlog(d, Said(cs, doomed)).held
  <1>1. ASSUME NEW S \in SUBSET Lits PROVE Number(Marked(cs, doomed), S) <= Copies(g, S)
    <2>1. doomed \in SUBSET DOMAIN cs
      BY DEF Live
    <2>2. DbOK(Unlog(d, Said(cs, doomed))) /\ Gone1(cs, doomed, S) \in Nat /\ Copies(g, S) >= Copies(d.held, S) - Gone1(cs, doomed, S)
      BY <2>1, UnlogIs
    <2>3. Number(Marked(cs, doomed), S) = Number(cs, S) - Gone1(cs, doomed, S)
      BY MarkedNumber
    <2>4. Number(cs, S) <= Copies(d.held, S) /\ Number(cs, S) \in Nat
      BY StandingFinite DEF Backs
    <2>5. Copies(d.held, S) \in Nat /\ Copies(g, S) \in Nat
      BY <2>2, CopiesIs DEF DbOK
    <2> HIDE DEF g
    <2> QED BY <2>2, <2>3, <2>4, <2>5
  <1> QED BY <1>1 DEF Backs

\* Renumbering keeps each clause once.
LEMMA CompactNumber ==
  ASSUME NEW cs \in Seq(ClauseType), NEW ds, Compact(ds, cs), NEW S
  PROVE  Number(ds, S) <= Number(cs, S)
  <1> DEFINE A == Standing(cs, S)
             B == Standing(ds, S)
             From(j) == CHOOSE id \in Live(cs) : NewId(cs, id) = j
             f == [j \in B |-> From(j)]
  <1>1. ASSUME NEW j \in B PROVE From(j) \in A /\ NewId(cs, From(j)) = j
    <2>1. j \in DOMAIN ds /\ LitsOf(ds[j]) = S
      BY DEF Standing
    <2>2. \E id \in Live(cs) : NewId(cs, id) = j
      BY <2>1 DEF Compact
    <2>3. From(j) \in Live(cs) /\ NewId(cs, From(j)) = j
      BY <2>2
    <2>4. ds[j] = cs[From(j)]
      BY <2>3 DEF Compact
    <2> HIDE DEF From
    <2>5. From(j) \in A
      BY <2>1, <2>3, <2>4 DEF Standing, Live
    <2> QED BY <2>3, <2>5
  <1>2. f \in Injection(B, A)
    <2> HIDE DEF From, A, B
    <2>1. f \in [B -> A]
      BY <1>1
    <2>2. \A a, b \in B : f[a] = f[b] => a = b
      <3>1. ASSUME NEW a \in B, NEW b \in B, f[a] = f[b] PROVE a = b
        <4>1. From(a) = From(b)
          BY <3>1
        <4>2. NewId(cs, From(a)) = a /\ NewId(cs, From(b)) = b
          BY <1>1
        <4> QED BY <4>1, <4>2
      <3> QED BY <3>1
    <2> QED BY <2>1, <2>2 DEF Injection, IsInjective
  <1>3. IsFiniteSet(A)
    BY StandingFinite
  <1> HIDE DEF f, A, B, From
  <1>4. Cardinality(B) <= Cardinality(A)
    BY <1>2, <1>3, FS_Injection
  <1> QED BY <1>4 DEF A, B, Number

LEMMA BacksCompact ==
  ASSUME NEW h, BagOK(h), NEW cs \in Seq(ClauseType), Backs(h, cs), NEW ds, Compact(ds, cs)
  PROVE  Backs(h, ds)
  <1>1. ds \in Seq(ClauseType)
    BY DEF Compact
  <1>2. ASSUME NEW S \in SUBSET Lits PROVE Number(ds, S) <= Copies(h, S)
    <2>1. Number(ds, S) <= Number(cs, S) /\ Number(ds, S) \in Nat /\ Number(cs, S) \in Nat
      BY <1>1, CompactNumber, StandingFinite
    <2>2. Number(cs, S) <= Copies(h, S) /\ Copies(h, S) \in Nat
      BY CopiesIs DEF Backs
    <2> QED BY <2>1, <2>2
  <1> QED BY <1>2 DEF Backs

-----------------------------------------------------------------------------
(* What follows by propagation from what the checker holds. *)

\* The checker holds the assignments of the top level that have no reason.
UnitsHeld(h, tr, lm) ==
  \A i \in DOMAIN tr : TopLevel(lm, i) /\ tr[i].reason = None => {tr[i].lit} \in DOMAIN h
\* What it must hold of the solver's state.
Vouches(h, cs, tr, lm) == BagOK(h) /\ Backs(h, cs) /\ UnitsHeld(h, tr, lm)

\* An assignment follows from those without a reason before it.
LEMMA TrailSpreads ==
  ASSUME NEW cs, ClausesOK(cs), NEW tr, NEW lm, TrailOK(tr, lm), ReasonsOK(cs, tr),
         NEW h, BagOK(h), Backs(h, cs), NEW T, T \in SUBSET Lits, Spread(DOMAIN h, T), NEW n,
         \A i \in DOMAIN tr : i <= n /\ tr[i].reason = None => tr[i].lit \in T, n \in Nat
  PROVE  \A i \in DOMAIN tr : i <= n => tr[i].lit \in T
  <1> DEFINE Bad == {i \in DOMAIN tr : i <= n /\ tr[i].lit \notin T}
  <1>1. DOMAIN tr = 1 .. Len(tr) /\ Len(tr) \in Nat /\ \A i \in DOMAIN tr : tr[i].lit \in Lits
    <2>1. tr \in Seq(StepType)
      BY DEF TrailOK
    <2>2. \A i \in DOMAIN tr : tr[i] \in StepType
      BY <2>1, ElementOfSeq, LenProperties
    <2> QED BY <2>1, <2>2, LenProperties DEF StepType
  <1> SUFFICES ASSUME Bad # {} PROVE FALSE
    OBVIOUS
  <1>2. PICK i \in Bad : \A j \in Bad : i <= j
    <2>1. Bad \in SUBSET Nat
      BY <1>1
    <2> HIDE DEF Bad
    <2> QED BY <2>1, LeastNat
  <1>3. i \in DOMAIN tr /\ i <= n /\ tr[i].lit \notin T /\ i \in Nat
    BY <1>1, <1>2
  <1>4. tr[i].reason # None
    BY <1>3
  <1>5. Because(cs, tr, i)
    BY <1>3, <1>4 DEF ReasonsOK
  <1> DEFINE S == LitsOf(cs[tr[i].reason])
  <1>6. tr[i].reason \in DOMAIN cs /\ ~cs[tr[i].reason].deleted /\ tr[i].lit \in S
        /\ \A q \in S : q = tr[i].lit \/ \E k \in 1 .. i - 1 : q = -tr[k].lit
    BY <1>5 DEF Because
  <1>7. S \in DOMAIN h
    BY <1>6, BacksClause
  <1> HIDE DEF S
  <1>8. ASSUME NEW q \in S, q # tr[i].lit PROVE -q \in T
    <2>1. PICK k \in 1 .. i - 1 : q = -tr[k].lit
      BY <1>6, <1>8
    <2>2. k \in DOMAIN tr /\ k <= n /\ ~(i <= k)
      BY <1>1, <1>3
    <2>3. tr[k].lit \in T
      BY <1>2, <2>2
    <2>4. -q = tr[k].lit
      BY <1>1, <2>1, <2>2, LitFacts
    <2> QED BY <2>3, <2>4
  <1>9. tr[i].lit \in T
    BY <1>6, <1>7, <1>8 DEF Spread
  <1> QED BY <1>3, <1>9

LEMMA UnitSpreads ==
  ASSUME NEW hs, NEW T, Spread(hs, T), NEW l, {l} \in hs
  PROVE  l \in T
  BY DEF Spread

LEMMA TopSpreads ==
  ASSUME NEW cs, ClausesOK(cs), NEW tr, NEW lm, TrailOK(tr, lm), ReasonsOK(cs, tr),
         NEW h, Vouches(h, cs, tr, lm), NEW T, T \in SUBSET Lits, Spread(DOMAIN h, T),
         NEW i, i \in DOMAIN tr, TopLevel(lm, i)
  PROVE  tr[i].lit \in T
  <1>1. i \in Nat
    BY LenProperties DEF TrailOK
  <1>2. ASSUME NEW j \in DOMAIN tr, j <= i, tr[j].reason = None PROVE tr[j].lit \in T
    <2>1. TopLevel(lm, j)
      <3>1. j \in Nat /\ \A k \in DOMAIN lm : lm[k] \in Nat
        BY LenProperties, ElementOfSeq DEF TrailOK
      <3> QED BY <1>1, <1>2, <3>1 DEF TopLevel
    <2>2. {tr[j].lit} \in DOMAIN h
      BY <1>2, <2>1 DEF Vouches, UnitsHeld
    <2> QED BY <2>2, UnitSpreads
  <1>3. \A j \in DOMAIN tr : j <= i => tr[j].lit \in T
    BY <1>1, <1>2, TrailSpreads DEF Vouches
  <1> QED BY <1>1, <1>3

\* A clause held whose literals are all false clashes with one of them.
LEMMA AllFalse ==
  ASSUME NEW hs, NEW T, Spread(hs, T), NEW c \in SUBSET Lits, c \in hs, c # {}, \A q \in c : -q \in T
  PROVE  Tautology(T)
  <1>1. PICK l \in c : TRUE
    OBVIOUS
  <1>2. l \in T /\ -l \in T
    BY <1>1 DEF Spread
  <1> QED BY <1>2 DEF Tautology

LEMMA ClashTautology ==
  ASSUME NEW hs, NEW c \in SUBSET Lits, Tautology(c)
  PROVE  Clashes(hs, c)
  <1>1. ASSUME NEW T \in SUBSET Lits, \A l \in c : -l \in T PROVE Tautology(T)
    <2>1. PICK l \in c : -l \in c
      BY DEF Tautology
    <2>2. -l \in T /\ -(-l) \in T
      BY <1>1, <2>1
    <2> QED BY <2>2 DEF Tautology
  <1> QED BY <1>1 DEF Clashes

\* A clause with a literal true at the top level follows.
LEMMA ClashTrue ==
  ASSUME NEW cs, ClausesOK(cs), NEW tr, NEW lm, TrailOK(tr, lm), ReasonsOK(cs, tr),
         NEW h, Vouches(h, cs, tr, lm), NEW c \in SUBSET Lits,
         NEW i, i \in DOMAIN tr, TopLevel(lm, i), tr[i].lit \in c
  PROVE  Clashes(DOMAIN h, c)
  <1>1. ASSUME NEW T \in SUBSET Lits, \A l \in c : -l \in T, Spread(DOMAIN h, T) PROVE Tautology(T)
    <2>1. tr[i].lit \in T
      BY <1>1, TopSpreads
    <2>2. -tr[i].lit \in T
      BY <1>1
    <2> QED BY <2>1, <2>2 DEF Tautology
  <1> QED BY <1>1 DEF Clashes

\* A conflict shows that a clause follows, if what was assigned without a reason is known
\* or negates one of its literals.
Supposed(c, tr, lm) ==
  \A i \in DOMAIN tr : tr[i].reason = None => TopLevel(lm, i) \/ -tr[i].lit \in c
LEMMA ClashConflict ==
  ASSUME NEW cs, ClausesOK(cs), NEW tr, NEW lm, TrailOK(tr, lm), ReasonsOK(cs, tr),
         NEW h, Vouches(h, cs, tr, lm), NEW c \in SUBSET Lits, Supposed(c, tr, lm),
         NEW cf, ConflictOK(cs, tr, lm, cf), cf # None
  PROVE  Clashes(DOMAIN h, c)
  <1>0. /\ Len(tr) \in Nat /\ DOMAIN tr = 1 .. Len(tr) /\ \A i \in DOMAIN tr : tr[i].lit \in Lits
    <2>1. tr \in Seq(StepType)
      BY DEF TrailOK
    <2>2. \A i \in DOMAIN tr : tr[i] \in StepType
      BY <2>1, ElementOfSeq, LenProperties
    <2> QED BY <2>1, <2>2, LenProperties DEF StepType
  <1> DEFINE S == LitsOf(cs[cf])
  <1>1. cf \in DOMAIN cs /\ ~cs[cf].deleted /\ \A x \in S : \E k \in DOMAIN tr : x = -tr[k].lit
    BY DEF ConflictOK
  <1>2. S \in DOMAIN h /\ S \in SUBSET Lits /\ S # {}
    <2>1. Proper(cs[cf])
      BY <1>1 DEF ClausesOK
    <2>2. Pair(cs[cf]) \subseteq S /\ S \subseteq Lits
      BY <2>1, PairIn
    <2>3. S \in DOMAIN h
      BY <1>1, BacksClause DEF Vouches
    <2> QED BY <2>2, <2>3 DEF Pair
  <1> HIDE DEF S
  <1>3. ASSUME NEW T \in SUBSET Lits, \A l \in c : -l \in T, Spread(DOMAIN h, T) PROVE Tautology(T)
    <2>1. ASSUME NEW i \in DOMAIN tr, tr[i].reason = None PROVE tr[i].lit \in T
      <3>1. CASE TopLevel(lm, i)
        BY <1>3, <3>1, TopSpreads
      <3>2. CASE -tr[i].lit \in c
        <4>1. -(-tr[i].lit) \in T
          BY <1>3, <3>2
        <4> QED BY <4>1, <1>0, LitFacts
      <3> QED BY <2>1, <3>1, <3>2 DEF Supposed
    <2>2. \A i \in DOMAIN tr : i <= Len(tr) => tr[i].lit \in T
      BY <1>0, <1>3, <2>1, TrailSpreads DEF Vouches
    <2>3. ASSUME NEW q \in S PROVE -q \in T
      <3>1. PICK k \in DOMAIN tr : q = -tr[k].lit
        BY <1>1
      <3>2. tr[k].lit \in T /\ -q = tr[k].lit
        BY <1>0, <2>2, <3>1, LitFacts
      <3> QED BY <3>2
    <2> QED BY <1>2, <1>3, <2>3, AllFalse
  <1> QED BY <1>3 DEF Clashes

\* What is left of a clause without the literals false at the top level.
LEMMA ClashDrop ==
  ASSUME NEW cs, ClausesOK(cs), NEW tr, TrailOK(tr, <<>>), ReasonsOK(cs, tr),
         NEW h, Vouches(h, cs, tr, <<>>), NEW c \in SUBSET Lits, c \in DOMAIN h, c # c \ False(tr)
  PROVE  Clashes(DOMAIN h, c \ False(tr))
  <1>0. tr \in Seq(StepType) /\ DOMAIN tr = 1 .. Len(tr) /\ \A i \in DOMAIN tr : tr[i].lit \in Lits
    <2>1. tr \in Seq(StepType)
      BY DEF TrailOK
    <2>2. \A i \in DOMAIN tr : tr[i] \in StepType
      BY <2>1, ElementOfSeq, LenProperties
    <2> QED BY <2>1, <2>2, LenProperties DEF StepType
  <1>1. ASSUME NEW T \in SUBSET Lits, \A l \in c \ False(tr) : -l \in T, Spread(DOMAIN h, T) PROVE Tautology(T)
    <2>1. ASSUME NEW q \in c PROVE -q \in T
      <3>1. CASE q \in False(tr)
        <4>1. PICK k \in DOMAIN tr : q = -tr[k].lit
          BY <3>1 DEF False
        <4>2. tr[k].lit \in T
          BY <1>1, TopOfEmpty, TopSpreads
        <4> QED BY <1>0, <4>1, <4>2, LitFacts
      <3> QED BY <1>1, <3>1
    <2> QED BY <1>1, <2>1, AllFalse
  <1> QED BY <1>1 DEF Clashes

-----------------------------------------------------------------------------
(* The proof checks, step by step. *)

Checked(d, un, cs, tr, lm) ==
  /\ DOMAIN d = {"held", "refused"} /\ ~d.refused
  /\ ~un => Vouches(d.held, cs, tr, lm)
ProofInv ==
  /\ Checked(db, unsat, clauses, trail, lims)
  /\ task = "probe" => Supposed(lemma, trail, lims)

LEMMA CheckedIs ==
  ASSUME NEW d, NEW cs, NEW tr, NEW lm, Checked(d, FALSE, cs, tr, lm)
  PROVE  DbOK(d) /\ Vouches(d.held, cs, tr, lm)
  BY DEF Checked, DbOK, Vouches
LEMMA CheckedBy ==
  ASSUME NEW d, DbOK(d), NEW un, NEW cs, NEW tr, NEW lm, ~un => Vouches(d.held, cs, tr, lm)
  PROVE  Checked(d, un, cs, tr, lm)
  BY DEF Checked, DbOK

LEMMA VouchesBack ==
  ASSUME NEW h, NEW cs, NEW tr, NEW lm, TrailOK(tr, lm), Vouches(h, cs, tr, lm),
         NEW q, NEW t, NEW m, NEW k, Backed(t, m, k, tr, lm, q)
  PROVE  Vouches(h, cs, t, m)
  <1>1. \A i \in DOMAIN t : i \in DOMAIN tr /\ t[i] = tr[i] /\ (TopLevel(m, i) => TopLevel(lm, i))
    BY BackTop
  <1>2. UnitsHeld(h, t, m)
    BY <1>1 DEF Vouches, UnitsHeld
  <1> QED BY <1>2 DEF Vouches

LEMMA VouchesMore ==
  ASSUME NEW h, NEW cs, cs \in Seq(ClauseType), NEW tr, NEW lm, Vouches(h, cs, tr, lm),
         NEW c, NEW g, OneMore(g, h, c)
  PROVE  Vouches(g, cs, tr, lm)
  <1>1. BagOK(g) /\ DOMAIN g = DOMAIN h \cup {c}
    BY DEF OneMore
  <1>2. Backs(g, cs)
    BY BacksMore DEF Vouches
  <1>3. UnitsHeld(g, tr, lm)
    BY <1>1 DEF UnitsHeld, Vouches
  <1> QED BY <1>1, <1>2, <1>3 DEF Vouches

\* A clause logged and attached.
LEMMA VouchesAttached ==
  ASSUME NEW h, NEW cs, ClausesOK(cs), NEW tr, NEW lm, Vouches(h, cs, tr, lm),
         NEW c, Proper(c), NEW g, OneMore(g, h, LitsOf(c)), NEW ds, Attached(ds, cs, c)
  PROVE  Vouches(g, ds, tr, lm)
  <1>1. BagOK(g) /\ DOMAIN g = DOMAIN h \cup {LitsOf(c)}
    BY DEF OneMore
  <1>2. Backs(g, ds)
    BY BacksAttached DEF Vouches
  <1>3. UnitsHeld(g, tr, lm)
    BY <1>1 DEF UnitsHeld, Vouches
  <1> QED BY <1>1, <1>2, <1>3 DEF Vouches

\* An assignment that has a reason, or is logged, or is a decision.
LEMMA VouchesAssigned ==
  ASSUME NEW h, NEW cs, NEW tr, NEW lm, TrailOK(tr, lm), Vouches(h, cs, tr, lm),
         NEW l \in Lits, NEW r \in Nat, Var(l) \notin Assigned(tr),
         r # None \/ {l} \in DOMAIN h \/ ~TopLevel(lm, Len(tr) + 1)
  PROVE  Vouches(h, cs, Assign(tr, l, r), lm)
  <1> DEFINE u == Assign(tr, l, r)
  <1>1. /\ Longer(u, tr) /\ Len(u) = Len(tr) + 1
        /\ u[Len(tr) + 1].lit = l /\ u[Len(tr) + 1].reason = r
    BY AssignIs
  <1>2. /\ Len(u) \in Nat /\ DOMAIN u = 1 .. Len(u) /\ Len(tr) \in Nat /\ DOMAIN tr = 1 .. Len(tr)
        /\ \A i \in DOMAIN tr : i \in DOMAIN u /\ u[i] = tr[i]
    BY <1>1, LongerFacts
  <1>3. \A i \in DOMAIN u : i \in DOMAIN tr \/ i = Len(tr) + 1
    BY <1>1, <1>2
  <1> HIDE DEF u
  <1>4. UnitsHeld(h, u, lm)
    <2>1. ASSUME NEW i \in DOMAIN u, TopLevel(lm, i), u[i].reason = None PROVE {u[i].lit} \in DOMAIN h
      <3>1. CASE i \in DOMAIN tr
        BY <1>2, <2>1, <3>1 DEF Vouches, UnitsHeld
      <3>2. CASE i = Len(tr) + 1
        BY <1>1, <2>1, <3>2
      <3> QED BY <1>3, <3>1, <3>2
    <2> QED BY <2>1 DEF UnitsHeld
  <1>5. Vouches(h, cs, u, lm)
    BY <1>4 DEF Vouches
  <1> QED BY <1>5 DEF u

\* At the top level, with the trail cut back to it.
LEMMA TopState ==
  ASSUME Inv, visiting = <<>>, lims = <<>> => conflict = None
  PROVE  /\ LimsAt(0) = <<>> /\ ClausesOK(clauses) /\ clauses \in Seq(ClauseType)
         /\ TrailOK(TrailAt(0), <<>>) /\ ReasonsOK(clauses, TrailAt(0)) /\ TrailAt(0) \in Seq(StepType)
         /\ \A h : Vouches(h, clauses, trail, lims) => Vouches(h, clauses, TrailAt(0), <<>>)
  <1>1. TrailOK(trail, lims) /\ lims \in Seq(Nat)
    BY DEF Inv, Structure, TrailOK
  <1>2. Len(lims) <= 0 => conflict = None
    BY <1>1, EmptyLims
  <1>3. /\ Structure(clauses, watches, TrailAt(0), LimsAt(0), QheadAt(0), <<>>, None)
        /\ Backed(TrailAt(0), LimsAt(0), QheadAt(0), trail, lims, qhead) /\ Len(LimsAt(0)) <= 0
    BY <1>2, BackInv
  <1>4. LimsAt(0) = <<>>
    <2>1. LimsAt(0) \in Seq(Nat)
      BY <1>3 DEF Backed
    <2> QED BY <2>1, <1>3, EmptyLims
  <1>5. /\ ClausesOK(clauses) /\ TrailOK(TrailAt(0), LimsAt(0)) /\ ReasonsOK(clauses, TrailAt(0))
    BY <1>3 DEF Structure
  <1>6. \A h : Vouches(h, clauses, trail, lims) => Vouches(h, clauses, TrailAt(0), LimsAt(0))
    BY <1>1, <1>3, VouchesBack
  <1>7. clauses \in Seq(ClauseType) /\ TrailAt(0) \in Seq(StepType)
    BY <1>5 DEF ClausesOK, TrailOK
  <1> QED BY <1>4, <1>5, <1>6, <1>7

\* A clause that comes in, with what was held before (h) and the clause.
LEMMA IncomingChecked ==
  ASSUME Inv, visiting = <<>>, ~unsat, lims = <<>> => conflict = None,
         NEW c \in SUBSET Lits, NEW hint, NEW learnt \in BOOLEAN, NEW d, Incoming(c, hint, learnt, d),
         NEW h, Vouches(h, clauses, trail, lims), DbOK(d), OneMore(d.held, h, c)
  PROVE  Checked(db', unsat', clauses', trail', lims') /\ task' # "probe"
  <1> DEFINE t == TrailAt(0)
             kept == c \ False(t)
             logged == IF kept # c THEN Log(d, kept) ELSE d
  <1>1. /\ LimsAt(0) = <<>> /\ ClausesOK(clauses) /\ clauses \in Seq(ClauseType)
        /\ TrailOK(t, <<>>) /\ ReasonsOK(clauses, t) /\ t \in Seq(StepType)
        /\ Vouches(h, clauses, t, <<>>)
    BY TopState
  <1>2. lims' = <<>>
    BY <1>1 DEF Incoming
  <1>3. \/ /\ Tautology(c) \/ c \cap True(t) # {}
           /\ trail' = t /\ unsat' = FALSE /\ task' = "idle" /\ clauses' = clauses /\ db' = d
        \/ /\ kept = {} /\ trail' = t /\ unsat' = TRUE /\ task' = "idle" /\ clauses' = clauses /\ db' = logged
        \/ /\ ~Tautology(c) /\ c \cap True(t) = {} /\ db' = logged
           /\ Cardinality(kept) = 1 /\ \E l \in kept : trail' = Assign(t, l, None)
           /\ unsat' = FALSE /\ task' = "unit" /\ clauses' = clauses
        \/ /\ ~Tautology(c) /\ c \cap True(t) = {} /\ Cardinality(kept) > 1 /\ db' = logged
           /\ clauses' = Append(clauses, Clause(Watched(kept, hint), learnt, TRUE))
           /\ trail' = t /\ unsat' = FALSE /\ task' = "idle"
    BY DEF Incoming
  <1>4. task' # "probe"
    BY <1>3
  <1>5. kept \in SUBSET Lits
    OBVIOUS
  <1> HIDE DEF t
  <1>6. Vouches(d.held, clauses, t, <<>>)
    BY <1>1, VouchesMore
  <1>7. DbOK(logged) /\ (OneMore(logged.held, h, kept) \/ OneMore(logged.held, d.held, kept))
    <2>1. CASE kept = c
      BY <2>1
    <2>2. CASE kept # c
      <3>1. c \in DOMAIN d.held
        BY DEF OneMore
      <3>2. Clashes(DOMAIN d.held, kept)
        BY <1>1, <1>6, <2>2, <3>1, ClashDrop
      <3>3. DbOK(Log(d, kept)) /\ OneMore(Log(d, kept).held, d.held, kept)
        BY <1>5, <3>2, LogIs
      <3> QED BY <2>2, <3>3
    <2> QED BY <2>1, <2>2
  <1>8. PICK g : Vouches(g, clauses, t, <<>>) /\ OneMore(logged.held, g, kept)
    BY <1>1, <1>6, <1>7
  <1> HIDE DEF logged
  <1>10. Vouches(logged.held, clauses, t, <<>>) /\ kept \in DOMAIN logged.held
    <2>1. Vouches(logged.held, clauses, t, <<>>)
      BY <1>1, <1>8, VouchesMore
    <2>2. kept \in DOMAIN logged.held
      BY <1>8 DEF OneMore
    <2> QED BY <2>1, <2>2
  <1>11. CASE trail' = t /\ unsat' = FALSE /\ clauses' = clauses /\ db' = d
    <2>1. Checked(d, FALSE, clauses, t, <<>>)
      BY <1>6, CheckedBy
    <2> QED BY <1>2, <1>4, <1>11, <2>1
  <1>12. CASE unsat' = TRUE /\ db' = logged
    <2>1. Checked(logged, TRUE, clauses', trail', lims')
      BY <1>7, CheckedBy
    <2> QED BY <1>4, <1>12, <2>1
  <1>13. CASE /\ ~Tautology(c) /\ c \cap True(t) = {} /\ db' = logged
              /\ Cardinality(kept) = 1 /\ \E l \in kept : trail' = Assign(t, l, None)
              /\ unsat' = FALSE /\ clauses' = clauses
    <2>1. PICK l \in kept : trail' = Assign(t, l, None)
      BY <1>13
    <2>2. l \in Lits /\ l \notin False(t) /\ l \notin True(t)
      BY <1>13
    <2>3. Var(l) \notin Assigned(t)
      BY <1>1, <2>2, VarFree
    <2>4. kept = {l}
      <3>1. IsFiniteSet(kept)
        BY <1>5, LitsFinite
      <3>2. PICK x : kept = {x}
        BY <3>1, <1>13, FS_Singleton
      <3> QED BY <3>2, <2>1
    <2>5. {l} \in DOMAIN logged.held
      BY <1>10, <2>4
    <2>6. None \in Nat
      BY DEF None
    <2> HIDE DEF kept
    <2>7. Vouches(logged.held, clauses, Assign(t, l, None), <<>>)
      BY <1>1, <1>10, <2>2, <2>3, <2>5, <2>6, VouchesAssigned
    <2>8. Checked(logged, FALSE, clauses, Assign(t, l, None), <<>>)
      BY <1>7, <2>7, CheckedBy
    <2>9. unsat' = FALSE /\ clauses' = clauses /\ db' = logged
      BY <1>13
    <2> QED BY <1>2, <1>4, <2>1, <2>8, <2>9
  <1>14. CASE /\ ~Tautology(c) /\ c \cap True(t) = {} /\ Cardinality(kept) > 1 /\ db' = logged
              /\ clauses' = Append(clauses, Clause(Watched(kept, hint), learnt, TRUE))
              /\ trail' = t /\ unsat' = FALSE
    <2> DEFINE n == Clause(Watched(kept, hint), learnt, TRUE)
               ds == Append(clauses, n)
    <2>1. ~Tautology(kept)
      BY <1>14 DEF Tautology
    <2>2. /\ Watched(kept, hint) \in Seq(Lits) /\ Len(Watched(kept, hint)) >= 2 /\ Distinct(Watched(kept, hint))
          /\ Elements(Watched(kept, hint)) = kept
      <3>1. /\ Watched(kept, hint) \in Seq(Lits) /\ Len(Watched(kept, hint)) = Cardinality(kept)
            /\ Elements(Watched(kept, hint)) = kept /\ Distinct(Watched(kept, hint))
        BY <1>5, <2>1, WatchedIs
      <3>2. Len(Watched(kept, hint)) \in Nat
        BY <3>1, LenProperties
      <3>3. Len(Watched(kept, hint)) > 1
        BY <3>1, <1>14, Zenon
      <3>4. Len(Watched(kept, hint)) >= 2
        BY <3>2, <3>3
      <3> QED BY <3>1, <3>4
    <2>3. Proper(n) /\ LitsOf(n) = kept
      BY <2>2, ClauseIs
    <2> HIDE DEF n
    <2>4. Attached(ds, clauses, n)
      BY <1>1, <2>3, AttachIs
    <2> HIDE DEF ds
    <2>5. OneMore(logged.held, g, LitsOf(n))
      BY <1>8, <2>3
    <2> HIDE DEF kept
    <2>6. Vouches(logged.held, ds, t, <<>>)
      BY <1>1, <1>8, <2>3, <2>4, <2>5, VouchesAttached
    <2>7. clauses' = ds /\ trail' = t /\ db' = logged /\ unsat' = FALSE
      BY <1>14 DEF ds, n
    <2>8. Checked(logged, FALSE, ds, t, <<>>)
      BY <1>7, <2>6, CheckedBy
    <2> QED BY <1>2, <1>4, <2>7, <2>8
  <1> QED BY <1>3, <1>4, <1>11, <1>12, <1>13, <1>14

LEMMA ProofNow ==
  ASSUME ProofInv, ~unsat
  PROVE  DbOK(db) /\ Vouches(db.held, clauses, trail, lims)
  BY DEF ProofInv, Checked, DbOK, Vouches

\* The trail as it was, but for assignments that have a reason.
OnlyReasoned(u, tr) == \A i \in DOMAIN u : u[i].reason # None \/ (i \in DOMAIN tr /\ u[i] = tr[i])
LEMMA OnlyReasonedIs ==
  ASSUME NEW u, NEW tr, OnlyReasoned(u, tr), NEW lm
  PROVE  /\ \A h : UnitsHeld(h, tr, lm) => UnitsHeld(h, u, lm)
         /\ \A c : Supposed(c, tr, lm) => Supposed(c, u, lm)
  BY DEF OnlyReasoned, UnitsHeld, Supposed

\* What a look at a watch does to the clauses.
LEMMA LookAlike ==
  ASSUME Inv, Look
  PROVE  /\ DOMAIN clauses' = DOMAIN clauses
         /\ \A j \in DOMAIN clauses : LitsOf(clauses'[j]) = LitsOf(clauses[j]) /\ clauses'[j].deleted = clauses[j].deleted
  <1> DEFINE w == Head(visiting)
             id == w.clause
             c == clauses[w.clause]
  <1>1. visiting # <<>> /\ (Blocked(w) \/ Gone(w, c) \/ Binary(w, c) \/ LongClause(w, c))
    BY DEF Look
  <1>2. Good(clauses, watches, trail, qhead, visiting, None)
    BY <1>1, GoodNow
  <1>3. ClausesOK(clauses) /\ VisitOK(clauses, watches, Propagated, visiting)
    BY <1>2 DEF Good, Structure, Propagated
  <1>4. Fits(clauses, Propagated, w)
    BY <1>1, <1>3, VisitParts DEF VisitOK
  <1>5. id \in DOMAIN clauses /\ (~c.deleted => -Propagated \in Pair(c))
    BY <1>4 DEF Fits
  <1>6. Proper(c)
    BY <1>3, <1>5 DEF ClausesOK
  <1> HIDE DEF w
  <1>7. CASE Blocked(w) \/ Gone(w, c) \/ Binary(w, c)
    BY <1>7 DEF Blocked, Gone, Binary
  <1>8. CASE LongClause(w, c)
    <2> DEFINE ls == Swapped(c.lits)
    <2>1. /\ ~c.deleted
          /\ \E t : (t = ls \/ (Watchable(ls) # {} /\ t = Swap(ls, 2, Min(Watchable(ls)))))
                    /\ clauses' = [clauses EXCEPT ![id].lits = t]
      BY <1>8 DEF LongClause
    <2>2. /\ Reordered(ls, c.lits, Lits) /\ ls \in Seq(Lits) /\ DOMAIN ls = 1 .. Len(ls) /\ Len(ls) \in Nat
      BY <2>1, <1>5, <1>6, SwappedIs
    <2>3. PICK t : (t = ls \/ (Watchable(ls) # {} /\ t = Swap(ls, 2, Min(Watchable(ls)))))
                   /\ clauses' = [clauses EXCEPT ![id].lits = t]
      BY <2>1
    <2>4. Reordered(t, c.lits, Lits)
      <3>1. CASE t = ls
        BY <2>2, <3>1
      <3>2. CASE Watchable(ls) # {} /\ t = Swap(ls, 2, Min(Watchable(ls)))
        <4> HIDE DEF ls
        <4>1. Watchable(ls) \in SUBSET Nat /\ Watchable(ls) \in SUBSET (3 .. Len(ls))
          BY <2>2 DEF Watchable
        <4>2. Min(Watchable(ls)) \in Watchable(ls)
          BY <4>1, <3>2, MinIs
        <4>3. 2 \in DOMAIN ls /\ Min(Watchable(ls)) \in DOMAIN ls
          BY <4>1, <4>2, <2>2
        <4>4. Reordered(t, ls, Lits)
          BY <2>2, <3>2, <4>3, SwapIs
        <4> QED BY <2>2, <4>4 DEF Reordered
      <3> QED BY <2>3, <3>1, <3>2
    <2>5. Relit(clauses', clauses, id, t)
      BY <2>3 DEF Relit
    <2> HIDE DEF ls, id
    <2>6. PICK ds : ds = clauses'
      OBVIOUS
    <2>7. Alike(ds, clauses, id)
      <3>1. Relit(ds, clauses, id, t) /\ Reordered(t, clauses[id].lits, Lits)
        BY <2>4, <2>5, <2>6 DEF id
      <3> QED BY <3>1, <1>3, <1>5, AlikeIs
    <2> QED BY <2>6, <2>7 DEF Alike
  <1> QED BY <1>1, <1>7, <1>8

LEMMA LookTrail ==
  ASSUME Inv, Look
  PROVE  OnlyReasoned(trail', trail)
  <1> DEFINE w == Head(visiting)
             c == clauses[w.clause]
  <1>1. visiting # <<>> /\ (Blocked(w) \/ Gone(w, c) \/ Binary(w, c) \/ LongClause(w, c))
    BY DEF Look
  <1>2. Good(clauses, watches, trail, qhead, visiting, None)
    BY <1>1, GoodNow
  <1>3. ClausesOK(clauses) /\ VisitOK(clauses, watches, Propagated, visiting) /\ trail \in Seq(StepType)
    BY <1>2 DEF Good, Structure, Propagated, TrailOK
  <1>4. Fits(clauses, Propagated, w)
    BY <1>1, <1>3, VisitParts DEF VisitOK
  <1>5. w.clause # None
    <2>1. w.clause \in DOMAIN clauses /\ DOMAIN clauses = 1 .. Len(clauses)
      BY <1>3, <1>4, LenProperties DEF Fits, ClausesOK
    <2> QED BY <2>1 DEF None
  <1> HIDE DEF w
  <1>6. \/ trail' = trail
        \/ \E l : trail' = Assign(trail, l, w.clause)
    BY <1>1, Zenon DEF Blocked, Gone, Binary, LongClause, Passes, Unit, Watch
  <1>7. ASSUME NEW l, trail' = Assign(trail, l, w.clause) PROVE OnlyReasoned(trail', trail)
    <2> DEFINE e == [lit |-> l, reason |-> w.clause]
    <2>1. trail' = Append(trail, e) /\ e.reason # None
      BY <1>5, <1>7 DEF Assign
    <2> HIDE DEF e
    <2>2. Len(trail) \in Nat /\ DOMAIN trail = 1 .. Len(trail)
      BY <1>3, LenProperties
    <2>3. /\ DOMAIN trail' = 1 .. Len(trail) + 1 /\ trail'[Len(trail) + 1] = e
          /\ \A i \in DOMAIN trail : trail'[i] = trail[i]
      BY <2>1, <2>2, <1>3
    <2> QED BY <2>1, <2>2, <2>3 DEF OnlyReasoned
  <1>8. OnlyReasoned(trail, trail)
    BY DEF OnlyReasoned
  <1> QED BY <1>6, <1>7, <1>8

LEMMA ProofNext ==
  ASSUME Checked(db', unsat', clauses', trail', lims'), task' # "probe" \/ Supposed(lemma', trail', lims')
  PROVE  ProofInv'
  BY DEF ProofInv

\* A clause that comes in, which was given or logged.
LEMMA IncomingProof ==
  ASSUME Inv, ProofInv, visiting = <<>>, ~unsat, lims = <<>> => conflict = None,
         NEW c \in SUBSET Lits, NEW hint, NEW learnt \in BOOLEAN, NEW d, Incoming(c, hint, learnt, d),
         DbOK(d), OneMore(d.held, db.held, c)
  PROVE  ProofInv'
  <1>1. Vouches(db.held, clauses, trail, lims)
    BY ProofNow
  <1>2. Checked(db', unsat', clauses', trail', lims') /\ task' # "probe"
    BY <1>1, IncomingChecked
  <1> QED BY <1>2, ProofNext

LEMMA AddClauseProof ==
  ASSUME Inv, ProofInv, AddClause PROVE ProofInv'
  <1> DEFINE c == Head(todo).lits
             d == Given(db, c)
  <1>1. OthersOK /\ TasksOK(task, lims, visiting, conflict, unsat)
    BY DEF Inv
  <1>2. visiting = <<>> /\ conflict = None /\ ~unsat
    BY <1>1 DEF AddClause, TasksOK
  <1>3. Head(todo) \in AddType
    <2>1. todo \in Seq(AddType) /\ todo # <<>>
      BY <1>1 DEF OthersOK, AddClause
    <2> QED BY <2>1, HeadTailProperties
  <1>4. c \in SUBSET Lits
    BY <1>3 DEF AddType
  <1>5. Incoming(c, Head(todo).hint, FALSE, d)
    BY DEF AddClause
  <1>6. DbOK(db)
    BY <1>2, ProofNow
  <1> HIDE DEF c
  <1>7. DbOK(d) /\ OneMore(d.held, db.held, c)
    BY <1>4, <1>6, GivenIs
  <1> HIDE DEF d
  <1> QED BY <1>2, <1>4, <1>5, <1>7, IncomingProof

\* What ProofInv says of the state the solver is in.
LEMMA StateNow ==
  ASSUME Inv, ProofInv, ~unsat
  PROVE  /\ ClausesOK(clauses) /\ clauses \in Seq(ClauseType) /\ TrailOK(trail, lims) /\ trail \in Seq(StepType)
         /\ ReasonsOK(clauses, trail) /\ ConflictOK(clauses, trail, lims, conflict) /\ qhead \in Nat
         /\ DbOK(db) /\ Vouches(db.held, clauses, trail, lims)
  BY ProofNow DEF Inv, Structure, ClausesOK, TrailOK, HeadOK

LEMMA AcceptLemmaProof ==
  ASSUME Inv, ProofInv, AcceptLemma PROVE ProofInv'
  <1>1. OthersOK /\ TasksOK(task, lims, visiting, conflict, unsat) /\ HeadOK(trail, lims, qhead, visiting, conflict)
    BY DEF Inv, Structure
  <1>2. /\ task = "probe" /\ conflict # None /\ Incoming(lemma, <<>>, TRUE, Log(db, lemma))
    BY DEF AcceptLemma
  <1>3. visiting = <<>> /\ ~unsat /\ Len(lims) = 1
    BY <1>1, <1>2 DEF HeadOK, TasksOK
  <1>4. lims # <<>>
    <2>1. ASSUME lims = <<>> PROVE FALSE
      <3>1. Len(lims) = 0
        BY <2>1
      <3> QED BY <3>1, <1>3
    <2> QED BY <2>1
  <1>5. lemma \in SUBSET Lits
    BY <1>1 DEF OthersOK
  <1>6. Supposed(lemma, trail, lims)
    BY <1>2 DEF ProofInv
  <1>7. Clashes(DOMAIN db.held, lemma)
    BY <1>2, <1>3, <1>5, <1>6, StateNow, ClashConflict
  <1>8. DbOK(Log(db, lemma)) /\ OneMore(Log(db, lemma).held, db.held, lemma)
    BY <1>3, <1>5, <1>7, StateNow, LogIs
  <1> QED BY <1>2, <1>3, <1>4, <1>5, <1>8, IncomingProof

LEMMA ContradictionProof ==
  ASSUME Inv, ProofInv, Contradiction PROVE ProofInv'
  <1>1. TasksOK(task, lims, visiting, conflict, unsat) /\ lims \in Seq(Nat)
    BY DEF Inv, Structure, TrailOK
  <1>2. /\ conflict # None /\ Len(lims) = 0 /\ unsat' = TRUE /\ task' = "idle" /\ db' = Log(db, {})
    BY DEF Contradiction, DecisionLevel
  <1>3. lims = <<>> /\ ~unsat
    BY <1>1, <1>2, EmptySeq DEF TasksOK
  <1>4. Supposed({}, trail, lims)
    BY <1>3, TopOfEmpty DEF Supposed
  <1>5. {} \in SUBSET Lits
    OBVIOUS
  <1>6. Clashes(DOMAIN db.held, {})
    BY <1>2, <1>3, <1>4, <1>5, StateNow, ClashConflict
  <1>7. DbOK(Log(db, {}))
    BY <1>3, <1>5, <1>6, StateNow, LogIs
  <1>8. Checked(Log(db, {}), TRUE, clauses', trail', lims')
    BY <1>7, CheckedBy
  <1> QED BY <1>2, <1>8, ProofNext

LEMMA LookProof ==
  ASSUME Inv, ProofInv, Look PROVE ProofInv'
  <1>1. db' = db /\ lims' = lims /\ task' = task /\ lemma' = lemma /\ unsat' = unsat /\ visiting # <<>>
    BY DEF Look
  <1>2. ~unsat
    BY <1>1 DEF Inv, TasksOK
  <1>3. PICK ds : ds = clauses'
    OBVIOUS
  <1>4. PICK u : u = trail'
    OBVIOUS
  <1>5. /\ DOMAIN ds = DOMAIN clauses
        /\ \A j \in DOMAIN clauses : LitsOf(ds[j]) = LitsOf(clauses[j]) /\ ds[j].deleted = clauses[j].deleted
    BY <1>3, LookAlike
  <1>6. OnlyReasoned(u, trail)
    BY <1>4, LookTrail
  <1>7. /\ UnitsHeld(db.held, trail, lims) => UnitsHeld(db.held, u, lims)
        /\ Supposed(lemma, trail, lims) => Supposed(lemma, u, lims)
    BY <1>6, OnlyReasonedIs
  <1>8. DbOK(db) /\ Vouches(db.held, clauses, trail, lims)
    BY <1>2, ProofNow
  <1>9. Backs(db.held, ds)
    BY <1>5, <1>8, BacksAlike DEF Vouches
  <1>10. Vouches(db.held, ds, u, lims)
    BY <1>7, <1>8, <1>9 DEF Vouches
  <1>11. Checked(db, unsat, ds, u, lims)
    BY <1>8, <1>10, CheckedBy
  <1>12. task' = "probe" => Supposed(lemma', trail', lims')
    BY <1>1, <1>4, <1>7 DEF ProofInv
  <1> QED BY <1>1, <1>3, <1>4, <1>11, <1>12, ProofNext

\* Going back to a level.
LEMMA BackProof ==
  ASSUME Inv, ProofInv, NEW n \in Nat, trail' = TrailAt(n), lims' = LimsAt(n),
         UNCHANGED <<clauses, unsat, db>>, task' # "probe"
  PROVE  ProofInv'
  <1>1. CASE unsat
    <2>1. Checked(db, TRUE, clauses', trail', lims')
      BY DEF ProofInv, Checked
    <2>2. unsat = TRUE
      BY <1>1 DEF Inv, OthersOK
    <2> QED BY <2>1, <2>2, ProofNext
  <1>2. CASE ~unsat
    <2>1. Backed(TrailAt(n), LimsAt(n), QheadAt(n), trail, lims, qhead)
      BY <1>2, StateNow, BackState
    <2>2. Vouches(db.held, clauses, TrailAt(n), LimsAt(n))
      BY <1>2, <2>1, StateNow, VouchesBack
    <2>3. Checked(db, unsat, clauses, TrailAt(n), LimsAt(n))
      BY <1>2, <2>2, StateNow, CheckedBy
    <2> QED BY <2>3, ProofNext
  <1> QED BY <1>1, <1>2

LEMMA OfferLemmaProof ==
  ASSUME Inv, ProofInv, OfferLemma PROVE ProofInv'
  <1>1. trail' = TrailAt(0) /\ lims' = LimsAt(0) /\ UNCHANGED <<clauses, unsat, db>> /\ task' # "probe" /\ 0 \in Nat
    BY DEF OfferLemma
  <1> QED BY <1>1, BackProof

LEMMA RejectLemmaProof ==
  ASSUME Inv, ProofInv, RejectLemma PROVE ProofInv'
  <1>1. trail' = TrailAt(0) /\ lims' = <<>> /\ UNCHANGED <<clauses, unsat, db>> /\ task' # "probe" /\ 0 \in Nat
    BY DEF RejectLemma
  <1>2. TrailOK(trail, lims) /\ qhead \in Nat
    BY DEF Inv, Structure, HeadOK
  <1>3. Len(LimsAt(0)) <= 0 /\ LimsAt(0) \in Seq(Nat)
    BY <1>2, BackState DEF Backed
  <1>4. LimsAt(0) = <<>>
    BY <1>3, EmptyLims
  <1> QED BY <1>1, <1>4, BackProof

LEMMA RestartProof ==
  ASSUME Inv, ProofInv, Restart PROVE ProofInv'
  <1>1. UNCHANGED <<clauses, unsat, db>> /\ task' # "probe"
    BY DEF Restart
  <1>2. PICK keep \in 0 .. DecisionLevel : trail' = TrailAt(keep) /\ lims' = LimsAt(keep)
    BY DEF Restart
  <1>3. keep \in Nat
    BY <1>2
  <1> QED BY <1>1, <1>2, <1>3, BackProof

LEMMA AnswerSatProof ==
  ASSUME Inv, ProofInv, AnswerSat PROVE ProofInv'
  <1>1. trail' = TrailAt(0) /\ lims' = LimsAt(0) /\ UNCHANGED <<clauses, unsat, db>> /\ task' # "probe" /\ 0 \in Nat
    BY DEF AnswerSat
  <1> QED BY <1>1, BackProof

\* A decision level begins: nothing above it is of the top level.
LEMMA VouchesPushed ==
  ASSUME NEW h, NEW cs, NEW tr, NEW lm, TrailOK(tr, lm), Vouches(h, cs, tr, lm)
  PROVE  Vouches(h, cs, tr, Append(lm, Len(tr)))
  <1> DEFINE n == Append(lm, Len(tr))
  <1>1. \A i \in DOMAIN tr : TopLevel(n, i) <=> TopLevel(lm, i)
    BY PushIs
  <1> HIDE DEF n
  <1>2. UnitsHeld(h, tr, n)
    BY <1>1 DEF Vouches, UnitsHeld
  <1>3. Vouches(h, cs, tr, n)
    BY <1>2 DEF Vouches
  <1> QED BY <1>3 DEF n

LEMMA DecideProof ==
  ASSUME Inv, ProofInv, Decide PROVE ProofInv'
  <1>1. task = "search" /\ task' = "search" /\ UNCHANGED <<clauses, unsat, db>>
    BY DEF Decide
  <1>2. PICK v \in Unassigned :
          lims' = Append(lims, Len(trail)) /\ trail' = Assign(trail, IF phase[v] THEN v ELSE -v, None)
    BY DEF Decide
  <1>3. ~unsat /\ heap \subseteq Vars
    BY <1>1 DEF Inv, TasksOK, OthersOK
  <1>4. TrailOK(trail, lims) /\ Vouches(db.held, clauses, trail, lims) /\ DbOK(db)
    BY <1>3, StateNow
  <1> DEFINE n == Append(lims, Len(trail))
             l == IF phase[v] THEN v ELSE -v
  <1>5. v \in Vars /\ v \notin Assigned(trail)
    BY <1>2, <1>3 DEF Unassigned
  <1>6. l \in Lits /\ Var(l) = v
    <2>1. v \in Lits /\ -v \in Lits /\ Var(v) = v /\ Var(-v) = v
      <3>1. v \in Lits
        BY <1>5 DEF Lits
      <3>2. Var(v) = v
        BY <1>5, VarsAssumption DEF Vars, Var
      <3> QED BY <3>1, <3>2, LitFacts
    <2> QED BY <2>1
  <1> HIDE DEF l
  <1>7. TrailOK(trail, n) /\ ~TopLevel(n, Len(trail) + 1) /\ Vouches(db.held, clauses, trail, n)
    <2>1. Len(trail) + 1 > Len(trail) /\ Len(trail) + 1 \in Nat
      BY <1>3, StateNow, LenProperties
    <2>2. \A i : i > Len(trail) /\ i \in Nat => ~TopLevel(n, i)
      BY <1>4, PushIs
    <2> QED BY <2>1, <2>2, <1>4, PushIs, VouchesPushed
  <1> HIDE DEF n
  <1>8. None \in Nat
    BY DEF None
  <1>9. Var(l) \notin Assigned(trail)
    BY <1>5, <1>6
  <1>10. Vouches(db.held, clauses, Assign(trail, l, None), n)
    BY <1>6, <1>7, <1>8, <1>9, VouchesAssigned
  <1>11. Checked(db, unsat, clauses, Assign(trail, l, None), n)
    BY <1>4, <1>10, CheckedBy
  <1>12. trail' = Assign(trail, l, None) /\ lims' = n
    BY <1>2 DEF l, n
  <1>13. task' # "probe"
    BY <1>1
  <1> QED BY <1>1, <1>11, <1>12, <1>13, ProofNext

\* The literals of a lemma are made false above the top level.
LEMMA SupposedNow ==
  ASSUME NEW cs, NEW tr, TrailOK(tr, <<>>), NEW h, Vouches(h, cs, tr, <<>>), NEW n, n = Append(<<>>, Len(tr)),
         NEW u, Longer(u, tr), NEW c,
         \A i \in DOMAIN u : i > Len(tr) => u[i].reason = None /\ -u[i].lit \in c
  PROVE  Vouches(h, cs, u, n) /\ Supposed(c, u, n)
  <1>1. \A i \in DOMAIN tr : TopLevel(n, i)
    BY TopOfEmpty, PushIs
  <1>2. \A i : i > Len(tr) /\ i \in Nat => ~TopLevel(n, i)
    BY PushIs
  <1>3. \A i \in DOMAIN u : i \in Nat /\ (i > Len(tr) \/ (i \in DOMAIN tr /\ u[i] = tr[i]))
    <2>1. tr \in Seq(StepType)
      BY DEF TrailOK
    <2> QED BY <2>1, LongerFacts
  <1>4. UnitsHeld(h, u, n)
    <2>1. ASSUME NEW i \in DOMAIN u, TopLevel(n, i), u[i].reason = None PROVE {u[i].lit} \in DOMAIN h
      <3>1. i \in DOMAIN tr /\ u[i] = tr[i]
        BY <2>1, <1>2, <1>3
      <3>2. TopLevel(<<>>, i)
        BY TopOfEmpty
      <3> QED BY <2>1, <3>1, <3>2 DEF Vouches, UnitsHeld
    <2> QED BY <2>1 DEF UnitsHeld
  <1>5. Supposed(c, u, n)
    BY <1>1, <1>3 DEF Supposed
  <1> QED BY <1>4, <1>5 DEF Vouches

LEMMA TryLemmaProof ==
  ASSUME Inv, ProofInv, TryLemma PROVE ProofInv'
  <1>1. OthersOK /\ TasksOK(task, lims, visiting, conflict, unsat)
    BY DEF Inv
  <1>2. task = "top" /\ visiting = <<>> /\ conflict = None /\ lemma' = lemma
    BY DEF TryLemma, Quiet
  <1>3. lims = <<>> /\ ~unsat /\ lemma \in SUBSET Lits
    BY <1>1, <1>2 DEF TasksOK, OthersOK
  <1>4. /\ ClausesOK(clauses) /\ ReasonsOK(clauses, trail) /\ TrailOK(trail, <<>>)
        /\ Vouches(db.held, clauses, trail, <<>>) /\ DbOK(db)
    BY <1>3, StateNow
  <1>6. CASE Tautology(lemma) \/ lemma \cap True(trail) # {}
    <2>1. Incoming(lemma, <<>>, TRUE, Log(db, lemma))
      BY <1>6 DEF TryLemma
    <2>2. Clashes(DOMAIN db.held, lemma)
      <3>1. CASE Tautology(lemma)
        BY <3>1, <1>3, ClashTautology
      <3>2. CASE lemma \cap True(trail) # {}
        <4>1. PICK i \in DOMAIN trail : trail[i].lit \in lemma
          BY <3>2 DEF True
        <4>2. TopLevel(<<>>, i)
          BY TopOfEmpty
        <4> QED BY <4>1, <4>2, <1>3, <1>4, ClashTrue
      <3> QED BY <3>1, <3>2, <1>6
    <2>3. DbOK(Log(db, lemma)) /\ OneMore(Log(db, lemma).held, db.held, lemma)
      BY <1>3, <1>4, <2>2, LogIs
    <2> QED BY <2>1, <2>3, <1>2, <1>3, IncomingProof
  <1>7. CASE ~ (Tautology(lemma) \/ lemma \cap True(trail) # {})
    <2> DEFINE S == lemma \ False(trail)
               u == trail \o Negated(S)
               n == Append(<<>>, Len(trail))
    <2>1. trail' = u /\ lims' = n /\ UNCHANGED <<clauses, unsat, db>>
      BY <1>3, <1>7 DEF TryLemma, Negated
    <2>2. S \in SUBSET Lits /\ ~Tautology(S) /\ S \cap True(trail) = {} /\ S \cap False(trail) = {}
      BY <1>3, <1>7 DEF Tautology
    <2>3. n = <<Len(trail)>> /\ Len(trail) \in Nat
      BY <1>4, AppendEmpty, LenProperties DEF TrailOK
    <2>4. Longer(u, trail) /\ \A i \in DOMAIN u : i > Len(trail) => u[i].reason = None /\ -u[i].lit \in S
      <3>1. Extended(u, trail, S)
        BY DEF Extended
      <3>2. Single(n, Len(trail))
        <4>1. <<Len(trail)>> \in Seq(Nat) /\ DOMAIN <<Len(trail)>> = {1} /\ <<Len(trail)>>[1] = Len(trail)
          BY <2>3
        <4> QED BY <4>1, <2>3 DEF Single
      <3> HIDE DEF u, S, n
      <3> QED BY <3>1, <3>2, <2>2, <1>4, NegatedIs
    <2>5. \A i \in DOMAIN u : i > Len(trail) => u[i].reason = None /\ -u[i].lit \in lemma
      <3> HIDE DEF u
      <3> QED BY <2>4 DEF S
    <2>6. n = Append(<<>>, Len(trail))
      OBVIOUS
    <2> HIDE DEF u, S, n
    <2>7. Vouches(db.held, clauses, u, n) /\ Supposed(lemma, u, n)
      BY <1>4, <2>4, <2>5, <2>6, SupposedNow
    <2>8. Checked(db, unsat, clauses, u, n)
      BY <1>4, <2>7, CheckedBy
    <2> QED BY <1>2, <2>1, <2>7, <2>8, ProofNext
  <1> QED BY <1>6, <1>7

\* Steps that leave the clauses, the trail and the proof alone.
LEMMA SameProof ==
  ASSUME ProofInv, UNCHANGED <<clauses, trail, lims, unsat, db, lemma>>, task' = "probe" => task = "probe"
  PROVE  ProofInv'
  <1>1. Checked(db', unsat', clauses', trail', lims')
    BY DEF ProofInv
  <1>2. task' # "probe" \/ Supposed(lemma', trail', lims')
    BY DEF ProofInv
  <1> QED BY <1>1, <1>2, ProofNext

LEMMA OtherProof ==
  ASSUME ProofInv, UnitDone \/ Solve \/ Propagate \/ Pause \/ UNCHANGED vars
  PROVE  ProofInv'
  <1>1. UNCHANGED <<clauses, trail, lims, unsat, db, lemma>> /\ (task' = "probe" => task = "probe")
    <2>1. CASE UnitDone
      BY <2>1 DEF UnitDone, search
    <2>2. CASE Solve
      BY <2>2 DEF Solve, search
    <2>3. CASE Propagate
      BY <2>3 DEF Propagate
    <2>4. CASE Pause
      BY <2>4 DEF Pause, search
    <2>5. CASE UNCHANGED vars
      BY <2>5 DEF vars, search
    <2> QED BY <2>1, <2>2, <2>3, <2>4, <2>5
  <1> QED BY <1>1, SameProof

-----------------------------------------------------------------------------
(* What is learned follows by propagation. *)

\* What the checker propagates in a state of analysis: the set T, closed under the clauses
\* it holds, with the negation of every literal of a clause.
Propagating(h, T) ==
  Analysed /\ Vouches(h, clauses, trail, lims) /\ T \in SUBSET Lits /\ Spread(DOMAIN h, T)
Denied(T, c) == \A x \in c : -x \in T

LEMMA PropagatingFacts ==
  ASSUME NEW h, NEW T, Propagating(h, T)
  PROVE  /\ TrailOK(trail, lims) /\ ClausesOK(clauses) /\ ReasonsOK(clauses, trail) /\ trail \in Seq(StepType)
         /\ DOMAIN trail = 1 .. Len(trail) /\ Len(trail) \in Nat
         /\ \A k \in DOMAIN trail : trail[k].lit \in Lits /\ -(-trail[k].lit) = trail[k].lit
         /\ BagOK(h) /\ Backs(h, clauses) /\ Spread(DOMAIN h, T)
  <1>1. TrailOK(trail, lims) /\ ClausesOK(clauses) /\ ReasonsOK(clauses, trail) /\ trail \in Seq(StepType)
    BY DEF Propagating, Analysed, TrailOK
  <1>2. DOMAIN trail = 1 .. Len(trail) /\ Len(trail) \in Nat /\ \A i \in 1 .. Len(trail) : trail[i] \in StepType
    BY <1>1, LenProperties, ElementOfSeq
  <1>3. \A k \in DOMAIN trail : trail[k].lit \in Lits
    BY <1>2 DEF StepType
  <1>4. \A k \in DOMAIN trail : -(-trail[k].lit) = trail[k].lit
    BY <1>3, LitFacts
  <1> QED BY <1>1, <1>2, <1>3, <1>4 DEF Propagating, Vouches

\* A false literal of the top level.
LEMMA TopDenied ==
  ASSUME NEW h, NEW T, Propagating(h, T), NEW k \in DOMAIN trail, NEW q, q = -trail[k].lit,
         ~(Level(Var(q)) > 0) \/ trail[k].lit \in T
  PROVE  -q \in T
  <1>1. TrailOK(trail, lims) /\ ClausesOK(clauses) /\ ReasonsOK(clauses, trail) /\ k \in Nat
        /\ -q = trail[k].lit
    BY PropagatingFacts
  <1>2. CASE ~(Level(Var(q)) > 0)
    <2>1. Level(Var(q)) = LevelOf(lims, k)
      BY <1>1, AtIs
    <2>2. LevelOf(lims, k) \in 0 .. Len(lims) /\ (LevelOf(lims, k) = 0 <=> TopLevel(lims, k)) /\ Len(lims) \in Nat
      BY <1>1, LevelOfIs
    <2>3. TopLevel(lims, k)
      BY <2>1, <2>2, <1>2
    <2>4. trail[k].lit \in T
      BY <1>1, <2>3, TopSpreads DEF Propagating
    <2> QED BY <1>1, <2>4
  <1> QED BY <1>1, <1>2

\* An assignment follows when the rest of its reason is denied.
LEMMA ReasonSpreads ==
  ASSUME NEW h, NEW T, Propagating(h, T), NEW j \in DOMAIN trail, trail[j].reason # None,
         NEW S, S = LitsOf(clauses[trail[j].reason]), \A q \in S : q # trail[j].lit => -q \in T
  PROVE  trail[j].lit \in T
  <1>1. /\ ClausesOK(clauses) /\ ReasonsOK(clauses, trail)
        /\ BagOK(h) /\ Backs(h, clauses) /\ Spread(DOMAIN h, T)
    BY PropagatingFacts
  <1>2. trail[j].reason \in DOMAIN clauses /\ ~clauses[trail[j].reason].deleted /\ trail[j].lit \in S
    BY <1>1 DEF ReasonsOK, Because
  <1>3. S \in DOMAIN h
    BY <1>1, <1>2, BacksClause
  <1> QED BY <1>1, <1>2, <1>3 DEF Spread

\* What denies a resolvent denies the clause resolved.
LEMMA ResolventDenied ==
  ASSUME NEW h, NEW T, Propagating(h, T), NEW c, NEW j \in DOMAIN trail, -trail[j].lit \in c,
         trail[j].reason # None, NEW d, Resolvent(d, c, trail[j].lit, clauses[trail[j].reason]), Denied(T, d)
  PROVE  Denied(T, c)
  <1> DEFINE l == trail[j].lit
             S == LitsOf(clauses[trail[j].reason])
  <1>1. ReasonsOK(clauses, trail) /\ DOMAIN trail = 1 .. Len(trail) /\ Len(trail) \in Nat /\ -(-l) = l
    BY PropagatingFacts
  <1>2. \A q \in S : q = l \/ \E k \in 1 .. j - 1 : q = -trail[k].lit
    BY <1>1 DEF ReasonsOK, Because
  <1>3. d = (c \ {-l}) \cup Above(S \ {l})
    BY DEF Resolvent
  <1>4. ASSUME NEW q \in S, q # l PROVE -q \in T
    <2>1. CASE Level(Var(q)) > 0
      <3>1. q \in d
        BY <1>3, <1>4, <2>1 DEF Above
      <3> QED BY <3>1 DEF Denied
    <2>2. CASE ~(Level(Var(q)) > 0)
      <3>1. PICK k \in 1 .. j - 1 : q = -trail[k].lit
        BY <1>2, <1>4
      <3>2. k \in DOMAIN trail
        BY <1>1
      <3> QED BY <2>2, <3>1, <3>2, TopDenied
    <2> QED BY <2>1, <2>2
  <1>5. l \in T
    BY <1>4, ReasonSpreads
  <1>6. ASSUME NEW x \in c PROVE -x \in T
    <2>1. CASE x = -l
      BY <1>1, <1>5, <2>1
    <2>2. CASE x # -l
      <3>1. x \in d
        BY <1>3, <2>2
      <3> QED BY <3>1 DEF Denied
    <2> QED BY <2>1, <2>2
  <1> QED BY <1>6 DEF Denied

\* A step of analysis leaves the clause as it is or resolves it with a reason.
LEMMA OnwardHas ==
  ASSUME Analysed, NEW n \in 1 .. Len(trail), NEW c, Met(c, n - 1)
  PROVE  \/ Onward(c, n) = c
         \/ \E j \in DOMAIN trail : /\ -trail[j].lit \in c /\ trail[j].reason # None
                                    /\ Resolvent(Onward(c, n), c, trail[j].lit, clauses[trail[j].reason])
  <1> DEFINE j == Len(trail) + 1 - n
             l == trail[j].lit
             d == Onward(c, n)
  <1>1. TrailOK(trail, lims) /\ trail \in Seq(StepType)
    BY DEF Analysed, TrailOK
  <1>2. DOMAIN trail = 1 .. Len(trail) /\ Len(trail) \in Nat /\ \A k \in DOMAIN trail : k \in Nat
    BY <1>1, LenProperties
  <1>3. /\ Refuted(c, trail, lims) /\ Newest(c) # {}
        /\ \/ Cardinality(Newest(c)) = 1
           \/ \A k \in DOMAIN trail : -trail[k].lit \in c => k <= Len(trail) - (n - 1)
    BY DEF Met
  <1>4. CASE Cardinality(Newest(c)) = 1 \/ -l \notin c
    BY <1>4 DEF Onward
  <1>5. CASE ~(Cardinality(Newest(c)) = 1 \/ -l \notin c)
    <2>1. \A k \in DOMAIN trail : -trail[k].lit \in c => k <= j
      <3>1. Len(trail) - (n - 1) = j
        BY <1>2
      <3> HIDE DEF j
      <3> QED BY <3>1, <1>3, <1>5
    <2>2. j \in DOMAIN trail
      BY <1>2
    <2>3. l = trail[j].lit
      OBVIOUS
    <2>4. d = (c \ {-l}) \cup Above(LitsOf(clauses[Reason(Var(l))]) \ {l})
      BY <1>5 DEF Onward
    <2> HIDE DEF j, l, d
    <2>5. Reason(Var(l)) = trail[j].reason
      BY <2>2, <2>3, <1>1, AtIs
    <2>6. Resolvent(d, c, trail[j].lit, clauses[trail[j].reason])
      BY <2>3, <2>4, <2>5 DEF Resolvent
    <2>7. PICK y \in Newest(c) : y # -l
      <3> SUFFICES ASSUME \A y \in Newest(c) : y = -l PROVE FALSE
        OBVIOUS
      <3>1. Newest(c) = {-l}
        BY <1>3
      <3>2. Cardinality(Newest(c)) = 1
        BY <3>1, FS_Singleton
      <3> QED BY <3>2, <1>5
    <2>8. y \in c /\ Level(Var(y)) = Len(lims)
      BY DEF Newest, DecisionLevel
    <2>9. PICK k \in DOMAIN trail : y = -trail[k].lit
      BY <2>8, <1>3 DEF Refuted
    <2>10. LevelOf(lims, k) = Len(lims)
      BY <2>8, <2>9, <1>1, AtIs
    <2>11. k < j
      <3>1. k <= j /\ k # j
        BY <2>1, <2>3, <2>7, <2>8, <2>9
      <3> QED BY <3>1, <2>2, <1>2
    <2>12. trail[j].reason # None
      BY <2>2, <2>10, <2>11, Reasoned
    <2>13. -trail[j].lit \in c
      BY <1>5, <2>3
    <2> QED BY <2>2, <2>6, <2>12, <2>13 DEF d
  <1> QED BY <1>4, <1>5

\* A clause in conflict is not denied without a contradiction.
LEMMA BegunDenied ==
  ASSUME NEW h, NEW T, Propagating(h, T), Denied(T, Begun)
  PROVE  Tautology(T)
  <1> DEFINE S == LitsOf(clauses[conflict])
  <1>1. /\ conflict \in DOMAIN clauses /\ ~clauses[conflict].deleted
        /\ \A x \in S : \E k \in DOMAIN trail : x = -trail[k].lit
    BY DEF Propagating, Analysed, ConflictOK
  <1>2. ClausesOK(clauses) /\ BagOK(h) /\ Backs(h, clauses) /\ Spread(DOMAIN h, T)
    BY PropagatingFacts
  <1>3. S \in DOMAIN h /\ S \in SUBSET Lits /\ S # {}
    <2>1. Proper(clauses[conflict])
      BY <1>1, <1>2 DEF ClausesOK
    <2>2. Pair(clauses[conflict]) \subseteq S /\ S \subseteq Lits
      BY <2>1, PairIn
    <2>3. S \in DOMAIN h
      BY <1>1, <1>2, BacksClause
    <2> QED BY <2>2, <2>3 DEF Pair
  <1>4. ASSUME NEW q \in S PROVE -q \in T
    <2>1. CASE Level(Var(q)) > 0
      <3>1. q \in Begun
        BY <2>1 DEF Begun, Above
      <3> QED BY <3>1 DEF Denied
    <2>2. CASE ~(Level(Var(q)) > 0)
      <3>1. PICK k \in DOMAIN trail : q = -trail[k].lit
        BY <1>1
      <3> QED BY <2>2, <3>1, TopDenied
    <2> QED BY <2>1, <2>2
  <1> HIDE DEF S
  <1> QED BY <1>2, <1>3, <1>4, AllFalse

\* What the clause in conflict is resolved to follows by propagation.
LEMMA ResolvedDenied ==
  ASSUME NEW h, NEW T, Propagating(h, T), Denied(T, Resolved)
  PROVE  Tautology(T)
  <1>1. Analysed /\ Len(trail) \in Nat
    BY PropagatingFacts DEF Propagating
  <1>2. PICK it : TraceOf(it)
    BY <1>1, TraceIs
  <1> DEFINE N == Len(trail)
             Good1 == {k \in Nat : k <= N /\ Denied(T, it[k])}
  <1>3. N \in Good1
    BY <1>1, <1>2 DEF TraceOf
  <1>4. PICK k \in Good1 : \A i \in Good1 : k <= i
    <2>1. Good1 \in SUBSET Nat
      OBVIOUS
    <2> HIDE DEF Good1
    <2> QED BY <1>3, <2>1, LeastNat
  <1>5. k \in Nat /\ k <= N /\ Denied(T, it[k])
    BY <1>4
  <1>6. ASSUME k # 0 PROVE FALSE
    <2>1. k \in 1 .. N /\ k - 1 \in 0 .. N /\ ~(k <= k - 1) /\ k - 1 \in Nat /\ k - 1 <= N
      BY <1>1, <1>5, <1>6
    <2> DEFINE c == it[k - 1]
    <2>2. it[k] = Onward(c, k) /\ Met(c, k - 1)
      BY <1>2, <2>1 DEF TraceOf
    <2> HIDE DEF c
    <2>3. \/ Onward(c, k) = c
          \/ \E j \in DOMAIN trail : /\ -trail[j].lit \in c /\ trail[j].reason # None
                                     /\ Resolvent(Onward(c, k), c, trail[j].lit, clauses[trail[j].reason])
      BY <1>1, <2>1, <2>2, OnwardHas
    <2>4. PICK d : d = Onward(c, k)
      OBVIOUS
    <2>5. Denied(T, d)
      BY <1>5, <2>2, <2>4
    <2>6. Denied(T, c)
      <3>1. CASE d = c
        BY <2>5, <3>1
      <3>2. CASE \E j \in DOMAIN trail : /\ -trail[j].lit \in c /\ trail[j].reason # None
                                         /\ Resolvent(d, c, trail[j].lit, clauses[trail[j].reason])
        BY <2>5, <3>2, ResolventDenied
      <3> QED BY <2>3, <2>4, <3>1, <3>2
    <2>7. k - 1 \in Good1
      BY <2>1, <2>6 DEF c
    <2> QED BY <1>4, <2>1, <2>7
  <1>7. Denied(T, Begun)
    BY <1>2, <1>5, <1>6 DEF TraceOf
  <1> QED BY <1>7, BegunDenied

\* Literals dropped as redundant follow by propagation.
LEMMA RedundantDenied ==
  ASSUME NEW h, NEW T, Propagating(h, T), NEW c, Refuted(c, trail, lims), Denied(T, c \ Redundant(c))
  PROVE  Denied(T, c)
  <1> DEFINE P == {i \in DOMAIN trail : \E seen \in SUBSET DOMAIN trail : i \in seen /\ Seen(c, seen)}
             Bad == {i \in P : trail[i].lit \notin T}
  <1>1. /\ TrailOK(trail, lims) /\ ReasonsOK(clauses, trail)
        /\ DOMAIN trail = 1 .. Len(trail) /\ Len(trail) \in Nat
        /\ \A k \in DOMAIN trail : trail[k].lit \in Lits /\ -(-trail[k].lit) = trail[k].lit
    BY PropagatingFacts
  <1>2. /\ Redundant(c) \subseteq c \ Newest(c)
        /\ \A l \in Redundant(c) : \E seen \in SUBSET DOMAIN trail : At(Var(l)) \in seen /\ Seen(c, seen)
    BY RedundantHas
  <1>3. ASSUME NEW k \in DOMAIN trail, NEW q, q = -trail[k].lit, q \in Redundant(c) PROVE k \in P
    <2>1. At(Var(q)) = k
      BY <1>1, <1>3, AtIs
    <2> QED BY <1>2, <1>3, <2>1
  <1>4. ASSUME NEW i \in P
        PROVE  /\ trail[i].reason # None
               /\ \A k \in DOMAIN trail : \A q : q = -trail[k].lit /\ q \in LitsOf(clauses[trail[i].reason]) /\ q # trail[i].lit =>
                    ~(Level(Var(q)) > 0) \/ q \in c \ Newest(c) \/ k \in P
    <2>1. PICK seen \in SUBSET DOMAIN trail : i \in seen /\ Seen(c, seen)
      OBVIOUS
    <2>2. trail[i].reason # None
          /\ \A q \in LitsOf(clauses[trail[i].reason]) \ {trail[i].lit} :
               Level(Var(q)) = 0 \/ q \in c \ Newest(c) \/ At(Var(q)) \in seen
      BY <2>1 DEF Seen
    <2>3. ASSUME NEW k \in DOMAIN trail, NEW q, q = -trail[k].lit, q \in LitsOf(clauses[trail[i].reason]), q # trail[i].lit
          PROVE  ~(Level(Var(q)) > 0) \/ q \in c \ Newest(c) \/ k \in P
      <3>1. At(Var(q)) = k
        BY <1>1, <2>3, AtIs
      <3>2. Level(Var(q)) = 0 \/ q \in c \ Newest(c) \/ At(Var(q)) \in seen
        BY <2>2, <2>3
      <3>3. k \in seen => k \in P
        BY <2>1
      <3> QED BY <3>1, <3>2, <3>3
    <2> QED BY <2>2, <2>3
  <1>5. P \in SUBSET DOMAIN trail
    OBVIOUS
  <1> HIDE DEF P
  <1>6. Bad = {}
    <2> SUFFICES ASSUME Bad # {} PROVE FALSE
      OBVIOUS
    <2>1. PICK i \in Bad : \A j \in Bad : i <= j
      <3>1. Bad \in SUBSET Nat
        BY <1>1, <1>5
      <3> HIDE DEF Bad
      <3> QED BY <3>1, LeastNat
    <2>2. i \in P /\ i \in DOMAIN trail /\ trail[i].lit \notin T
      BY <1>5, <2>1
    <2> DEFINE S == LitsOf(clauses[trail[i].reason])
    <2>3. trail[i].reason # None
      BY <1>4, <2>2
    <2>4. \A q \in S : q = trail[i].lit \/ \E k \in 1 .. i - 1 : q = -trail[k].lit
      BY <1>1, <2>2, <2>3 DEF ReasonsOK, Because
    <2>5. ASSUME NEW q \in S, q # trail[i].lit PROVE -q \in T
      <3>1. PICK k \in 1 .. i - 1 : q = -trail[k].lit
        BY <2>4, <2>5
      <3>2. k \in DOMAIN trail /\ ~(i <= k) /\ -q = trail[k].lit
        BY <1>1, <2>2, <3>1
      <3>3. k \in P => trail[k].lit \in T
        BY <2>1, <3>2
      <3>4. ~(Level(Var(q)) > 0) \/ q \in c \ Newest(c) \/ k \in P
        BY <1>4, <2>2, <2>5, <3>1, <3>2
      <3>5. CASE ~(Level(Var(q)) > 0)
        BY <3>1, <3>2, <3>5, TopDenied
      <3>6. CASE k \in P
        BY <3>2, <3>3, <3>6
      <3>7. CASE q \in c \ Newest(c)
        <4>1. CASE q \in Redundant(c)
          BY <1>3, <3>1, <3>2, <3>6, <4>1
        <4>2. CASE q \notin Redundant(c)
          BY <3>7, <4>2 DEF Denied
        <4> QED BY <4>1, <4>2
      <3> QED BY <3>4, <3>5, <3>6, <3>7
    <2> HIDE DEF Bad
    <2>6. trail[i].lit \in T
      BY <2>2, <2>3, <2>5, ReasonSpreads
    <2> QED BY <2>2, <2>6
  <1>7. ASSUME NEW x \in c PROVE -x \in T
    <2>1. CASE x \in Redundant(c)
      <3>1. PICK k \in DOMAIN trail : x = -trail[k].lit
        BY DEF Refuted
      <3>2. k \in P /\ -x = trail[k].lit
        BY <1>1, <1>3, <2>1, <3>1
      <3> QED BY <1>6, <3>2
    <2>2. CASE x \notin Redundant(c)
      BY <2>2 DEF Denied
    <2> QED BY <2>1, <2>2
  <1> QED BY <1>7 DEF Denied

\* What is learned.
LEMMA LearntClashes ==
  ASSUME Analysed, NEW h, Vouches(h, clauses, trail, lims)
  PROVE  Clashes(DOMAIN h, LearntSet)
  <1>1. ASSUME NEW T \in SUBSET Lits, \A l \in LearntSet : -l \in T, Spread(DOMAIN h, T) PROVE Tautology(T)
    <2>1. Propagating(h, T)
      BY <1>1 DEF Propagating
    <2>2. Refuted(Resolved, trail, lims)
      BY ResolvedIs
    <2>3. Denied(T, Resolved \ Redundant(Resolved))
      BY <1>1 DEF Denied, LearntSet
    <2>4. Denied(T, Resolved)
      BY <2>1, <2>2, <2>3, RedundantDenied
    <2> QED BY <2>1, <2>4, ResolvedDenied
  <1> QED BY <1>1 DEF Clashes

\* Learned clauses dropped, and their copies with them.
LEMMA VouchesMarked ==
  ASSUME NEW cs, ClausesOK(cs), NEW t, NEW m, NEW d, DbOK(d), Vouches(d.held, cs, t, m),
         NEW doomed \in SUBSET Free(cs, t)
  PROVE  DbOK(Unlog(d, Said(cs, doomed))) /\ Vouches(Unlog(d, Said(cs, doomed)).held, Marked(cs, doomed), t, m)
  <1> DEFINE e == Unlog(d, Said(cs, doomed))
             ds == Marked(cs, doomed)
  <1>1. cs \in Seq(ClauseType) /\ doomed \in SUBSET Live(cs) /\ doomed \in SUBSET DOMAIN cs
    BY DEF ClausesOK, Free, Live
  <1>2. /\ DbOK(e)
        /\ \A S \in DOMAIN d.held : (\A i \in doomed : LitsOf(cs[i]) # S) => S \in DOMAIN e.held
    BY <1>1, UnlogIs
  <1>3. Backs(e.held, ds)
    BY <1>1, UnlogBacks DEF Vouches
  <1> HIDE DEF e, ds
  <1>4. ASSUME NEW i \in doomed, NEW x PROVE LitsOf(cs[i]) # {x}
    <2>1. Proper(cs[i])
      BY <1>1 DEF ClausesOK
    <2>2. cs[i].lits[1] # cs[i].lits[2] /\ Pair(cs[i]) \subseteq LitsOf(cs[i])
      BY <2>1, PairIn
    <2> QED BY <2>2 DEF Pair
  <1>5. UnitsHeld(e.held, t, m)
    <2>1. ASSUME NEW i \in DOMAIN t, TopLevel(m, i), t[i].reason = None PROVE {t[i].lit} \in DOMAIN e.held
      <3>1. {t[i].lit} \in DOMAIN d.held
        BY <2>1 DEF Vouches, UnitsHeld
      <3>2. \A j \in doomed : LitsOf(cs[j]) # {t[i].lit}
        BY <1>4
      <3> QED BY <3>1, <3>2, <1>2
    <2> QED BY <2>1 DEF UnitsHeld
  <1>6. BagOK(e.held)
    BY <1>2 DEF DbOK
  <1>7. DbOK(e) /\ Vouches(e.held, ds, t, m)
    BY <1>2, <1>3, <1>5, <1>6 DEF Vouches
  <1> QED BY <1>7 DEF e, ds

LEMMA VouchesCompact ==
  ASSUME NEW h, NEW cs \in Seq(ClauseType), NEW t, NEW m, Vouches(h, cs, t, m),
         NEW ds, Compact(ds, cs), NEW u, SameTrail(u, t)
  PROVE  Vouches(h, ds, u, m)
  <1>1. Backs(h, ds)
    BY BacksCompact DEF Vouches
  <1>2. UnitsHeld(h, u, m)
    BY DEF Vouches, UnitsHeld, SameTrail
  <1> QED BY <1>1, <1>2 DEF Vouches

LEMMA KeptChecked ==
  ASSUME NEW P, NEW cs, NEW ws, NEW t, NEW m, NEW q, Fine(P, cs, ws, t, m, q),
         NEW d, DbOK(d), Vouches(d.held, cs, t, m), Kept(cs, ws, t, d)
  PROVE  Checked(db', FALSE, clauses', trail', m)
  <1>0. ClausesOK(cs) /\ ReasonsOK(cs, t)
    BY FineParts
  <1>1. CASE clauses' = cs /\ trail' = t /\ db' = d
    <2>1. Checked(d, FALSE, cs, t, m)
      BY CheckedBy
    <2> QED BY <2>1, <1>1
  <1>2. CASE Reduced(cs, ws, t, d)
    <2>1. PICK doomed \in SUBSET Free(cs, t) :
            /\ db' = Unlog(d, Said(cs, doomed))
            /\ \/ clauses' = Marked(cs, doomed) /\ trail' = t
               \/ Collected(Marked(cs, doomed), ws, t)
      BY <1>2, ReducedIs
    <2> DEFINE e == Unlog(d, Said(cs, doomed))
               ds == Marked(cs, doomed)
    <2>2. DbOK(e) /\ Vouches(e.held, ds, t, m)
      BY <1>0, VouchesMarked
    <2>3. Thinner(ds, cs, t)
      BY <1>0, MarkedIs
    <2> HIDE DEF e, ds
    <2>4. CASE clauses' = ds /\ trail' = t
      <3>1. Checked(e, FALSE, ds, t, m)
        BY <2>2, CheckedBy
      <3>2. db' = e
        BY <2>1 DEF e
      <3> QED BY <3>1, <3>2, <2>4
    <2>5. CASE Collected(ds, ws, t)
      <3> DEFINE fs == Only(ds, Live(ds))
                 u == Renumbered(t, ds)
      <3>1. clauses' = fs /\ trail' = u
        BY <2>5, CollectedIs
      <3>2. ds \in Seq(ClauseType) /\ ReasonsOK(ds, t) /\ t \in Seq(StepType)
        <4>1. Fine(P, ds, ws, t, m, q)
          BY <2>3, FineThinner
        <4> QED BY <4>1, FineParts
      <3>3. Compact(fs, ds)
        BY <3>2, CompactIs
      <3> HIDE DEF fs
      <3>5. SameTrail(u, t)
        BY <3>2, <3>3, RenumberedIs
      <3> HIDE DEF u
      <3>6. Vouches(e.held, fs, u, m)
        BY <2>2, <3>2, <3>3, <3>5, VouchesCompact
      <3>7. Checked(e, FALSE, fs, u, m)
        BY <2>2, <3>6, CheckedBy
      <3>8. db' = e
        BY <2>1 DEF e
      <3> QED BY <3>1, <3>7, <3>8
    <2>6. (clauses' = ds /\ trail' = t) \/ Collected(ds, ws, t)
      BY <2>1 DEF ds
    <2> QED BY <2>4, <2>5, <2>6
  <1> QED BY <1>1, <1>2 DEF Kept

LEMMA LearnProof ==
  ASSUME Inv, ProofInv, Learn PROVE ProofInv'
  <1> DEFINE b == LearntBack
             l == LearntUip
             t == TrailAt(b)
             m == LimsAt(b)
             h == QheadAt(b)
             id == Len(clauses) + 1
             d == Log(db, LearntSet)
  <1>1. /\ task = "search" /\ conflict # None /\ DecisionLevel > 0 /\ lims' = m
        /\ LearntRest = {} => Kept(clauses, watches, Assign(t, l, None), d)
        /\ LearntRest # {} => Kept(Append(clauses, LearntClause), Watching(watches, id, LearntClause),
                                   Assign(t, l, id), d)
    BY LearnIs
  <1>2. Analysed /\ qhead \in Nat /\ ~unsat
    BY <1>1, LearnState
  <1>3. /\ LearntSet \in SUBSET Lits /\ LearntSet = LearntRest \cup {l} /\ b \in Nat /\ b < Len(lims)
    BY <1>2, LearntIs
  <1>4. l \in Lits /\ Var(l) \notin Assigned(t)
    BY <1>2, LearntFree
  <1>5. /\ ClausesOK(clauses) /\ clauses \in Seq(ClauseType) /\ TrailOK(trail, lims)
        /\ DbOK(db) /\ Vouches(db.held, clauses, trail, lims)
    BY <1>2, StateNow
  <1>6. DbOK(d) /\ OneMore(d.held, db.held, LearntSet)
    <2>1. Clashes(DOMAIN db.held, LearntSet)
      BY <1>2, <1>5, LearntClashes
    <2> QED BY <2>1, <1>3, <1>5, LogIs
  <1>7. Backed(t, m, h, trail, lims, qhead)
    BY <1>2, <1>3, <1>5, BackState
  <1>8. Vouches(db.held, clauses, t, m)
    BY <1>5, <1>7, VouchesBack
  <1>9. TrailOK(t, m)
    <2>1. Fine(premises, clauses, watches, t, m, h)
      BY <1>1, <1>3, LearnState
    <2> QED BY <2>1, FineParts
  <1>10. /\ LearntRest = {} => Fine(premises, clauses, watches, Assign(t, l, None), m, h)
         /\ LearntRest # {} => Fine(premises, Append(clauses, LearntClause), Watching(watches, id, LearntClause),
                                    Assign(t, l, id), m, h)
    BY LearntFine
  <1>11. LearntRest # {} => Proper(LearntClause) /\ LitsOf(LearntClause) = LearntSet
    <2>1. LearntRest # {} => Asserts(LearntClause, t, m) /\ LitsOf(LearntClause) = LearntSet
      BY <1>2, LearntClauseIs
    <2> QED BY <2>1 DEF Asserts
  <1>12. id \in Nat /\ id # None /\ None \in Nat
    BY <1>5, LenProperties DEF None
  <1> HIDE DEF b, l, t, m, h, d
  <1>13. ASSUME LearntRest = {} PROVE Checked(db', FALSE, clauses', trail', m)
    <2>1. Vouches(d.held, clauses, t, m)
      BY <1>5, <1>6, <1>8, VouchesMore
    <2>2. {l} \in DOMAIN d.held
      BY <1>3, <1>6, <1>13 DEF OneMore
    <2>3. Vouches(d.held, clauses, Assign(t, l, None), m)
      BY <1>4, <1>9, <1>12, <2>1, <2>2, VouchesAssigned
    <2>4. Fine(premises, clauses, watches, Assign(t, l, None), m, h) /\ Kept(clauses, watches, Assign(t, l, None), d)
      BY <1>1, <1>10, <1>13
    <2> QED BY <1>6, <2>3, <2>4, KeptChecked
  <1>14. ASSUME LearntRest # {} PROVE Checked(db', FALSE, clauses', trail', m)
    <2> DEFINE cs == Append(clauses, LearntClause)
               ws == Watching(watches, id, LearntClause)
               u == Assign(t, l, id)
    <2>1. Attached(cs, clauses, LearntClause)
      BY <1>5, <1>11, <1>14, AttachIs
    <2>2. Fine(premises, cs, ws, u, m, h) /\ Kept(cs, ws, u, d)
      BY <1>1, <1>10, <1>14
    <2> HIDE DEF cs, ws, id
    <2>3. Vouches(d.held, cs, t, m)
      <3>1. OneMore(d.held, db.held, LitsOf(LearntClause)) /\ Proper(LearntClause)
        BY <1>6, <1>11, <1>14
      <3> QED BY <1>5, <1>8, <2>1, <3>1, VouchesAttached
    <2>4. Vouches(d.held, cs, u, m)
      BY <1>4, <1>9, <1>12, <2>3, VouchesAssigned
    <2> HIDE DEF u
    <2> QED BY <1>6, <2>2, <2>4, KeptChecked
  <1>15. Checked(db', FALSE, clauses', trail', m)
    BY <1>13, <1>14
  <1>16. unsat' = FALSE /\ task' # "probe" /\ lims' = m
    <2>1. unsat' = unsat /\ task' \in {"idle", task}
      BY DEF Learn
    <2>2. unsat \in BOOLEAN
      BY DEF Inv, OthersOK
    <2> QED BY <1>1, <1>2, <2>1, <2>2
  <1> QED BY <1>15, <1>16, ProofNext

LEMMA ProofKept ==
  ASSUME Inv, ProofInv, [Next]_vars PROVE ProofInv'
  <1>1. CASE AddClause BY <1>1, AddClauseProof
  <1>2. CASE OfferLemma BY <1>2, OfferLemmaProof
  <1>3. CASE TryLemma BY <1>3, TryLemmaProof
  <1>4. CASE AcceptLemma BY <1>4, AcceptLemmaProof
  <1>5. CASE RejectLemma BY <1>5, RejectLemmaProof
  <1>6. CASE Look BY <1>6, LookProof
  <1>7. CASE Contradiction BY <1>7, ContradictionProof
  <1>8. CASE Learn BY <1>8, LearnProof
  <1>9. CASE Restart BY <1>9, RestartProof
  <1>10. CASE Decide BY <1>10, DecideProof
  <1>11. CASE AnswerSat BY <1>11, AnswerSatProof
  <1>12. CASE UnitDone \/ Solve \/ Propagate \/ Pause \/ UNCHANGED vars BY <1>12, OtherProof
  <1>13. AddClause \/ OfferLemma \/ Solve \/ Work \/ UNCHANGED vars
    BY DEF Next, Finished
  <1>14. CASE Work
    BY <1>3, <1>4, <1>5, <1>6, <1>7, <1>8, <1>9, <1>10, <1>11, <1>12, <1>14 DEF Work
  <1> QED BY <1>1, <1>2, <1>12, <1>13, <1>14

LEMMA InitProof ==
  ASSUME Init PROVE ProofInv
  <1>1. clauses = <<>> /\ trail = <<>> /\ lims = <<>> /\ task = "idle" /\ db = [held |-> EmptyBag, refused |-> FALSE]
    BY DEF Init
  <1> DEFINE d == [held |-> EmptyBag, refused |-> FALSE]
  <1>2. DOMAIN d = {"held", "refused"} /\ d.refused = FALSE /\ d.held = EmptyBag
    OBVIOUS
  <1> HIDE DEF d
  <1>3. DOMAIN EmptyBag = {}
    BY DEF EmptyBag, SetToBag
  <1>4. BagOK(EmptyBag)
    BY <1>3 DEF BagOK
  <1>5. DOMAIN <<>> = {}
    OBVIOUS
  <1>6. Backs(EmptyBag, <<>>)
    <2>1. ASSUME NEW S \in SUBSET Lits PROVE Number(<<>>, S) <= Copies(EmptyBag, S)
      <3>1. Standing(<<>>, S) = {}
        BY <1>5 DEF Standing
      <3>2. Number(<<>>, S) = 0
        BY <3>1, FS_EmptySet DEF Number
      <3>3. Copies(EmptyBag, S) = 0
        BY <1>3 DEF Copies
      <3> QED BY <3>2, <3>3
    <2> QED BY <2>1 DEF Backs
  <1>7. UnitsHeld(EmptyBag, <<>>, <<>>)
    BY <1>5 DEF UnitsHeld
  <1>8. Vouches(EmptyBag, <<>>, <<>>, <<>>)
    BY <1>4, <1>6, <1>7 DEF Vouches
  <1>9. Checked(d, unsat, <<>>, <<>>, <<>>)
    BY <1>2, <1>8 DEF Checked
  <1>10. db = d /\ clauses = <<>> /\ trail = <<>> /\ lims = <<>> /\ task # "probe"
    BY <1>1 DEF d
  <1> QED BY <1>9, <1>10 DEF ProofInv

\* The proof logged can be checked step by step, through every step of a call: what is
\* learned, a lemma accepted, what is left of a clause without its false literals and the
\* final contradiction each follow by unit propagation from the clauses a checker holds at
\* that point, although learned clauses were dropped from it (Solver::log).
THEOREM ProofAlwaysChecks == Spec => []ProofChecks
  <1>1. Init => ProofInv
    BY InitProof
  <1>2. Inv /\ ProofInv /\ [Next]_vars => ProofInv'
    BY ProofKept
  <1>3. ProofInv => ProofChecks
    BY DEF ProofInv, Checked, ProofChecks
  <1> QED BY <1>1, <1>2, <1>3, InvHolds, PTL DEF Spec

=============================================================================
