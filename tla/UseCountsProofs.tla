--------------------------- MODULE UseCountsProofs ---------------------------
(***************************************************************************)
(* Proofs about UseCounts, for any arena, roots and bounds.  The argument: *)
(* a count is the base's with what changed since, and that is the edges    *)
(* from counted nodes (Exact); what a counted node uses is counted, was    *)
(* replaced, or waits to be looked at (Reaching); what is kept of the      *)
(* other roots is what they reach now (OthersRight), and if none of it was *)
(* replaced, the first count over that base finds what every root reaches  *)
(* (Scratching).  So a phase run that starts from the base counts what one *)
(* that starts from nothing would, and every later step does to both the   *)
(* same.                                                                   *)
(***************************************************************************)
EXTENDS UseCounts, TLAPS, FiniteSetTheorems, SequenceTheorems, WellFoundedInduction

-----------------------------------------------------------------------------
(* Sequences. *)

\* Every non-empty set of natural numbers has a least.
LEMMA LeastNat ==
  ASSUME NEW S \in SUBSET Nat, S # {}
  PROVE  \E n \in S : \A m \in S : n <= m
  <1> DEFINE R == {s \in Nat \X Nat : s[1] < s[2]}
  <1>1. IsWellFoundedOn(OpToRel(<, Nat), Nat)
    BY NatLessThanWellFounded
  <1>2. OpToRel(<, Nat) = R
    BY DEF OpToRel
  <1>3. IsWellFoundedOn(R, Nat)
    BY <1>1, <1>2
  <1>4. \E x \in S : \A y \in S : ~ (<<y, x>> \in R)
    BY <1>3, WFMin
  <1>5. PICK n \in S : \A m \in S : <<m, n>> \notin R
    BY <1>4
  <1>6. ASSUME NEW m \in S PROVE n <= m
    <2>1. <<m, n>> \in Nat \X Nat /\ <<m, n>>[1] = m /\ <<m, n>>[2] = n
      OBVIOUS
    <2>2. ~ (m < n)
      BY <1>5, <2>1
    <2> QED BY <2>2
  <1> QED BY <1>6

\* One step after the other, a sequence is cut down to the elements in a set.
StepsOf(g, s, S, len) ==
  /\ DOMAIN g = 0 .. len /\ g = [i \in DOMAIN g |-> g[i]]
  /\ \A i \in 0 .. len : g[i] = IF i = 0 THEN <<>>
                              ELSE IF s[i] \in S THEN Append(g[i - 1], s[i]) ELSE g[i - 1]
LEMMA AmongExists ==
  ASSUME NEW s, NEW S, NEW len \in Nat
  PROVE  \E g : StepsOf(g, s, S, len)
  <1> DEFINE It(g, n) == StepsOf(g, s, S, n)
             Bad == {n \in Nat : ~\E g : It(g, n)}
  <1>1. SUFFICES ASSUME Bad # {} PROVE FALSE
    OBVIOUS
  <1>2. PICK n \in Bad : \A m \in Bad : n <= m
    <2>1. Bad \in SUBSET Nat
      OBVIOUS
    <2> HIDE DEF Bad
    <2> QED BY <1>1, <2>1, LeastNat
  <1>3. CASE n = 0
    <2> DEFINE g == [i \in 0 .. 0 |-> <<>>]
    <2>1. It(g, 0)
      BY DEF StepsOf
    <2> QED BY <1>2, <1>3, <2>1
  <1>4. CASE n # 0
    <2>1. n \in Nat /\ n - 1 \in Nat /\ ~(n <= n - 1)
      BY <1>2, <1>4
    <2>0. n - 1 \notin Bad
      <3> HIDE DEF Bad
      <3> QED BY <1>2, <2>1
    <2>2. PICK g : It(g, n - 1)
      <3> HIDE DEF It
      <3> QED BY <2>0, <2>1
    <2> DEFINE e == IF s[n] \in S THEN Append(g[n - 1], s[n]) ELSE g[n - 1]
               h == [i \in 0 .. n |-> IF i = n THEN e ELSE g[i]]
    <2>3. \A i \in 0 .. n - 1 : g[i] = IF i = 0 THEN <<>> ELSE IF s[i] \in S THEN Append(g[i - 1], s[i]) ELSE g[i - 1]
      BY <2>2 DEF StepsOf
    <2>4. \A i \in 0 .. n : h[i] = IF i = n THEN e ELSE g[i]
      OBVIOUS
    <2>5. \A i \in 0 .. n : h[i] = IF i = 0 THEN <<>> ELSE IF s[i] \in S THEN Append(h[i - 1], s[i]) ELSE h[i - 1]
      <3> TAKE i \in 0 .. n
      <3> HIDE DEF h
      <3>1. CASE i = n
        <4>1. h[i - 1] = g[i - 1] /\ i # 0 /\ h[i] = e
          BY <1>4, <2>1, <2>4, <3>1
        <4> QED BY <3>1, <4>1
      <3>2. CASE i # n
        <4>1. i \in 0 .. n - 1 /\ h[i] = g[i]
          BY <2>1, <2>4, <3>2
        <4>2. i # 0 => i - 1 \in 0 .. n /\ i - 1 # n
          BY <2>1, <4>1
        <4>3. i # 0 => h[i - 1] = g[i - 1]
          BY <2>4, <4>2
        <4> QED BY <2>3, <4>1, <4>3
      <3> QED BY <3>1, <3>2
    <2>6. It(h, n)
      BY <2>5 DEF StepsOf
    <2> QED BY <1>2, <2>6
  <1> QED BY <1>3, <1>4

\* A sequence and one more.
LEMMA AppendElements ==
  ASSUME NEW T, NEW s \in Seq(T), NEW e \in T
  PROVE  Append(s, e) \in Seq(T) /\ Elements(Append(s, e)) = Elements(s) \cup {e}
  <1>1. /\ Append(s, e) \in Seq(T) /\ Len(Append(s, e)) = Len(s) + 1 /\ Append(s, e)[Len(s) + 1] = e
        /\ \A i \in 1 .. Len(s) : Append(s, e)[i] = s[i]
    BY AppendProperties
  <1>2. Len(s) \in Nat /\ DOMAIN s = 1 .. Len(s) /\ DOMAIN Append(s, e) = 1 .. Len(s) + 1
    BY <1>1, LenProperties
  <1> QED BY <1>1, <1>2 DEF Elements

\* The elements of a sequence in a set, and no others.
LEMMA AmongIs ==
  ASSUME NEW T, NEW s \in Seq(T), NEW S
  PROVE  Plain!Among(s, S) \in Seq(T) /\ Elements(Plain!Among(s, S)) = Elements(s) \cap S
  <1> DEFINE It(g) == [i \in 0 .. Len(s) |-> IF i = 0 THEN <<>>
                                            ELSE IF s[i] \in S THEN Append(g[i - 1], s[i]) ELSE g[i - 1]]
             it == CHOOSE g : g = It(g)
             Right(i) == it[i] \in Seq(T) /\ Elements(it[i]) = {s[j] : j \in 1 .. i} \cap S
             Bad == {i \in Nat : i <= Len(s) /\ ~Right(i)}
  <1>1. Len(s) \in Nat /\ (\A i \in 1 .. Len(s) : s[i] \in T) /\ DOMAIN s = 1 .. Len(s)
    BY LenProperties
  <1>2. Plain!Among(s, S) = it[Len(s)]
    BY DEF Plain!Among
  <1>3. it = It(it)
    <2>1. PICK g : StepsOf(g, s, S, Len(s))
      BY <1>1, AmongExists
    <2>2. g = It(g)
      BY <2>1 DEF StepsOf
    <2> HIDE DEF It
    <2> QED BY <2>2
  <1> HIDE DEF it
  <1>4. \A i \in 0 .. Len(s) : it[i] = IF i = 0 THEN <<>> ELSE IF s[i] \in S THEN Append(it[i - 1], s[i]) ELSE it[i - 1]
    BY <1>3
  <1> HIDE DEF It
  <1>5. Bad = {}
    <2> SUFFICES ASSUME Bad # {} PROVE FALSE
      OBVIOUS
    <2>1. PICK i \in Bad : \A j \in Bad : i <= j
      <3>1. Bad \in SUBSET Nat
        OBVIOUS
      <3> HIDE DEF Bad
      <3> QED BY <3>1, LeastNat
    <2>2. i \in 0 .. Len(s) /\ ~Right(i)
      BY <1>1, <2>1
    <2>3. CASE i = 0
      <3>1. it[i] = <<>> /\ {s[j] : j \in 1 .. i} = {}
        BY <1>1, <1>4, <2>3
      <3>2. <<>> \in Seq(T) /\ Elements(<<>>) = {}
        BY DEF Elements
      <3> QED BY <2>2, <3>1, <3>2
    <2>4. CASE i # 0
      <3>1. i - 1 \in Nat /\ i - 1 <= Len(s) /\ i \in 1 .. Len(s) /\ ~(i <= i - 1)
        BY <1>1, <2>2, <2>4
      <3>2. Right(i - 1)
        BY <2>1, <3>1
      <3>3. {s[j] : j \in 1 .. i} = {s[j] : j \in 1 .. i - 1} \cup {s[i]}
        <4>1. \A j : j \in 1 .. i <=> j \in 1 .. i - 1 \/ j = i
          BY <3>1
        <4> QED BY <4>1
      <3>4. it[i] = IF s[i] \in S THEN Append(it[i - 1], s[i]) ELSE it[i - 1]
        BY <1>4, <2>2, <2>4
      <3>5. CASE s[i] \in S
        <4>1. it[i] \in Seq(T) /\ Elements(it[i]) = Elements(it[i - 1]) \cup {s[i]}
          BY <1>1, <3>1, <3>2, <3>4, <3>5, AppendElements
        <4> QED BY <2>2, <3>2, <3>3, <3>5, <4>1
      <3>6. CASE s[i] \notin S
        BY <2>2, <3>2, <3>3, <3>4, <3>6
      <3> QED BY <3>5, <3>6
    <2> QED BY <2>3, <2>4
  <1>6. Right(Len(s))
    <2>1. \A i \in Nat : i <= Len(s) => Right(i)
      <3> HIDE DEF Right
      <3> QED BY <1>5
    <2> HIDE DEF Right
    <2> QED BY <1>1, <2>1
  <1>7. Elements(s) = {s[j] : j \in 1 .. Len(s)}
    BY <1>1 DEF Elements
  <1> QED BY <1>2, <1>6, <1>7

\* The top of a stack and what is below, and the stack with some more.
LEMMA TopElements ==
  ASSUME NEW T, NEW s \in Seq(T), s # <<>>
  PROVE  /\ s[Len(s)] \in T /\ SubSeq(s, 1, Len(s) - 1) \in Seq(T)
         /\ Elements(s) = Elements(SubSeq(s, 1, Len(s) - 1)) \cup {s[Len(s)]}
  <1>1. Len(s) \in Nat \ {0} /\ DOMAIN s = 1 .. Len(s) /\ \A i \in 1 .. Len(s) : s[i] \in T
    BY LenProperties, EmptySeq
  <1> DEFINE r == SubSeq(s, 1, Len(s) - 1)
  <1>2. r \in Seq(T) /\ Len(r) = Len(s) - 1 /\ \A i \in 1 .. Len(s) - 1 : r[i] = s[i]
    <2>1. Len(s) - 1 \in Int /\ \A i \in 1 .. Len(s) - 1 : s[i] \in T
      BY <1>1
    <2>2. /\ r \in Seq(T) /\ Len(r) = IF 1 <= Len(s) - 1 THEN (Len(s) - 1) - 1 + 1 ELSE 0
          /\ \A i \in 1 .. (Len(s) - 1) - 1 + 1 : r[i] = s[1 + i - 1]
      BY <2>1, SubSeqProperties
    <2> HIDE DEF r
    <2>3. (Len(s) - 1) - 1 + 1 = Len(s) - 1 /\ Len(r) = Len(s) - 1
      <3> DEFINE l == Len(s)
      <3>1. l \in Nat \ {0} /\ (1 <= l - 1 => Len(r) = (l - 1) - 1 + 1) /\ (~(1 <= l - 1) => Len(r) = 0)
        BY <1>1, <2>2
      <3> HIDE DEF l
      <3>2. (l - 1) - 1 + 1 = l - 1 /\ Len(r) = l - 1
        BY <3>1
      <3> QED BY <3>2 DEF l
    <2>4. \A i \in 1 .. Len(s) - 1 : r[i] = s[i]
      <3> TAKE i \in 1 .. Len(s) - 1
      <3>1. 1 + i - 1 = i
        BY <1>1
      <3> QED BY <2>2, <2>3, <3>1
    <2> QED BY <2>2, <2>3, <2>4
  <1> HIDE DEF r
  <1>3. DOMAIN r = 1 .. Len(s) - 1
    BY <1>2, LenProperties
  <1>4. Elements(s) = Elements(r) \cup {s[Len(s)]}
    BY <1>1, <1>2, <1>3 DEF Elements
  <1> QED BY <1>1, <1>2, <1>4 DEF r

LEMMA JoinedElements ==
  ASSUME NEW T, NEW s \in Seq(T), NEW t \in Seq(T)
  PROVE  s \o t \in Seq(T) /\ Elements(s \o t) = Elements(s) \cup Elements(t)
  <1>1. /\ s \o t \in Seq(T) /\ Len(s \o t) = Len(s) + Len(t)
        /\ \A i \in 1 .. Len(s) + Len(t) : (s \o t)[i] = IF i <= Len(s) THEN s[i] ELSE t[i - Len(s)]
    BY ConcatProperties
  <1>2. Len(s) \in Nat /\ Len(t) \in Nat /\ DOMAIN s = 1 .. Len(s) /\ DOMAIN t = 1 .. Len(t)
        /\ DOMAIN (s \o t) = 1 .. Len(s) + Len(t)
    BY <1>1, LenProperties
  <1>3. \A i \in 1 .. Len(s) : i \in 1 .. Len(s) + Len(t) /\ (s \o t)[i] = s[i]
    BY <1>1, <1>2
  <1>4. \A i \in 1 .. Len(t) : Len(s) + i \in 1 .. Len(s) + Len(t) /\ (s \o t)[Len(s) + i] = t[i]
    BY <1>1, <1>2
  <1>5. \A i \in 1 .. Len(s) + Len(t) : i \in 1 .. Len(s) \/ i - Len(s) \in 1 .. Len(t)
    BY <1>2
  <1>6. \A i \in 1 .. Len(s) + Len(t) : (s \o t)[i] \in Elements(s) \cup Elements(t)
    BY <1>1, <1>2, <1>5 DEF Elements
  <1>7. Elements(s \o t) \subseteq Elements(s) \cup Elements(t)
    BY <1>2, <1>6 DEF Elements
  <1>8. Elements(s) \subseteq Elements(s \o t) /\ Elements(t) \subseteq Elements(s \o t)
    BY <1>2, <1>3, <1>4 DEF Elements
  <1> QED BY <1>1, <1>7, <1>8

-----------------------------------------------------------------------------
(* The invariant. *)

Nodes == DOMAIN kids

\* What nodes of an arena use, and what is below some: as in PlainUses.
OpsOf(ks, n) == {ks[n][k] : k \in DOMAIN ks[n]}
AllOps(ks, ns) == UNION {OpsOf(ks, n) : n \in ns}
BelowOf(ks, from, avoid) ==
  {n \in DOMAIN ks : \A set \in SUBSET DOMAIN ks :
      from \ avoid \subseteq set /\ (\A m \in set : OpsOf(ks, m) \ avoid \subseteq set) => n \in set}
EdgesOf(ks, ns, m) == {e \in ns \X {1, 2} : e[2] \in DOMAIN ks[e[1]] /\ ks[e[1]][e[2]] = m}
UsesOf(ks, ns) == [n \in AllOps(ks, ns) |-> Cardinality(EdgesOf(ks, ns, n))]

\* An operation uses one or two nodes of the arena.
WellFormed(ks) ==
  /\ Len(ks) \in Nat /\ DOMAIN ks = 1 .. Len(ks)
  /\ \A n \in DOMAIN ks : ks[n] \in Seq(DOMAIN ks) /\ Len(ks[n]) \in 0 .. 2
Arena ==
  /\ kids \in Seq(Seq(Nat)) /\ WellFormed(kids)
  /\ roots \in Seq(Nodes) /\ active \in DOMAIN roots
  /\ start \in 0 .. Len(kids) /\ upto \in 0 .. Len(kids)

\* Counts of uses, or changes of them, of some nodes.
Ints(d, D) == d \in [D -> Int]
Counts(f) == \E D \in SUBSET Nodes : Ints(f, D)
Types ==
  /\ on \in BOOLEAN /\ base \in BOOLEAN
  /\ task \in {"walk", "stopped", "retire", "count", "scratch"}
  /\ stack \in Seq(Nodes)
  /\ dead \subseteq Nodes /\ plus \subseteq Nodes /\ minus \subseteq Nodes /\ reach \subseteq Nodes
  /\ Counts(delta) /\ Counts(othersUses)

\* Nothing is counted.
Blank == base = FALSE /\ plus = {} /\ minus = {} /\ delta = NoChange

\* What is under way decides whether there are counts; before the first there are none.
Phases ==
  /\ task = "scratch" => ~on
  /\ task = "count" => on
  /\ task \in {"walk", "stopped"} => stack = <<>>
  /\ ~on /\ task # "scratch" => Blank

\* What was counted of the others is right, for the root it leaves out.
OtherRoots == {roots[k] : k \in DOMAIN roots \ {active}}
OthersRight ==
  /\ othersFor \in Nat /\ othersFor <= active
  /\ othersFor = active => reach = BelowOf(kids, OtherRoots, {}) /\ othersUses = UsesOf(kids, reach)
  /\ base => othersFor = active /\ plus \cap reach = {}

\* A count is the base's with what changed since: the uses counted nodes make.
Held(f, n) == IF n \in DOMAIN f THEN f[n] ELSE 0
Exact ==
  task # "stopped" => \A n \in Nodes : Held(Base, n) + Held(delta, n) = Cardinality(EdgesOf(kids, Counted, n))

\* What is still to be looked at.
Ahead == IF task \in {"scratch", "count"} THEN Elements(stack) ELSE {}
Reaching ==
  /\ Counted \cap dead = {}
  /\ task # "stopped" =>
       /\ \A n \in Counted : OpsOf(kids, n) \subseteq Counted \cup dead \cup Ahead
       /\ on => \A n \in Nodes : start < n /\ (task = "count" \/ n <= upto) => n \in Counted \cup dead \cup Ahead

\* The first count finds what the roots reach, but through nodes replaced.
Scratching ==
  task = "scratch" =>
    /\ minus = {} /\ seen = plus
    /\ Elements(roots) \ dead \subseteq Counted \cup Elements(stack)
    /\ Counted \cup (Elements(stack) \ dead) \subseteq BelowOf(kids, Elements(roots), dead)
    /\ DOMAIN Base \cup DOMAIN delta = AllOps(kids, Counted)

Inv == Arena /\ Types /\ Phases /\ OthersRight /\ Exact /\ Reaching /\ Scratching

-----------------------------------------------------------------------------
(* Uses. *)

\* How often a node is among the one or two another uses.
Occurs(ops, m) ==
  (IF 1 \in DOMAIN ops /\ ops[1] = m THEN 1 ELSE 0) + (IF 2 \in DOMAIN ops /\ ops[2] = m THEN 1 ELSE 0)

\* Finitely many nodes use a node finitely often.
LEMMA EdgesFinite ==
  ASSUME NEW ks, NEW ns, IsFiniteSet(ns), NEW m
  PROVE  IsFiniteSet(EdgesOf(ks, ns, m)) /\ Cardinality(EdgesOf(ks, ns, m)) \in Nat
  <1>1. IsFiniteSet({1, 2})
    <2>1. IsFiniteSet({1})
      BY FS_Singleton
    <2>2. IsFiniteSet({1} \cup {2})
      BY <2>1, FS_AddElement
    <2>3. {1, 2} = {1} \cup {2}
      OBVIOUS
    <2> QED BY <2>2, <2>3
  <1>2. IsFiniteSet(ns \X {1, 2})
    BY <1>1, FS_Product
  <1>3. EdgesOf(ks, ns, m) \subseteq ns \X {1, 2}
    BY DEF EdgesOf
  <1> QED BY <1>2, <1>3, FS_Subset, FS_CardinalityType

\* One node more makes its uses more.
LEMMA EdgesAdded ==
  ASSUME NEW ks, NEW ns, IsFiniteSet(ns), NEW n, n \notin ns, NEW m
  PROVE  Cardinality(EdgesOf(ks, ns \cup {n}, m)) = Cardinality(EdgesOf(ks, ns, m)) + Occurs(ks[n], m)
  <1> DEFINE E == EdgesOf(ks, ns, m)
             one == IF 1 \in DOMAIN ks[n] /\ ks[n][1] = m THEN {<<n, 1>>} ELSE {}
             two == IF 2 \in DOMAIN ks[n] /\ ks[n][2] = m THEN {<<n, 2>>} ELSE {}
  <1>1. EdgesOf(ks, ns \cup {n}, m) = (E \cup one) \cup two
    <2>1. ASSUME NEW e \in EdgesOf(ks, ns \cup {n}, m) PROVE e \in (E \cup one) \cup two
      <3>1. PICK a \in ns \cup {n}, b \in {1, 2} : e = <<a, b>>
        BY DEF EdgesOf
      <3>2. b \in DOMAIN ks[a] /\ ks[a][b] = m
        BY <3>1 DEF EdgesOf
      <3>3. CASE a \in ns
        <4>1. e \in ns \X {1, 2} /\ e[1] = a /\ e[2] = b
          BY <3>1, <3>3
        <4> QED BY <3>2, <4>1 DEF EdgesOf
      <3>4. CASE a = n
        BY <3>1, <3>2, <3>4
      <3> QED BY <3>3, <3>4
    <2>2. ASSUME NEW e \in E PROVE e \in EdgesOf(ks, ns \cup {n}, m)
      BY <2>2 DEF EdgesOf
    <2>3. ASSUME NEW e \in one \cup two PROVE e \in EdgesOf(ks, ns \cup {n}, m)
      <3>1. PICK b \in {1, 2} : e = <<n, b>> /\ b \in DOMAIN ks[n] /\ ks[n][b] = m
        BY <2>3
      <3>2. e \in (ns \cup {n}) \X {1, 2} /\ e[1] = n /\ e[2] = b
        BY <3>1
      <3> QED BY <3>1, <3>2 DEF EdgesOf
    <2> HIDE DEF E, one, two
    <2> QED BY <2>1, <2>2, <2>3
  <1>2. IsFiniteSet(E) /\ Cardinality(E) \in Nat
    BY EdgesFinite
  <1>3. <<n, 1>> \notin E /\ <<n, 2>> \notin E
    BY DEF EdgesOf
  <1> HIDE DEF E
  <1>4. /\ IsFiniteSet(E \cup one)
        /\ Cardinality(E \cup one) = Cardinality(E) + (IF 1 \in DOMAIN ks[n] /\ ks[n][1] = m THEN 1 ELSE 0)
    <2>1. CASE 1 \in DOMAIN ks[n] /\ ks[n][1] = m
      <3>1. one = {<<n, 1>>}
        BY <2>1
      <3> QED BY <1>2, <1>3, <2>1, <3>1, FS_AddElement
    <2>2. CASE ~(1 \in DOMAIN ks[n] /\ ks[n][1] = m)
      <3>1. E \cup one = E
        BY <2>2
      <3> QED BY <1>2, <2>2, <3>1
    <2> QED BY <2>1, <2>2
  <1>5. <<n, 2>> \notin E \cup one
    BY <1>3
  <1> DEFINE F == E \cup one
  <1>6. Cardinality(F \cup two) = Cardinality(F) + (IF 2 \in DOMAIN ks[n] /\ ks[n][2] = m THEN 1 ELSE 0)
    <2> HIDE DEF F, one
    <2>1. IsFiniteSet(F) /\ <<n, 2>> \notin F /\ Cardinality(F) \in Nat
      BY <1>4, <1>5, FS_CardinalityType DEF F
    <2>2. CASE 2 \in DOMAIN ks[n] /\ ks[n][2] = m
      <3>1. two = {<<n, 2>>}
        BY <2>2
      <3> QED BY <2>1, <2>2, <3>1, FS_AddElement
    <2>3. CASE ~(2 \in DOMAIN ks[n] /\ ks[n][2] = m)
      <3>1. F \cup two = F
        BY <2>3 DEF two
      <3>2. Cardinality(F \cup two) = Cardinality(F) /\ Cardinality(F) \in Int
        BY <2>1, <3>1
      <3> QED BY <2>3, <3>2
    <2> QED BY <2>2, <2>3
  <1>7. Cardinality(EdgesOf(ks, ns \cup {n}, m)) = Cardinality(F \cup two)
    BY <1>1
  <1> HIDE DEF F, one, two
  <1>8. Cardinality(F) = Cardinality(E) + (IF 1 \in DOMAIN ks[n] /\ ks[n][1] = m THEN 1 ELSE 0)
    BY <1>4 DEF F
  <1> QED BY <1>2, <1>6, <1>7, <1>8 DEF Occurs, E

\* What a change of one count leaves.
More(d, n) == Change(d, n, 1)
Fewer(d, n) == Change(d, n, -1)
Risen(e, d, n) == \A m : Held(d, m) \in Int /\ Held(e, m) = Held(d, m) + (IF m = n THEN 1 ELSE 0)
Fallen(e, d, n) == \A m : Held(d, m) \in Int /\ Held(e, m) = Held(d, m) - (IF m = n THEN 1 ELSE 0)
LEMMA MoreHolds ==
  ASSUME NEW D, NEW d, Ints(d, D), NEW n
  PROVE  Ints(More(d, n), D \cup {n}) /\ Risen(More(d, n), d, n)
  BY DEF Change, Held, Ints, More, Risen
LEMMA FewerHolds ==
  ASSUME NEW D, NEW d, Ints(d, D), NEW n
  PROVE  Ints(Fewer(d, n), D \cup {n}) /\ Fallen(Fewer(d, n), d, n)
  BY DEF Change, Held, Ints, Fewer, Fallen
LEMMA IntsHeld ==
  ASSUME NEW D, NEW d, Ints(d, D), NEW m
  PROVE  Held(d, m) \in Int
  BY DEF Held, Ints

\* An operation has no operand, one, or two.
LEMMA OperandsOf ==
  ASSUME WellFormed(kids), NEW n \in Nodes
  PROVE  /\ OpsOf(kids, n) \subseteq Nodes
         /\ \/ /\ kids[n] = <<>> /\ OpsOf(kids, n) = {}
               /\ \A m : Occurs(kids[n], m) = 0
            \/ /\ kids[n] # <<>> /\ Len(kids[n]) = 1 /\ OpsOf(kids, n) = {kids[n][1]} /\ kids[n][1] \in Nodes
               /\ \A m : Occurs(kids[n], m) = IF m = kids[n][1] THEN 1 ELSE 0
            \/ /\ kids[n] # <<>> /\ Len(kids[n]) = 2 /\ OpsOf(kids, n) = {kids[n][1], kids[n][2]}
               /\ kids[n][1] \in Nodes /\ kids[n][2] \in Nodes
               /\ \A m : Occurs(kids[n], m) = (IF m = kids[n][1] THEN 1 ELSE 0) + (IF m = kids[n][2] THEN 1 ELSE 0)
  <1>1. PICK ops : ops = kids[n]
    OBVIOUS
  <1>2. ops \in Seq(Nodes) /\ Len(ops) \in 0 .. 2
    BY <1>1 DEF WellFormed, Nodes
  <1>3. DOMAIN ops = 1 .. Len(ops) /\ \A i \in 1 .. Len(ops) : ops[i] \in Nodes
    BY <1>2, LenProperties
  <1>4. OpsOf(kids, n) = {ops[i] : i \in 1 .. Len(ops)}
    BY <1>1, <1>3 DEF OpsOf
  <1>5. OpsOf(kids, n) \subseteq Nodes
    BY <1>3, <1>4
  <1>6. CASE Len(ops) = 0
    <2>1. ops = <<>> /\ DOMAIN ops = {}
      BY <1>2, <1>3, <1>6, EmptySeq
    <2> QED BY <1>1, <1>4, <1>5, <1>6, <2>1 DEF Occurs
  <1>7. CASE Len(ops) = 1
    <2>1. ops # <<>> /\ 1 .. Len(ops) = {1}
      BY <1>2, <1>7, EmptySeq
    <2>2. DOMAIN ops = {1} /\ OpsOf(kids, n) = {ops[1]} /\ ops[1] \in Nodes
      BY <1>3, <1>4, <2>1
    <2>3. \A m : Occurs(ops, m) = IF m = ops[1] THEN 1 ELSE 0
      BY <2>2 DEF Occurs
    <2> QED BY <1>1, <1>5, <1>7, <2>1, <2>2, <2>3
  <1>8. CASE Len(ops) = 2
    <2>1. ops # <<>> /\ 1 .. Len(ops) = {1, 2}
      BY <1>2, <1>8, EmptySeq
    <2>2. DOMAIN ops = {1, 2} /\ OpsOf(kids, n) = {ops[1], ops[2]} /\ ops[1] \in Nodes /\ ops[2] \in Nodes
      BY <1>3, <1>4, <2>1
    <2>3. \A m : Occurs(ops, m) = (IF m = ops[1] THEN 1 ELSE 0) + (IF m = ops[2] THEN 1 ELSE 0)
      BY <2>2 DEF Occurs
    <2> QED BY <1>1, <1>5, <1>8, <2>1, <2>2, <2>3
  <1> QED BY <1>2, <1>6, <1>7, <1>8

\* A count of uses over a base and changes, and what one use more or less does to it.
View(b, d) == [m \in DOMAIN b \cup DOMAIN d |-> IF Held(b, m) + Held(d, m) < 0 THEN 0 ELSE Held(b, m) + Held(d, m)]

LEMMA UsesAreView == Uses = View(Base, delta)
  BY DEF Uses, View, Held

LEMMA OneMore ==
  ASSUME NEW B, NEW b, Ints(b, B), NEW D, NEW d, Ints(d, D), NEW n,
         Held(b, n) + Held(d, n) >= 0
  PROVE  View(b, More(d, n)) = Plain!One(View(b, d), n)
  <1> DEFINE u == View(b, d)
             e == More(d, n)
  <1>1. /\ Ints(e, D \cup {n})
        /\ \A m : Held(e, m) = Held(d, m) + (IF m = n THEN 1 ELSE 0)
        /\ \A m : Held(d, m) \in Int /\ Held(b, m) \in Int
    <2>1. \A m : Held(b, m) \in Int
      BY IntsHeld
    <2>2. Ints(More(d, n), D \cup {n}) /\ Risen(More(d, n), d, n)
      BY MoreHolds
    <2> QED BY <2>1, <2>2 DEF Risen
  <1>0. DOMAIN d = D /\ DOMAIN b = B
    BY DEF Ints
  <1>2. /\ DOMAIN u = B \cup D
        /\ \A m \in B \cup D : u[m] = IF Held(b, m) + Held(d, m) < 0 THEN 0 ELSE Held(b, m) + Held(d, m)
    BY <1>0 DEF View
  <1>3. \A m : m \notin B \cup D => Held(b, m) + Held(d, m) = 0
    BY <1>0, <1>1 DEF Held
  <1>4. View(b, e) = [m \in (B \cup D) \cup {n} |-> IF Held(b, m) + Held(e, m) < 0 THEN 0 ELSE Held(b, m) + Held(e, m)]
    <2>1. DOMAIN b \cup DOMAIN e = (B \cup D) \cup {n}
      BY <1>0, <1>1 DEF Ints
    <2> QED BY <2>1 DEF View
  <1>5. Plain!One(u, n) = [m \in (B \cup D) \cup {n} |-> (IF m \in B \cup D THEN u[m] ELSE 0) + (IF m = n THEN 1 ELSE 0)]
    BY <1>2 DEF Plain!One
  <1> HIDE DEF u, e
  <1>6. ASSUME NEW m \in (B \cup D) \cup {n}
        PROVE  (IF Held(b, m) + Held(e, m) < 0 THEN 0 ELSE Held(b, m) + Held(e, m))
               = (IF m \in B \cup D THEN u[m] ELSE 0) + (IF m = n THEN 1 ELSE 0)
    <2>1. CASE m = n
      <3>1. Held(b, m) + Held(d, m) >= 0 /\ Held(e, m) = Held(d, m) + 1 /\ Held(b, m) \in Int /\ Held(d, m) \in Int
        BY <1>1, <2>1
      <3>2. (IF m \in B \cup D THEN u[m] ELSE 0) = Held(b, m) + Held(d, m)
        BY <1>2, <1>3, <3>1
      <3>3. (IF m = n THEN 1 ELSE 0) = 1
        BY <2>1
      <3>4. ~(Held(b, m) + Held(e, m) < 0) /\ Held(b, m) + Held(e, m) = Held(b, m) + Held(d, m) + 1
        BY <3>1
      <3> QED BY <3>2, <3>3, <3>4
    <2>2. CASE m # n
      <3>1. Held(e, m) = Held(d, m) /\ Held(b, m) \in Int /\ Held(d, m) \in Int
        BY <1>1, <2>2
      <3>2. m \in B \cup D /\ u[m] \in Int /\ u[m] = IF Held(b, m) + Held(d, m) < 0 THEN 0 ELSE Held(b, m) + Held(d, m)
        BY <1>2, <2>2, <3>1
      <3> QED BY <2>2, <3>1, <3>2
    <2> QED BY <2>1, <2>2
  <1> QED BY <1>4, <1>5, <1>6 DEF u, e

LEMMA OneLess ==
  ASSUME NEW B, NEW b, Ints(b, B), NEW D, NEW d, Ints(d, D), NEW n,
         Held(b, n) + Held(d, n) > 0
  PROVE  View(b, Fewer(d, n)) = Plain!Less(View(b, d), n) /\ n \in B \cup D
  <1> DEFINE u == View(b, d)
             e == Fewer(d, n)
  <1>1. /\ Ints(e, D \cup {n})
        /\ \A m : Held(e, m) = Held(d, m) - (IF m = n THEN 1 ELSE 0)
        /\ \A m : Held(d, m) \in Int /\ Held(b, m) \in Int
    <2>1. \A m : Held(b, m) \in Int
      BY IntsHeld
    <2>2. Ints(Fewer(d, n), D \cup {n}) /\ Fallen(Fewer(d, n), d, n)
      BY FewerHolds
    <2> QED BY <2>1, <2>2 DEF Fallen
  <1>0. DOMAIN d = D /\ DOMAIN b = B
    BY DEF Ints
  <1>2. /\ DOMAIN u = B \cup D
        /\ \A m \in B \cup D : u[m] = IF Held(b, m) + Held(d, m) < 0 THEN 0 ELSE Held(b, m) + Held(d, m)
        /\ u = [m \in B \cup D |-> u[m]]
    BY <1>0 DEF View
  <1>3. n \in B \cup D
    BY <1>0, <1>1 DEF Held
  <1>4. View(b, e) = [m \in B \cup D |-> IF Held(b, m) + Held(e, m) < 0 THEN 0 ELSE Held(b, m) + Held(e, m)]
    <2>1. DOMAIN b \cup DOMAIN e = B \cup D
      BY <1>0, <1>1, <1>3 DEF Ints
    <2> QED BY <2>1 DEF View
  <1>5. n \in DOMAIN u /\ u[n] = Held(b, n) + Held(d, n) /\ u[n] > 0
    <2>1. ~(Held(b, n) + Held(d, n) < 0)
      BY <1>1
    <2> QED BY <1>2, <1>3, <2>1
  <1> HIDE DEF u, e
  <1>6. Plain!Less(u, n) = [m \in B \cup D |-> IF m = n THEN u[n] - 1 ELSE u[m]]
    BY <1>2, <1>5 DEF Plain!Less
  <1>7. ASSUME NEW m \in B \cup D
        PROVE  (IF Held(b, m) + Held(e, m) < 0 THEN 0 ELSE Held(b, m) + Held(e, m)) = IF m = n THEN u[n] - 1 ELSE u[m]
    <2>1. CASE m = n
      <3>1. Held(e, n) = Held(d, n) - 1 /\ Held(b, n) \in Int /\ Held(d, n) \in Int
        BY <1>1
      <3>2. ~(Held(b, n) + Held(e, n) < 0) /\ Held(b, n) + Held(e, n) = u[n] - 1
        BY <1>5, <3>1
      <3> QED BY <2>1, <3>2
    <2>2. CASE m # n
      <3>1. Held(e, m) = Held(d, m)
        BY <1>1, <2>2
      <3> QED BY <1>2, <2>2, <3>1
    <2> QED BY <2>1, <2>2
  <1> QED BY <1>3, <1>4, <1>6, <1>7 DEF u, e

\* What the operands of a node get, or lose.
AllMore(n) == OverOperands(Add, n)
AllFewer(n) == OverOperands(Dec, n)
RisenAll(e, n) == \A m : Held(delta, m) \in Int /\ Held(e, m) = Held(delta, m) + Occurs(kids[n], m)
FallenAll(e, n) == \A m : Held(delta, m) \in Int /\ Held(e, m) = Held(delta, m) - Occurs(kids[n], m)

LEMMA AllMoreHolds ==
  ASSUME WellFormed(kids), NEW n \in Nodes, NEW B, NEW b, Ints(b, B), NEW D, Ints(delta, D),
         \A m \in Nodes : Held(b, m) + Held(delta, m) >= 0
  PROVE  /\ Ints(AllMore(n), D \cup OpsOf(kids, n)) /\ RisenAll(AllMore(n), n)
         /\ View(b, AllMore(n)) = Plain!Used(View(b, delta), n)
  <1>1. AllMore(n) = IF kids[n] = <<>> THEN delta
                     ELSE IF Len(kids[n]) = 1 THEN More(delta, kids[n][1])
                     ELSE More(More(delta, kids[n][1]), kids[n][2])
    BY DEF AllMore, OverOperands, Add, More
  <1>2. \A m : Held(delta, m) \in Int /\ Held(b, m) \in Int
    BY IntsHeld
  <1>3. CASE kids[n] = <<>> /\ OpsOf(kids, n) = {} /\ \A m : Occurs(kids[n], m) = 0
    <2>1. AllMore(n) = delta /\ D \cup OpsOf(kids, n) = D
      BY <1>1, <1>3
    <2>2. Plain!Used(View(b, delta), n) = View(b, delta)
      BY <1>3 DEF Plain!Used
    <2>3. RisenAll(delta, n)
      BY <1>2, <1>3 DEF RisenAll
    <2> QED BY <2>1, <2>2, <2>3
  <1>4. CASE /\ kids[n] # <<>> /\ Len(kids[n]) = 1 /\ OpsOf(kids, n) = {kids[n][1]} /\ kids[n][1] \in Nodes
             /\ \A m : Occurs(kids[n], m) = IF m = kids[n][1] THEN 1 ELSE 0
    <2> DEFINE e == More(delta, kids[n][1])
    <2>1. Ints(e, D \cup {kids[n][1]}) /\ Risen(e, delta, kids[n][1])
      BY MoreHolds
    <2>2. AllMore(n) = e /\ D \cup OpsOf(kids, n) = D \cup {kids[n][1]}
      BY <1>1, <1>4
    <2>3. View(b, e) = Plain!One(View(b, delta), kids[n][1])
      BY <1>4, OneMore
    <2>4. Plain!Used(View(b, delta), n) = Plain!One(View(b, delta), kids[n][1])
      BY <1>4 DEF Plain!Used
    <2> HIDE DEF e
    <2>5. RisenAll(e, n)
      BY <1>4, <2>1 DEF RisenAll, Risen
    <2> QED BY <2>1, <2>2, <2>3, <2>4, <2>5
  <1>5. CASE /\ kids[n] # <<>> /\ Len(kids[n]) = 2 /\ OpsOf(kids, n) = {kids[n][1], kids[n][2]}
             /\ kids[n][1] \in Nodes /\ kids[n][2] \in Nodes
             /\ \A m : Occurs(kids[n], m) = (IF m = kids[n][1] THEN 1 ELSE 0) + (IF m = kids[n][2] THEN 1 ELSE 0)
    <2> DEFINE e == More(delta, kids[n][1])
               f == More(e, kids[n][2])
    <2>1. Ints(e, D \cup {kids[n][1]}) /\ Risen(e, delta, kids[n][1])
      BY MoreHolds
    <2>2. Ints(f, D \cup {kids[n][1]} \cup {kids[n][2]}) /\ Risen(f, e, kids[n][2])
      <3> HIDE DEF e
      <3> QED BY <2>1, MoreHolds
    <2>3. AllMore(n) = f /\ D \cup OpsOf(kids, n) = D \cup {kids[n][1]} \cup {kids[n][2]}
      BY <1>1, <1>5
    <2>4. View(b, e) = Plain!One(View(b, delta), kids[n][1])
      BY <1>5, OneMore
    <2> HIDE DEF e
    <2>5. Held(b, kids[n][2]) + Held(e, kids[n][2]) >= 0
      <3>1. PICK m : m = kids[n][2]
        OBVIOUS
      <3>2. Held(b, m) + Held(delta, m) >= 0 /\ Held(b, m) \in Int /\ Held(delta, m) \in Int
        BY <1>2, <1>5, <3>1
      <3>3. Held(e, m) = Held(delta, m) + 1 \/ Held(e, m) = Held(delta, m)
        BY <2>1, <3>2 DEF Risen
      <3>4. Held(b, m) + Held(e, m) >= 0
        BY <3>2, <3>3
      <3> QED BY <3>1, <3>4
    <2>6. View(b, f) = Plain!One(View(b, e), kids[n][2])
      BY <2>1, <2>5, OneMore
    <2>7. Plain!Used(View(b, delta), n) = Plain!One(Plain!One(View(b, delta), kids[n][1]), kids[n][2])
      BY <1>5 DEF Plain!Used
    <2> HIDE DEF f
    <2>8. RisenAll(f, n)
      <3>1. ASSUME NEW m PROVE Held(delta, m) \in Int /\ Held(f, m) = Held(delta, m) + Occurs(kids[n], m)
        <4> DEFINE o1 == IF m = kids[n][1] THEN 1 ELSE 0
                   o2 == IF m = kids[n][2] THEN 1 ELSE 0
        <4>1. Held(delta, m) \in Int /\ Held(e, m) = Held(delta, m) + o1 /\ Held(f, m) = Held(e, m) + o2
          BY <2>1, <2>2 DEF Risen
        <4>2. Occurs(kids[n], m) = o1 + o2 /\ o1 \in Int /\ o2 \in Int
          BY <1>5
        <4> HIDE DEF o1, o2
        <4> QED BY <4>1, <4>2
      <3> QED BY <3>1 DEF RisenAll
    <2> QED BY <2>2, <2>3, <2>4, <2>6, <2>7, <2>8
  <1> QED BY <1>3, <1>4, <1>5, OperandsOf

\* What a counted node uses has at least these uses.
LEMMA AllFewerHolds ==
  ASSUME WellFormed(kids), NEW n \in Nodes, NEW B, Ints(Base, B), NEW D, Ints(delta, D),
         \A m \in Nodes : Held(Base, m) + Held(delta, m) >= Occurs(kids[n], m)
  PROVE  /\ Ints(AllFewer(n), D \cup OpsOf(kids, n))
         /\ FallenAll(AllFewer(n), n) /\ OpsOf(kids, n) \subseteq B \cup D
         /\ View(Base, AllFewer(n)) = Plain!Unused(View(Base, delta), n)
  <1>1. DOMAIN Uses = B \cup D
    BY DEF Uses, Ints
  <1>2. \A m : Held(delta, m) \in Int /\ Held(Base, m) \in Int
    BY IntsHeld
  <1>3. \A d, m : m \in B \cup D /\ Held(Base, m) + Held(d, m) > 0 => Dec(d, m) = Fewer(d, m)
    BY <1>1 DEF Dec, Fewer, Held
  <1>4. AllFewer(n) = IF kids[n] = <<>> THEN delta
                     ELSE IF Len(kids[n]) = 1 THEN Dec(delta, kids[n][1])
                     ELSE Dec(Dec(delta, kids[n][1]), kids[n][2])
    BY DEF AllFewer, OverOperands
  <1>5. CASE kids[n] = <<>> /\ OpsOf(kids, n) = {} /\ \A m : Occurs(kids[n], m) = 0
    <2>1. AllFewer(n) = delta /\ D \cup OpsOf(kids, n) = D
      BY <1>4, <1>5
    <2>2. Plain!Unused(View(Base, delta), n) = View(Base, delta)
      BY <1>5 DEF Plain!Unused
    <2>3. FallenAll(delta, n)
      BY <1>2, <1>5 DEF FallenAll
    <2> QED BY <1>5, <2>1, <2>2, <2>3
  <1>6. CASE /\ kids[n] # <<>> /\ Len(kids[n]) = 1 /\ OpsOf(kids, n) = {kids[n][1]} /\ kids[n][1] \in Nodes
             /\ \A m : Occurs(kids[n], m) = IF m = kids[n][1] THEN 1 ELSE 0
    <2> DEFINE e == Fewer(delta, kids[n][1])
    <2>1. Ints(e, D \cup {kids[n][1]}) /\ Fallen(e, delta, kids[n][1])
      BY FewerHolds
    <2>2. Held(Base, kids[n][1]) + Held(delta, kids[n][1]) > 0
      <3>1. Occurs(kids[n], kids[n][1]) = 1
        BY <1>6
      <3> QED BY <1>2, <1>6, <3>1
    <2>3. View(Base, e) = Plain!Less(View(Base, delta), kids[n][1]) /\ kids[n][1] \in B \cup D
      BY <2>2, OneLess
    <2>4. AllFewer(n) = e /\ D \cup OpsOf(kids, n) = D \cup {kids[n][1]}
      BY <1>3, <1>4, <1>6, <2>2, <2>3
    <2>5. Plain!Unused(View(Base, delta), n) = Plain!Less(View(Base, delta), kids[n][1])
      BY <1>6 DEF Plain!Unused
    <2> HIDE DEF e
    <2>6. FallenAll(e, n)
      BY <1>6, <2>1 DEF FallenAll, Fallen
    <2> QED BY <1>6, <2>1, <2>3, <2>4, <2>5, <2>6
  <1>7. CASE /\ kids[n] # <<>> /\ Len(kids[n]) = 2 /\ OpsOf(kids, n) = {kids[n][1], kids[n][2]}
             /\ kids[n][1] \in Nodes /\ kids[n][2] \in Nodes
             /\ \A m : Occurs(kids[n], m) = (IF m = kids[n][1] THEN 1 ELSE 0) + (IF m = kids[n][2] THEN 1 ELSE 0)
    <2> DEFINE e == Fewer(delta, kids[n][1])
               f == Fewer(e, kids[n][2])
    <2>1. Ints(e, D \cup {kids[n][1]}) /\ Fallen(e, delta, kids[n][1])
      BY FewerHolds
    <2>2. Ints(f, D \cup {kids[n][1]} \cup {kids[n][2]}) /\ Fallen(f, e, kids[n][2])
      <3> HIDE DEF e
      <3> QED BY <2>1, FewerHolds
    <2>3. Held(Base, kids[n][1]) + Held(delta, kids[n][1]) > 0
      <3>1. Occurs(kids[n], kids[n][1]) \in {1, 2}
        BY <1>7
      <3> QED BY <1>2, <1>7, <3>1
    <2>4. Held(Base, kids[n][2]) + Held(delta, kids[n][2]) > 0
      <3>1. Occurs(kids[n], kids[n][2]) \in {1, 2}
        BY <1>7
      <3> QED BY <1>2, <1>7, <3>1
    <2>5. View(Base, e) = Plain!Less(View(Base, delta), kids[n][1]) /\ kids[n][1] \in B \cup D
      BY <2>3, OneLess
    <2>6. kids[n][2] \in B \cup D
      BY <2>4, OneLess
    <2>7. Dec(delta, kids[n][1]) = e
      BY <1>3, <2>3, <2>5
    <2> HIDE DEF e
    <2>8. Held(Base, kids[n][2]) + Held(e, kids[n][2]) > 0
      <3>1. CASE kids[n][1] = kids[n][2]
        <4>1. PICK m : m = kids[n][2]
          OBVIOUS
        <4>2. Occurs(kids[n], m) = 2 /\ m \in Nodes
          BY <1>7, <3>1, <4>1
        <4>3. Held(Base, m) + Held(delta, m) >= 2 /\ Held(e, m) = Held(delta, m) - 1
          BY <2>1, <3>1, <4>1, <4>2 DEF Fallen
        <4>4. Held(Base, m) + Held(e, m) > 0
          BY <1>2, <4>3
        <4> QED BY <4>1, <4>4
      <3>2. CASE kids[n][1] # kids[n][2]
        <4>1. Held(e, kids[n][2]) = Held(delta, kids[n][2])
          BY <1>2, <2>1, <3>2 DEF Fallen
        <4> QED BY <2>4, <4>1
      <3> QED BY <3>1, <3>2
    <2>9. Dec(e, kids[n][2]) = f
      BY <1>3, <2>6, <2>8
    <2>10. AllFewer(n) = f /\ D \cup OpsOf(kids, n) = D \cup {kids[n][1]} \cup {kids[n][2]}
      BY <1>4, <1>7, <2>7, <2>9
    <2>11. View(Base, f) = Plain!Less(View(Base, e), kids[n][2])
      BY <2>1, <2>8, OneLess
    <2>12. Plain!Unused(View(Base, delta), n) = Plain!Less(Plain!Less(View(Base, delta), kids[n][1]), kids[n][2])
      BY <1>7 DEF Plain!Unused
    <2> HIDE DEF f
    <2>13. FallenAll(f, n)
      <3>1. ASSUME NEW m PROVE Held(delta, m) \in Int /\ Held(f, m) = Held(delta, m) - Occurs(kids[n], m)
        <4> DEFINE o1 == IF m = kids[n][1] THEN 1 ELSE 0
                   o2 == IF m = kids[n][2] THEN 1 ELSE 0
        <4>1. Held(delta, m) \in Int /\ Held(e, m) = Held(delta, m) - o1 /\ Held(f, m) = Held(e, m) - o2
          BY <2>1, <2>2 DEF Fallen
        <4>2. Occurs(kids[n], m) = o1 + o2 /\ o1 \in Int /\ o2 \in Int
          BY <1>7
        <4> HIDE DEF o1, o2
        <4> QED BY <4>1, <4>2
      <3> QED BY <3>1 DEF FallenAll
    <2> QED BY <1>7, <2>2, <2>5, <2>6, <2>10, <2>11, <2>12, <2>13
  <1> QED BY <1>5, <1>6, <1>7, OperandsOf

-----------------------------------------------------------------------------
(* What is below some nodes. *)

LEMMA BelowHolds ==
  ASSUME WellFormed(kids), NEW from, from \subseteq Nodes, NEW avoid
  PROVE  /\ BelowOf(kids, from, avoid) \subseteq Nodes
         /\ from \ avoid \subseteq BelowOf(kids, from, avoid)
         /\ \A n \in BelowOf(kids, from, avoid) : OpsOf(kids, n) \ avoid \subseteq BelowOf(kids, from, avoid)
  <1> DEFINE B == BelowOf(kids, from, avoid)
  <1>1. \A n : n \in B <=> n \in Nodes /\ \A set \in SUBSET Nodes :
                               from \ avoid \subseteq set /\ (\A l \in set : OpsOf(kids, l) \ avoid \subseteq set) => n \in set
    BY DEF BelowOf, Nodes
  <1>2. ASSUME NEW n \in B, NEW m \in OpsOf(kids, n) \ avoid PROVE m \in B
    <2>1. m \in Nodes
      BY <1>1, <1>2, OperandsOf
    <2>2. ASSUME NEW set \in SUBSET Nodes, from \ avoid \subseteq set, \A l \in set : OpsOf(kids, l) \ avoid \subseteq set PROVE m \in set
      <3>1. n \in set
        BY <1>1, <2>2
      <3> QED BY <1>2, <2>2, <3>1
    <2> QED BY <1>1, <2>1, <2>2
  <1>3. from \ avoid \subseteq B /\ B \subseteq Nodes
    BY <1>1
  <1> QED BY <1>2, <1>3

LEMMA BelowLeast ==
  ASSUME NEW from, NEW avoid, NEW set \in SUBSET Nodes, from \ avoid \subseteq set,
         \A n \in set : OpsOf(kids, n) \ avoid \subseteq set
  PROVE  BelowOf(kids, from, avoid) \subseteq set
  BY DEF BelowOf, Nodes

LEMMA SeqGrows ==
  ASSUME NEW S, NEW T, S \subseteq T, NEW s \in Seq(S)
  PROVE  s \in Seq(T)
  <1>1. Len(s) \in Nat /\ s \in [1 .. Len(s) -> S]
    BY LenProperties
  <1>2. s \in [1 .. Len(s) -> T]
    BY <1>1
  <1> QED BY <1>1, <1>2, IsASeq

LEMMA ElementsIn ==
  ASSUME NEW T, NEW s \in Seq(T)
  PROVE  Elements(s) \subseteq T
  BY LenProperties DEF Elements

\* A node is built of nodes of the arena; the ones there stay.
LEMMA ArenaGrows ==
  ASSUME Arena, Create
  PROVE  /\ kids' \in Seq(Seq(Nat)) /\ WellFormed(kids)'
         /\ Nodes \subseteq Nodes' /\ Len(kids') = Len(kids) + 1 /\ Nodes' = Nodes \cup {Len(kids) + 1}
         /\ \A n \in Nodes : kids'[n] = kids[n]
  <1>1. PICK a \in Nodes, b \in Nodes : kids' = Append(kids, <<a, b>>)
    BY DEF Create, Nodes
  <1>2. Len(kids) \in Nat /\ Nodes = 1 .. Len(kids)
    BY DEF Arena, WellFormed, Nodes
  <1>3. /\ a \in 1 .. Len(kids) + 1 /\ b \in 1 .. Len(kids) + 1 /\ Nodes \subseteq 1 .. Len(kids) + 1
        /\ 1 .. Len(kids) + 1 = Nodes \cup {Len(kids) + 1}
    BY <1>2
  <1>4. <<a, b>> \in Seq(1 .. Len(kids) + 1) /\ Len(<<a, b>>) = 2 /\ <<a, b>> \in Seq(Nat)
    BY <1>3
  <1>5. /\ kids' \in Seq(Seq(Nat)) /\ Len(kids') = Len(kids) + 1 /\ kids'[Len(kids) + 1] = <<a, b>>
        /\ \A n \in 1 .. Len(kids) : kids'[n] = kids[n]
    BY <1>1, <1>4, AppendProperties DEF Arena
  <1>6. Nodes' = 1 .. Len(kids) + 1
    BY <1>5, LenProperties DEF Nodes
  <1>7. ASSUME NEW n \in 1 .. Len(kids) + 1
        PROVE  kids'[n] \in Seq(1 .. Len(kids) + 1) /\ Len(kids'[n]) \in 0 .. 2
    <2>1. CASE n = Len(kids) + 1
      <3>1. kids'[n] = <<a, b>>
        BY <1>5, <2>1
      <3> QED BY <1>4, <3>1
    <2>2. CASE n # Len(kids) + 1
      <3>0. n \in 1 .. Len(kids)
        BY <1>2, <2>2
      <3>1. n \in Nodes /\ kids'[n] = kids[n]
        BY <1>2, <1>5, <3>0
      <3>2. kids[n] \in Seq(Nodes) /\ Len(kids[n]) \in 0 .. 2
        BY <3>1 DEF Arena, WellFormed, Nodes
      <3>3. kids[n] \in Seq(1 .. Len(kids) + 1)
        BY <1>3, <3>2, SeqGrows
      <3> QED BY <3>1, <3>2, <3>3
    <2> QED BY <2>1, <2>2
  <1>8. WellFormed(kids)'
    <2>1. DOMAIN kids' = 1 .. Len(kids) + 1 /\ Len(kids') \in Nat /\ Len(kids') = Len(kids) + 1
      BY <1>2, <1>5, <1>6 DEF Nodes
    <2> QED BY <1>7, <2>1 DEF WellFormed
  <1> QED BY <1>2, <1>3, <1>5, <1>6, <1>8

\* What nodes of it use, and what is below some, is what it was.
LEMMA BelowStays ==
  ASSUME Arena, Create
  PROVE  /\ \A n \in Nodes : OpsOf(kids', n) = OpsOf(kids, n)
         /\ \A from \in SUBSET Nodes : BelowOf(kids', from, {}) = BelowOf(kids, from, {})
  <1>1. /\ WellFormed(kids) /\ WellFormed(kids') /\ Nodes \subseteq DOMAIN kids'
        /\ \A n \in Nodes : kids'[n] = kids[n]
    BY ArenaGrows DEF Arena, Nodes, WellFormed
  <1>2. \A n \in Nodes : OpsOf(kids', n) = OpsOf(kids, n)
    BY <1>1 DEF OpsOf
  <1>3. SUFFICES ASSUME NEW from \in SUBSET Nodes PROVE BelowOf(kids', from, {}) = BelowOf(kids, from, {})
    BY <1>2
  <1> DEFINE B == BelowOf(kids, from, {})
             C == BelowOf(kids', from, {})
  <1>4. B \subseteq Nodes /\ from \subseteq B /\ \A n \in B : OpsOf(kids, n) \subseteq B
    <2>1. from \ {} = from /\ \A n : OpsOf(kids, n) \ {} = OpsOf(kids, n)
      OBVIOUS
    <2> QED BY <1>1, <2>1, BelowHolds
  <1>5. C \subseteq B
    <2>1. \A n \in C, set \in SUBSET DOMAIN kids' :
             from \ {} \subseteq set /\ (\A m \in set : OpsOf(kids', m) \ {} \subseteq set) => n \in set
      BY DEF BelowOf
    <2> HIDE DEF B, C
    <2> QED BY <1>1, <1>2, <1>4, <2>1
  <1>6. ASSUME NEW n \in B, NEW set \in SUBSET DOMAIN kids', from \ {} \subseteq set,
               \A m \in set : OpsOf(kids', m) \ {} \subseteq set
        PROVE  n \in set
    <2> DEFINE old == set \cap Nodes
    <2>1. old \in SUBSET Nodes /\ from \ {} \subseteq old
      BY <1>6
    <2>2. \A m \in old : OpsOf(kids, m) \ {} \subseteq old
      <3>1. ASSUME NEW m \in old, NEW k \in OpsOf(kids, m) PROVE k \in old
        BY <1>1, <1>2, <1>6, <3>1, OperandsOf
      <3> QED BY <3>1
    <2> HIDE DEF old
    <2>3. B \subseteq old
      BY <2>1, <2>2, BelowLeast
    <2> QED BY <1>6, <2>3 DEF old
  <1>7. B \subseteq C
    <2> HIDE DEF B
    <2> QED BY <1>1, <1>4, <1>6 DEF BelowOf
  <1> QED BY <1>5, <1>7

-----------------------------------------------------------------------------
(* Every step keeps the invariant. *)

LEMMA AllOpsAdded ==
  ASSUME NEW ks, NEW ns, NEW n
  PROVE  AllOps(ks, ns \cup {n}) = AllOps(ks, ns) \cup OpsOf(ks, n)
  <1>1. \A S, x : x \in AllOps(ks, S) <=> \E m \in S : x \in OpsOf(ks, m)
    BY DEF AllOps
  <1>2. \A x : (\E m \in ns \cup {n} : x \in OpsOf(ks, m)) <=> (\E m \in ns : x \in OpsOf(ks, m)) \/ x \in OpsOf(ks, n)
    OBVIOUS
  <1>3. \A x : x \in AllOps(ks, ns \cup {n}) <=> x \in AllOps(ks, ns) \cup OpsOf(ks, n)
    BY <1>1, <1>2
  <1> QED BY <1>3

LEMMA PlainIs ==
  /\ \A n : Plain!Operands(n) = OpsOf(kids, n)
  /\ \A from, avoid : Plain!Below(from, avoid) = BelowOf(kids, from, avoid)
  /\ \A ns : Plain!UsesFrom(ns) = UsesOf(kids, ns)
  /\ \A ns, n : Plain!Edges(ns, n) = EdgesOf(kids, ns, n)
  <1>1. \A n : Plain!Operands(n) = OpsOf(kids, n)
    BY DEF Plain!Operands, OpsOf
  <1>2. \A ns, n : Plain!Edges(ns, n) = EdgesOf(kids, ns, n)
    BY DEF Plain!Edges, EdgesOf
  <1>3. ASSUME NEW from, NEW avoid PROVE Plain!Below(from, avoid) = BelowOf(kids, from, avoid)
    BY DEF Plain!Below, Plain!Nodes, Plain!Closed, Plain!Operands, BelowOf, OpsOf
  <1>4. ASSUME NEW ns PROVE Plain!UsesFrom(ns) = UsesOf(kids, ns)
    <2>1. UNION {Plain!Operands(m) : m \in ns} = AllOps(kids, ns)
      BY <1>1 DEF AllOps
    <2>2. \A n : Cardinality(Plain!Edges(ns, n)) = Cardinality(EdgesOf(kids, ns, n))
      BY <1>2
    <2> DEFINE f == Plain!UsesFrom(ns)
               g == UsesOf(kids, ns)
    <2>3. /\ f = [n \in UNION {Plain!Operands(m) : m \in ns} |-> f[n]]
          /\ \A n \in UNION {Plain!Operands(m) : m \in ns} : f[n] = Cardinality(Plain!Edges(ns, n))
      <3>1. \A S : Plain!Cardinality(S) = Cardinality(S)
        BY DEF Plain!Cardinality, Cardinality
      <3> QED BY <3>1 DEF Plain!UsesFrom
    <2>4. /\ g = [n \in AllOps(kids, ns) |-> g[n]]
          /\ \A n \in AllOps(kids, ns) : g[n] = Cardinality(EdgesOf(kids, ns, n))
      BY DEF UsesOf
    <2> HIDE DEF f, g
    <2>5. f = g
      BY <2>1, <2>2, <2>3, <2>4
    <2> QED BY <2>5 DEF f, g
  <1> QED BY <1>1, <1>2, <1>3, <1>4

LEMMA NodesFinite ==
  ASSUME Arena, NEW S \in SUBSET Nodes
  PROVE  IsFiniteSet(S)
  <1>1. IsFiniteSet(1 .. Len(kids))
    BY FS_Interval DEF Arena, WellFormed
  <1>2. S \subseteq 1 .. Len(kids)
    BY DEF Arena, WellFormed, Nodes
  <1> QED BY <1>1, <1>2, FS_Subset

LEMMA NothingCounted ==
  /\ \A ks, n : EdgesOf(ks, {}, n) = {}
  /\ Cardinality({}) = 0 /\ Ints(NoChange, {}) /\ \A n : Held(NoChange, n) = 0
  <1>1. Cardinality({}) = 0
    BY FS_EmptySet
  <1>2. \A ks, n : EdgesOf(ks, {}, n) = {}
    BY DEF EdgesOf
  <1>3. Ints(NoChange, {}) /\ \A n : Held(NoChange, n) = 0
    BY DEF NoChange, Ints, Held
  <1> QED BY <1>1, <1>2, <1>3

LEMMA InitInv == Init => Inv
  <1> SUFFICES ASSUME Init PROVE Inv
    OBVIOUS
  <1>1. PICK s \in Starts : kids = s.kids /\ roots = s.roots
    BY DEF Init
  <1>2. /\ kids \in Seq(Seq(Nat)) /\ roots \in Seq(Nodes) /\ roots # <<>>
        /\ \A n \in Nodes : Len(kids[n]) \in 0 .. 2 /\ \A k \in DOMAIN kids[n] : kids[n][k] \in 1 .. n - 1
    BY <1>1, StartsAssumption DEF Nodes
  <1>3. Len(kids) \in Nat /\ Nodes = 1 .. Len(kids) /\ \A n \in Nodes : kids[n] \in Seq(Nat)
    BY <1>2, LenProperties DEF Nodes
  <1>4. Arena
    <2>1. ASSUME NEW n \in Nodes PROVE kids[n] \in Seq(Nodes)
      <3>1. PICK ops : ops = kids[n]
        OBVIOUS
      <3>2. ops \in Seq(Nat) /\ \A k \in DOMAIN ops : ops[k] \in 1 .. n - 1
        BY <1>2, <1>3, <3>1
      <3>3. Len(ops) \in Nat /\ ops \in [1 .. Len(ops) -> Nat]
        BY <3>2, LenProperties
      <3>4. 1 .. n - 1 \subseteq Nodes
        BY <1>3
      <3>5. ops \in [1 .. Len(ops) -> Nodes]
        BY <3>2, <3>3, <3>4
      <3> QED BY <3>1, <3>3, <3>5, IsASeq
    <2>2. WellFormed(kids)
      BY <1>2, <1>3, <2>1 DEF WellFormed, Nodes
    <2>3. active \in DOMAIN roots
      <3>1. Len(roots) \in Nat /\ Len(roots) # 0 /\ DOMAIN roots = 1 .. Len(roots)
        BY <1>2, LenProperties, EmptySeq
      <3> QED BY <3>1 DEF Init
    <2>4. start \in 0 .. Len(kids) /\ upto \in 0 .. Len(kids)
      BY <1>3 DEF Init
    <2> QED BY <1>2, <2>2, <2>3, <2>4 DEF Arena
  <1>5. Types
    <2>1. Counts(delta) /\ Counts(othersUses)
      BY NothingCounted DEF Counts, Init
    <2>2. stack \in Seq(Nodes)
      BY DEF Init
    <2> QED BY <2>1, <2>2 DEF Types, Init
  <1>6. Phases
    BY DEF Phases, Init, Blank
  <1>7. OthersRight
    BY DEF OthersRight, Init, None
  <1>8. Counted = {} /\ Base = NoChange
    BY DEF Counted, InBase, Base, Init
  <1>9. Exact
    <2>1. \A n : Held(Base, n) = 0 /\ Held(delta, n) = 0
      BY <1>8, NothingCounted DEF Init
    <2>2. \A n : Cardinality(EdgesOf(kids, Counted, n)) = 0
      BY <1>8, NothingCounted
    <2> QED BY <2>1, <2>2 DEF Exact
  <1>10. Reaching /\ Scratching
    BY <1>8 DEF Reaching, Scratching, Init
  <1> QED BY <1>4, <1>5, <1>6, <1>7, <1>9, <1>10 DEF Inv

LEMMA StartPhaseKeeps == Inv /\ StartPhase => Inv'
  <1> SUFFICES ASSUME Inv, StartPhase PROVE Inv'
    OBVIOUS
  <1>1. PICK now \in Nodes : roots' = [roots EXCEPT ![active] = now]
    BY DEF StartPhase, Nodes
  <1>2. /\ kids' = kids /\ upto' = upto /\ reach' = reach /\ othersUses' = othersUses
        /\ active' \in DOMAIN roots /\ start' = Len(kids) /\ on' = FALSE /\ dead' = {}
        /\ task' = "walk" /\ stack' = <<>> /\ seen' = {}
        /\ base' = FALSE /\ plus' = {} /\ minus' = {} /\ delta' = NoChange
        /\ ((active' >= active /\ othersFor' = othersFor) \/ othersFor' = 0)
    BY DEF StartPhase, Cleared, None
  <1>3. /\ roots' \in Seq(Nodes) /\ DOMAIN roots' = DOMAIN roots
        /\ \A k \in DOMAIN roots : k # active => roots'[k] = roots[k]
    <2>1. roots \in Seq(Nodes) /\ active \in 1 .. Len(roots) /\ DOMAIN roots = 1 .. Len(roots)
      BY LenProperties DEF Inv, Arena
    <2>2. [roots EXCEPT ![active] = now] \in Seq(Nodes)
      BY <2>1, ExceptSeq
    <2> QED BY <1>1, <2>1, <2>2
  <1>4. Arena'
    <2>1. kids \in Seq(Seq(Nat)) /\ WellFormed(kids) /\ Len(kids) \in Nat /\ upto \in 0 .. Len(kids)
      BY DEF Inv, Arena, WellFormed
    <2>2. Nodes' = Nodes /\ start' \in 0 .. Len(kids')
      BY <1>2, <2>1 DEF Nodes
    <2> QED BY <1>2, <1>3, <2>1, <2>2 DEF Arena
  <1>5. Types'
    <2>1. Counts(delta)' /\ Counts(othersUses)'
      BY <1>2, NothingCounted DEF Counts, Inv, Types, Nodes
    <2>2. stack' \in Seq(Nodes')
      BY <1>2
    <2>3. reach' \subseteq Nodes'
      BY <1>2 DEF Inv, Types, Nodes
    <2> QED BY <1>2, <2>1, <2>2, <2>3 DEF Types
  <1>6. Phases'
    BY <1>2 DEF Phases, Blank
  <1>7. OthersRight'
    <2>1. active \in Nat \ {0} /\ active' \in Nat \ {0}
      BY <1>2, LenProperties DEF Inv, Arena
    <2>2. othersFor \in Nat /\ othersFor <= active
      BY DEF Inv, OthersRight
    <2>3. othersFor' \in Nat /\ othersFor' <= active'
      BY <1>2, <2>1, <2>2
    <2>4. ASSUME othersFor' = active'
          PROVE  reach' = BelowOf(kids, OtherRoots, {})' /\ othersUses' = UsesOf(kids, reach)'
      <3>1. othersFor = active /\ active' = active
        BY <1>2, <2>1, <2>2, <2>4
      <3>2. OtherRoots' = OtherRoots
        BY <1>3, <3>1 DEF OtherRoots
      <3> QED BY <1>2, <3>1, <3>2 DEF Inv, OthersRight
    <2> QED BY <1>2, <2>3, <2>4 DEF OthersRight
  <1>8. Counted' = {} /\ Base' = NoChange
    BY <1>2 DEF Counted, InBase, Base
  <1>9. Exact'
    <2>1. \A n : Held(Base', n) = 0 /\ Held(delta', n) = 0
      BY <1>2, <1>8, NothingCounted
    <2>2. \A n : Cardinality(EdgesOf(kids', Counted', n)) = 0
      BY <1>8, NothingCounted
    <2> QED BY <2>1, <2>2 DEF Exact
  <1>10. Reaching' /\ Scratching'
    BY <1>2, <1>8 DEF Reaching, Scratching
  <1> QED BY <1>4, <1>5, <1>6, <1>7, <1>9, <1>10 DEF Inv

\* The parts that steps within a call leave alone.
LEMMA ArenaStays ==
  ASSUME Arena, UNCHANGED arena, upto' \in 0 .. Len(kids)
  PROVE  Arena'
  BY DEF Arena, arena, Nodes

LEMMA OthersStay ==
  ASSUME OthersRight, UNCHANGED <<arena, others>>, base' => base /\ plus' \cap reach = {}
  PROVE  OthersRight'
  <1>1. OtherRoots' = OtherRoots
    BY DEF OtherRoots, arena
  <1> QED BY <1>1 DEF OthersRight, arena, others

LEMMA CountedStays ==
  ASSUME UNCHANGED <<kids, others, live>>
  PROVE  Counted' = Counted /\ Base' = Base
  BY DEF Counted, InBase, Base, others, live

LEMMA SingleElement == \A n \in Nodes : <<n>> \in Seq(Nodes) /\ Elements(<<n>>) = {n}
  <1> SUFFICES ASSUME NEW n \in Nodes PROVE <<n>> \in Seq(Nodes) /\ Elements(<<n>>) = {n}
    OBVIOUS
  <1>1. <<n>> \in Seq(Nodes) /\ DOMAIN <<n>> = {1} /\ <<n>>[1] = n
    OBVIOUS
  <1> QED BY <1>1 DEF Elements

LEMMA CreateKeeps == Inv /\ Create => Inv'
  <1> SUFFICES ASSUME Inv, Create PROVE Inv'
    OBVIOUS
  <1>1. /\ task = "walk" /\ task' = "walk" /\ stack = <<>> /\ stack' = stack
        /\ UNCHANGED <<roots, active, start, on, upto, dead, others, live, seen>>
    BY DEF Create, Inv, Phases
  <1>2. /\ kids' \in Seq(Seq(Nat)) /\ WellFormed(kids') /\ Nodes \subseteq Nodes' /\ Len(kids') = Len(kids) + 1
        /\ Nodes' = Nodes \cup {Len(kids) + 1} /\ \A n \in Nodes : kids'[n] = kids[n]
    BY ArenaGrows DEF Inv, WellFormed
  <1>3. /\ \A n \in Nodes : OpsOf(kids', n) = OpsOf(kids, n)
        /\ \A from \in SUBSET Nodes : BelowOf(kids', from, {}) = BelowOf(kids, from, {})
    BY BelowStays DEF Inv
  <1>4. /\ dead \subseteq Nodes /\ plus \subseteq Nodes /\ minus \subseteq Nodes /\ reach \subseteq Nodes
        /\ Counts(delta) /\ Counts(othersUses) /\ roots \in Seq(Nodes) /\ active \in DOMAIN roots
        /\ Len(kids) \in Nat /\ start \in 0 .. Len(kids) /\ upto \in 0 .. Len(kids)
    BY DEF Inv, Types, Arena, WellFormed
  <1>5. Arena'
    <2>1. roots \in Seq(Nodes')
      BY <1>2, <1>4, SeqGrows
    <2>2. start' \in 0 .. Len(kids') /\ upto' \in 0 .. Len(kids')
      BY <1>1, <1>2, <1>4
    <2> QED BY <1>1, <1>2, <1>4, <2>1, <2>2 DEF Arena
  <1>6. Types'
    <2>1. Counts(delta)' /\ Counts(othersUses)'
      BY <1>1, <1>2, <1>4 DEF Counts, others, live
    <2>2. stack' \in Seq(Nodes')
      BY <1>1
    <2>3. dead' \subseteq Nodes' /\ plus' \subseteq Nodes' /\ minus' \subseteq Nodes' /\ reach' \subseteq Nodes'
      BY <1>1, <1>2, <1>4 DEF others, live
    <2> QED BY <1>1, <2>1, <2>2, <2>3 DEF Types, Inv, live
  <1>7. Phases'
    BY <1>1 DEF Inv, Phases, Blank, live
  <1>8. ASSUME NEW S \in SUBSET Nodes
        PROVE  /\ UsesOf(kids', S) = UsesOf(kids, S)
               /\ \A n : EdgesOf(kids', S, n) = EdgesOf(kids, S, n)
    <2>1. \A n : EdgesOf(kids', S, n) = EdgesOf(kids, S, n)
      BY <1>2 DEF EdgesOf
    <2>2. AllOps(kids', S) = AllOps(kids, S)
      BY <1>3 DEF AllOps
    <2> DEFINE f == UsesOf(kids, S)
               g == UsesOf(kids', S)
    <2>3. /\ f = [n \in AllOps(kids, S) |-> f[n]]
          /\ \A n \in AllOps(kids, S) : f[n] = Cardinality(EdgesOf(kids, S, n))
      BY DEF UsesOf
    <2>4. /\ g = [n \in AllOps(kids', S) |-> g[n]]
          /\ \A n \in AllOps(kids', S) : g[n] = Cardinality(EdgesOf(kids', S, n))
      BY DEF UsesOf
    <2> HIDE DEF f, g
    <2>5. f = g
      BY <2>1, <2>2, <2>3, <2>4
    <2> QED BY <2>1, <2>5 DEF f, g
  <1>9. OthersRight'
    <2>1. OtherRoots' = OtherRoots /\ OtherRoots \in SUBSET Nodes
      BY <1>1, <1>4, LenProperties DEF OtherRoots
    <2>2. BelowOf(kids', OtherRoots', {}) = BelowOf(kids, OtherRoots, {})
      BY <1>3, <2>1
    <2>3. UsesOf(kids', reach') = UsesOf(kids, reach)
      BY <1>1, <1>4, <1>8 DEF others
    <2> QED BY <1>1, <2>2, <2>3 DEF Inv, OthersRight, others, live
  <1>10. Counted' = Counted /\ Base' = Base /\ Counted \in SUBSET Nodes
    <2>1. Counted' = Counted
      BY <1>1, <1>2, <1>4 DEF Counted, InBase, others, live, Nodes
    <2> QED BY <1>1, <2>1 DEF Counted, Base, others, live, Nodes
  <1>11. Exact'
    <2>1. \A n \in Nodes : Held(Base, n) + Held(delta, n) = Cardinality(EdgesOf(kids, Counted, n))
      BY <1>1 DEF Inv, Exact
    <2>2. ASSUME NEW n \in Nodes', n \notin Nodes
          PROVE  Held(Base, n) + Held(delta, n) = 0 /\ Cardinality(EdgesOf(kids, Counted, n)) = 0
      <3>1. Held(delta, n) = 0 /\ Held(Base, n) = 0
        BY <1>4, <2>2 DEF Held, Counts, Ints, Base, NoChange
      <3>2. EdgesOf(kids, Counted, n) = {}
        <4>1. ASSUME NEW m \in Counted, NEW k \in DOMAIN kids[m] PROVE kids[m][k] # n
          <5>1. kids[m][k] \in OpsOf(kids, m) /\ OpsOf(kids, m) \subseteq Nodes
            BY <1>10, OperandsOf DEF OpsOf, Inv, Arena
          <5> QED BY <2>2, <5>1
        <4> QED BY <4>1 DEF EdgesOf
      <3> QED BY <3>1, <3>2, NothingCounted
    <2>3. \A n : EdgesOf(kids', Counted', n) = EdgesOf(kids, Counted, n)
      BY <1>8, <1>10
    <2>4. delta' = delta
      BY <1>1 DEF live
    <2>5. \A n \in Nodes' : Held(Base', n) + Held(delta', n) = Cardinality(EdgesOf(kids', Counted', n))
      BY <1>10, <2>1, <2>2, <2>3, <2>4
    <2> QED BY <2>5 DEF Exact
  <1>12. Reaching'
    <2>1. Ahead' = Ahead
      BY <1>1 DEF Ahead
    <2>2. \A n \in Counted : OpsOf(kids', n) = OpsOf(kids, n)
      BY <1>3, <1>10
    <2>3. \A n \in Nodes' : n \in Nodes \/ ~(n <= upto)
      BY <1>2, <1>4
    <2> QED BY <1>1, <1>10, <2>1, <2>2, <2>3 DEF Inv, Reaching
  <1>13. Scratching'
    BY <1>1 DEF Scratching
  <1> QED BY <1>5, <1>6, <1>7, <1>9, <1>11, <1>12, <1>13 DEF Inv

LEMMA RetireKeeps == Inv /\ Retire => Inv'
  <1> SUFFICES ASSUME Inv, Retire PROVE Inv'
    OBVIOUS
  <1>1. /\ task = "walk" /\ task' = "retire" /\ UNCHANGED <<arena, on, upto, dead, others, live, seen>>
        /\ stack' \in Seq(Nodes)
    BY SingleElement DEF Retire, Nodes
  <1>2. kids' = kids /\ Nodes' = Nodes
    BY <1>1 DEF arena, Nodes
  <1>3. Arena'
    BY <1>1, ArenaStays DEF Inv, Arena
  <1>4. Types'
    BY <1>1, <1>2 DEF Inv, Types, others, live, Counts
  <1>5. Phases'
    BY <1>1 DEF Inv, Phases, live, Blank
  <1>6. OthersRight'
    BY <1>1, OthersStay DEF Inv, OthersRight, live
  <1>7. Counted' = Counted /\ Base' = Base
    BY <1>1, <1>2, CountedStays
  <1>8. Exact'
    BY <1>1, <1>2, <1>7 DEF Inv, Exact, live
  <1>9. Reaching'
    <2>1. Ahead' = {} /\ Ahead = {} /\ task' # "count" /\ task # "stopped" /\ start' = start
      BY <1>1 DEF Ahead, arena
    <2> QED BY <1>1, <1>2, <1>7, <2>1 DEF Inv, Reaching
  <1>10. Scratching'
    BY <1>1 DEF Scratching
  <1> QED BY <1>3, <1>4, <1>5, <1>6, <1>8, <1>9, <1>10 DEF Inv

LEMMA DoneKeeps == Inv /\ Done => Inv'
  <1> SUFFICES ASSUME Inv, Done PROVE Inv'
    OBVIOUS
  <1>1. /\ task \in {"retire", "count"} /\ task' = "walk" /\ stack = <<>> /\ stack' = stack
        /\ UNCHANGED <<arena, on, dead, others, live, seen>>
        /\ upto' = IF task = "count" THEN Len(kids) ELSE upto
    BY DEF Done
  <1>2. kids' = kids /\ Nodes' = Nodes /\ Len(kids) \in Nat /\ Nodes = 1 .. Len(kids)
    BY <1>1 DEF arena, Nodes, Inv, Arena, WellFormed
  <1>3. Arena'
    <2>1. upto' \in 0 .. Len(kids)
      BY <1>1, <1>2 DEF Inv, Arena
    <2> QED BY <1>1, <2>1, ArenaStays DEF Inv
  <1>4. Types'
    BY <1>1, <1>2 DEF Inv, Types, others, live, Counts
  <1>5. Phases'
    BY <1>1 DEF Inv, Phases, live, Blank
  <1>6. OthersRight'
    BY <1>1, OthersStay DEF Inv, OthersRight, live
  <1>7. Counted' = Counted /\ Base' = Base
    BY <1>1, <1>2, CountedStays
  <1>8. Exact'
    BY <1>1, <1>2, <1>7 DEF Inv, Exact, live
  <1>9. Reaching'
    <2>1. Ahead' = {} /\ Ahead = {} /\ task # "stopped" /\ task' # "count" /\ start' = start
      BY <1>1 DEF Ahead, arena, Elements
    <2>2. task # "count" => upto' = upto
      BY <1>1
    <2> QED BY <1>1, <1>2, <1>7, <2>1, <2>2 DEF Inv, Reaching
  <1>10. Scratching'
    BY <1>1 DEF Scratching
  <1> QED BY <1>3, <1>4, <1>5, <1>6, <1>8, <1>9, <1>10 DEF Inv

\* The counts, of the nodes that have one.
LEMMA CountsAre ==
  ASSUME Inv
  PROVE  /\ \E B \in SUBSET Nodes : Ints(Base, B)
         /\ \E D \in SUBSET Nodes : Ints(delta, D)
         /\ Counted \in SUBSET Nodes /\ IsFiniteSet(Counted)
         /\ task # "stopped" => \A m \in Nodes :
              /\ Held(Base, m) + Held(delta, m) >= 0
              /\ \A n \in Counted : Held(Base, m) + Held(delta, m) >= Occurs(kids[n], m)
  <1>1. Counted \in SUBSET Nodes /\ IsFiniteSet(Counted)
    <2>1. Counted \in SUBSET Nodes
      BY DEF Counted, Nodes
    <2> QED BY <2>1, NodesFinite DEF Inv
  <1>2. (\E B \in SUBSET Nodes : Ints(Base, B)) /\ (\E D \in SUBSET Nodes : Ints(delta, D))
    BY NothingCounted DEF Inv, Types, Counts, Base
  <1>3. ASSUME task # "stopped", NEW m \in Nodes
        PROVE  /\ Held(Base, m) + Held(delta, m) >= 0
               /\ \A n \in Counted : Held(Base, m) + Held(delta, m) >= Occurs(kids[n], m)
    <2>1. Held(Base, m) + Held(delta, m) = Cardinality(EdgesOf(kids, Counted, m))
      BY <1>3 DEF Inv, Exact
    <2>2. Cardinality(EdgesOf(kids, Counted, m)) \in Nat
      BY <1>1, EdgesFinite
    <2>3. ASSUME NEW n \in Counted PROVE Cardinality(EdgesOf(kids, Counted, m)) >= Occurs(kids[n], m)
      <3> DEFINE less == Counted \ {n}
      <3>1. IsFiniteSet(less) /\ n \notin less /\ less \cup {n} = Counted
        BY <1>1, FS_Subset
      <3> HIDE DEF less
      <3>2. /\ Cardinality(EdgesOf(kids, less \cup {n}, m)) = Cardinality(EdgesOf(kids, less, m)) + Occurs(kids[n], m)
            /\ Cardinality(EdgesOf(kids, less, m)) \in Nat
        BY <3>1, EdgesAdded, EdgesFinite
      <3>3. Occurs(kids[n], m) \in Int
        BY DEF Occurs
      <3>4. Cardinality(EdgesOf(kids, Counted, m)) = Cardinality(EdgesOf(kids, less, m)) + Occurs(kids[n], m)
        BY <3>1, <3>2
      <3> QED BY <3>2, <3>3, <3>4
    <2> QED BY <2>1, <2>2, <2>3
  <1> QED BY <1>1, <1>2, <1>3

LEMMA CountIs ==
  ASSUME NEW n \in Nodes, Count(n), UNCHANGED <<kids, others, base>>
  PROVE  /\ Counted' = Counted \cup {n}
         /\ plus' \subseteq plus \cup {n} /\ minus' \subseteq minus
         /\ base => plus' \subseteq plus \cup (Nodes \ reach)
         /\ (~InBase(n) => plus' = plus \cup {n} /\ minus' = minus)
  BY DEF Count, Counted, InBase, Nodes, others

LEMMA UncountIs ==
  ASSUME NEW n \in Counted, Uncount(n), UNCHANGED <<kids, others, base>>, base => plus \cap reach = {}
  PROVE  Counted' = Counted \ {n} /\ plus' \subseteq plus /\ minus' \subseteq minus \cup {n}
  BY DEF Uncount, Counted, InBase, others

\* A stack after its top was looked at, and some of what the top uses put on it.
LEMMA StackIs ==
  ASSUME Inv, stack # <<>>
  PROVE  /\ Last \in Nodes /\ Rest \in Seq(Nodes) /\ Elements(stack) = Elements(Rest) \cup {Last}
         /\ \A S : /\ Rest \o Plain!Among(kids[Last], S) \in Seq(Nodes)
                   /\ Elements(Rest \o Plain!Among(kids[Last], S)) = Elements(Rest) \cup (OpsOf(kids, Last) \cap S)
         /\ Rest \o kids[Last] \in Seq(Nodes)
         /\ Elements(Rest \o kids[Last]) = Elements(Rest) \cup OpsOf(kids, Last)
  <1>1. stack \in Seq(Nodes)
    BY DEF Inv, Types
  <1>2. Last \in Nodes /\ Rest \in Seq(Nodes) /\ Elements(stack) = Elements(Rest) \cup {Last}
    BY <1>1, TopElements DEF Last, Rest
  <1>3. kids[Last] \in Seq(Nodes) /\ Elements(kids[Last]) = OpsOf(kids, Last)
    BY <1>2 DEF Inv, Arena, WellFormed, Nodes, Elements, OpsOf
  <1>4. ASSUME NEW S
        PROVE  /\ Rest \o Plain!Among(kids[Last], S) \in Seq(Nodes)
               /\ Elements(Rest \o Plain!Among(kids[Last], S)) = Elements(Rest) \cup (OpsOf(kids, Last) \cap S)
    <2>1. Plain!Among(kids[Last], S) \in Seq(Nodes) /\ Elements(Plain!Among(kids[Last], S)) = OpsOf(kids, Last) \cap S
      BY <1>3, AmongIs
    <2> QED BY <1>2, <2>1, JoinedElements
  <1> QED BY <1>2, <1>3, <1>4, JoinedElements

LEMMA RetireNextKeeps == Inv /\ RetireNext => Inv'
  <1> SUFFICES ASSUME Inv, RetireNext PROVE Inv'
    OBVIOUS
  <1>1. /\ task = "retire" /\ task' = task /\ stack # <<>> /\ dead' = dead \cup {Last}
        /\ UNCHANGED <<arena, on, upto, others, seen, base>>
    BY DEF RetireNext, live
  <1>2. kids' = kids /\ Nodes' = Nodes /\ start' = start /\ othersUses' = othersUses /\ reach' = reach
    BY <1>1 DEF arena, Nodes, others
  <1>3. Arena'
    BY <1>1, ArenaStays DEF Inv, Arena
  <1>4. Last \in Nodes /\ Rest \in Seq(Nodes)
    BY <1>1, StackIs
  <1>5. Base' = Base
    BY <1>1, <1>2 DEF Base
  <1>6. CASE Last \in dead \/ Last \notin Counted
    <2>1. stack' = Rest /\ UNCHANGED live
      BY <1>6 DEF RetireNext
    <2>2. Counted' = Counted
      BY <1>1, <1>2, <2>1, CountedStays
    <2>3. Types'
      BY <1>1, <1>2, <1>4, <2>1 DEF Inv, Types, others, live, Counts
    <2>4. Phases'
      BY <1>1, <2>1 DEF Inv, Phases, live, Blank
    <2>5. OthersRight'
      BY <1>1, <2>1, OthersStay DEF Inv, OthersRight, live
    <2>6. Exact'
      BY <1>1, <1>2, <1>5, <2>1, <2>2 DEF Inv, Exact, live
    <2>7. Reaching'
      <3>1. Ahead' = {} /\ Ahead = {}
        BY <1>1 DEF Ahead
      <3>2. Counted \cap dead' = {}
        BY <1>1, <1>6 DEF Inv, Reaching
      <3> QED BY <1>1, <1>2, <2>2, <3>1, <3>2 DEF Inv, Reaching
    <2>8. Scratching'
      BY <1>1 DEF Scratching
    <2> QED BY <1>3, <2>3, <2>4, <2>5, <2>6, <2>7, <2>8 DEF Inv
  <1>7. CASE Last \notin dead /\ Last \in Counted
    <2>1. /\ Uncount(Last) /\ delta' = AllFewer(Last)
          /\ \E S : stack' = Rest \o Plain!Among(kids[Last], S)
      BY <1>7 DEF RetireNext, AllFewer
    <2>2. Counted' = Counted \ {Last} /\ plus' \subseteq plus /\ minus' \subseteq minus \cup {Last}
      BY <1>1, <1>2, <1>7, <2>1, UncountIs DEF Inv, OthersRight
    <2>3. PICK B \in SUBSET Nodes : Ints(Base, B)
      BY CountsAre
    <2>4. PICK D \in SUBSET Nodes : Ints(delta, D)
      BY CountsAre
    <2>5. Ints(delta', D \cup OpsOf(kids, Last)) /\ FallenAll(delta', Last)
      BY <1>1, <1>4, <1>7, <2>1, <2>3, <2>4, AllFewerHolds, CountsAre DEF Inv, Arena
    <2>6. on
      BY <1>1, <1>7 DEF Inv, Phases, Blank, Counted, InBase
    <2>7. Types'
      <3>1. stack' \in Seq(Nodes)
        BY <1>1, <2>1, StackIs
      <3>2. Counts(delta)'
        <4>1. D \cup OpsOf(kids, Last) \in SUBSET Nodes'
          BY <1>2, <1>4, OperandsOf DEF Inv, Arena
        <4> QED BY <2>5, <4>1 DEF Counts
      <3>3. Counts(othersUses)'
        BY <1>2 DEF Inv, Types, Counts
      <3> QED BY <1>1, <1>2, <1>4, <2>2, <3>1, <3>2, <3>3 DEF Inv, Types
    <2>8. Phases'
      BY <1>1, <2>6 DEF Inv, Phases
    <2>9. OthersRight'
      BY <1>1, <2>2, OthersStay DEF Inv, OthersRight
    <2>10. Exact'
      <3>1. ASSUME NEW m \in Nodes
            PROVE  Held(Base, m) + Held(delta', m) = Cardinality(EdgesOf(kids, Counted \ {Last}, m))
        <4> DEFINE less == Counted \ {Last}
        <4>1. IsFiniteSet(less) /\ Last \notin less /\ less \cup {Last} = Counted
          BY <1>7, CountsAre, FS_Subset
        <4> HIDE DEF less
        <4>2. /\ Cardinality(EdgesOf(kids, less \cup {Last}, m)) = Cardinality(EdgesOf(kids, less, m)) + Occurs(kids[Last], m)
              /\ Cardinality(EdgesOf(kids, less, m)) \in Nat
          BY <4>1, EdgesAdded, EdgesFinite
        <4>3. Held(Base, m) + Held(delta, m) = Cardinality(EdgesOf(kids, Counted, m))
          BY <1>1 DEF Inv, Exact
        <4>4. Held(delta, m) \in Int /\ Held(delta', m) = Held(delta, m) - Occurs(kids[Last], m)
          BY <2>5 DEF FallenAll
        <4>5. Held(Base, m) \in Int /\ Occurs(kids[Last], m) \in Int
          BY <2>3, IntsHeld DEF Occurs
        <4>6. Cardinality(EdgesOf(kids, Counted, m)) = Cardinality(EdgesOf(kids, less, m)) + Occurs(kids[Last], m)
          BY <4>1, <4>2
        <4>7. Held(Base, m) + Held(delta', m) = Cardinality(EdgesOf(kids, less, m))
          BY <4>2, <4>3, <4>4, <4>5, <4>6
        <4> QED BY <4>7 DEF less
      <3> QED BY <1>2, <1>5, <2>2, <3>1 DEF Exact
    <2>11. Reaching'
      <3>1. Ahead' = {} /\ Ahead = {}
        BY <1>1 DEF Ahead
      <3>2. Counted' \cap dead' = {}
        BY <1>1, <2>2 DEF Inv, Reaching
      <3>3. Counted \cup dead \subseteq Counted' \cup dead'
        BY <1>1, <2>2
      <3> QED BY <1>1, <1>2, <2>2, <3>1, <3>2, <3>3 DEF Inv, Reaching
    <2>12. Scratching'
      BY <1>1 DEF Scratching
    <2> QED BY <1>3, <2>7, <2>8, <2>9, <2>10, <2>11, <2>12 DEF Inv
  <1> QED BY <1>6, <1>7

\* The nodes the others reach, and the uses they make.
LEMMA OthersAre ==
  ASSUME Inv
  PROVE  LET low == BelowOf(kids, OtherRoots, {})
         IN  /\ low \in SUBSET Nodes /\ OtherRoots \subseteq low /\ OtherRoots \subseteq Nodes
             /\ \A n \in low : OpsOf(kids, n) \subseteq low
             /\ Elements(roots) = OtherRoots \cup {roots[active]} /\ roots[active] \in Nodes
  <1> DEFINE low == BelowOf(kids, OtherRoots, {})
  <1>1. /\ roots \in Seq(Nodes) /\ active \in DOMAIN roots /\ DOMAIN roots = 1 .. Len(roots)
        /\ \A i \in 1 .. Len(roots) : roots[i] \in Nodes
    BY LenProperties DEF Inv, Arena
  <1>2. OtherRoots \subseteq Nodes /\ roots[active] \in Nodes /\ Elements(roots) = OtherRoots \cup {roots[active]}
    BY <1>1 DEF OtherRoots, Elements
  <1>3. OtherRoots \ {} = OtherRoots /\ \A n : OpsOf(kids, n) \ {} = OpsOf(kids, n)
    OBVIOUS
  <1>4. WellFormed(kids)
    BY DEF Inv, Arena
  <1>5. /\ low \subseteq Nodes /\ OtherRoots \ {} \subseteq low
        /\ \A n \in low : OpsOf(kids, n) \ {} \subseteq low
    BY <1>2, <1>4, BelowHolds
  <1> HIDE DEF low
  <1>6. low \in SUBSET Nodes /\ OtherRoots \subseteq low /\ \A n \in low : OpsOf(kids, n) \subseteq low
    BY <1>3, <1>5
  <1> QED BY <1>2, <1>6 DEF low

LEMMA UsesAre ==
  ASSUME Inv, NEW S \in SUBSET Nodes
  PROVE  /\ Counts(UsesOf(kids, S)) /\ DOMAIN UsesOf(kids, S) = AllOps(kids, S)
         /\ \A m : Held(UsesOf(kids, S), m) = Cardinality(EdgesOf(kids, S, m))
  <1> DEFINE f == UsesOf(kids, S)
             D == AllOps(kids, S)
  <1>1. /\ f = [n \in D |-> f[n]] /\ DOMAIN f = D
        /\ \A n \in D : f[n] = Cardinality(EdgesOf(kids, S, n))
    BY DEF UsesOf
  <1>2. D \in SUBSET Nodes
    BY OperandsOf DEF Inv, Arena, AllOps
  <1>3. \A n : Cardinality(EdgesOf(kids, S, n)) \in Nat
    BY EdgesFinite, NodesFinite DEF Inv
  <1>4. ASSUME NEW m, m \notin D PROVE Cardinality(EdgesOf(kids, S, m)) = 0
    <2>1. \A n \in S : \A k \in DOMAIN kids[n] : kids[n][k] # m
      BY <1>4 DEF OpsOf, AllOps
    <2>2. EdgesOf(kids, S, m) = {}
      BY <2>1 DEF EdgesOf
    <2> QED BY <2>2, NothingCounted
  <1> HIDE DEF f, D
  <1>5. Ints(f, D)
    <2>1. \A n \in D : f[n] \in Int
      BY <1>1, <1>3
    <2> QED BY <1>1, <2>1 DEF Ints
  <1>6. \A m : Held(f, m) = Cardinality(EdgesOf(kids, S, m))
    BY <1>1, <1>4 DEF Held
  <1>7. Counts(f)
    BY <1>2, <1>5 DEF Counts
  <1> QED BY <1>1, <1>6, <1>7 DEF f, D

\* A node the others reach is reached without the nodes replaced, if they reach none.
LEMMA ReachedStill ==
  ASSUME Inv, BelowOf(kids, OtherRoots, {}) \cap dead = {}
  PROVE  BelowOf(kids, OtherRoots, {}) \subseteq BelowOf(kids, Elements(roots), dead)
  <1> DEFINE low == BelowOf(kids, OtherRoots, {})
             all == BelowOf(kids, Elements(roots), dead)
  <1>1. /\ low \in SUBSET Nodes /\ OtherRoots \subseteq low /\ OtherRoots \subseteq Elements(roots)
        /\ \A n \in low : OpsOf(kids, n) \subseteq low
    BY OthersAre
  <1>2. /\ all \subseteq Nodes /\ Elements(roots) \ dead \subseteq all
        /\ \A n \in all : OpsOf(kids, n) \ dead \subseteq all
    BY BelowHolds, ElementsIn DEF Inv, Arena
  <1> DEFINE both == low \cap all
  <1>3. low \cap dead = {}
    OBVIOUS
  <1> HIDE DEF low, all
  <1>4. both \in SUBSET Nodes /\ OtherRoots \ {} \subseteq both /\ \A n \in both : OpsOf(kids, n) \ {} \subseteq both
    BY <1>1, <1>2, <1>3
  <1> HIDE DEF both
  <1>5. BelowOf(kids, OtherRoots, {}) \subseteq both
    BY <1>4, BelowLeast
  <1> QED BY <1>5 DEF both, low, all

LEMMA RefreshKeeps == Inv /\ Refresh => Inv'
  <1> SUFFICES ASSUME Inv, Refresh PROVE Inv'
    OBVIOUS
  <1> DEFINE low == BelowOf(kids, OtherRoots, {})
  <1>1. /\ task = "walk" /\ ~on /\ on' = on /\ Blank
        /\ UNCHANGED <<kids, roots, active, start, upto, dead, plus, minus, delta>>
        /\ seen' = {}
    BY DEF Refresh, Inv, Phases, arena
  <1>2. othersFor' = active /\ reach' = low /\ othersUses' = UsesOf(kids, low)
    <2>1. CASE othersFor = active
      BY <2>1 DEF Refresh, Inv, OthersRight, others
    <2>2. CASE othersFor # active
      BY <2>2, PlainIs DEF Refresh, OtherRoots
    <2> QED BY <2>1, <2>2
  <1>3. /\ low \in SUBSET Nodes /\ OtherRoots \subseteq low /\ OtherRoots \subseteq Nodes
        /\ \A n \in low : OpsOf(kids, n) \subseteq low
        /\ Elements(roots) = OtherRoots \cup {roots[active]} /\ roots[active] \in Nodes
    BY OthersAre
  <1>4. /\ Counts(UsesOf(kids, low)) /\ DOMAIN UsesOf(kids, low) = AllOps(kids, low)
        /\ \A m : Held(UsesOf(kids, low), m) = Cardinality(EdgesOf(kids, low, m))
    BY <1>3, UsesAre
  <1>5. low \cap dead = {} => low \subseteq BelowOf(kids, Elements(roots), dead)
    BY ReachedStill
  <1>6. Elements(roots) \ dead \subseteq BelowOf(kids, Elements(roots), dead)
    BY BelowHolds, ElementsIn DEF Inv, Arena
  <1>7. \/ task' = "stopped" /\ stack' = <<>> /\ base' = FALSE
        \/ /\ task' = "scratch" /\ base' = (low \cap dead = {} /\ low # {})
           /\ stack' = IF low \cap dead = {} THEN <<roots[active]>> ELSE roots
    BY <1>1, <1>2 DEF Refresh, OthersHold, Blank
  <1> HIDE DEF low
  <1>8. Nodes' = Nodes /\ OtherRoots' = OtherRoots
    BY <1>1 DEF Nodes, OtherRoots
  <1>9. Arena'
    BY <1>1, ArenaStays DEF Inv, Arena, arena
  <1>10. stack' \in Seq(Nodes)
    <2>1. roots \in Seq(Nodes) /\ <<roots[active]>> \in Seq(Nodes)
      BY <1>3, SingleElement DEF Inv, Arena
    <2>2. <<>> \in Seq(Nodes)
      OBVIOUS
    <2>3. stack' = <<>> \/ stack' = <<roots[active]>> \/ stack' = roots
      BY <1>7
    <2> QED BY <2>1, <2>2, <2>3
  <1>11. Types'
    <2>1. Counts(delta)' /\ Counts(othersUses)'
      BY <1>1, <1>2, <1>4, <1>8 DEF Inv, Types, Counts
    <2>2. reach' \subseteq Nodes' /\ base' \in BOOLEAN /\ task' \in {"stopped", "scratch"}
      BY <1>2, <1>3, <1>7, <1>8
    <2> QED BY <1>1, <1>8, <1>10, <2>1, <2>2 DEF Inv, Types
  <1>12. Phases'
    BY <1>1, <1>7 DEF Phases, Blank
  <1>13. OthersRight'
    <2>1. active \in Nat
      BY LenProperties DEF Inv, Arena
    <2>2. reach' = BelowOf(kids', OtherRoots', {})
      BY <1>1, <1>2, <1>8 DEF low
    <2>3. plus' \cap reach' = {}
      BY <1>1 DEF Blank
    <2> QED BY <1>1, <1>2, <2>1, <2>2, <2>3 DEF OthersRight
  <1>14. delta' = NoChange /\ plus' = {} /\ minus' = {}
    BY <1>1 DEF Blank
  <1>15. CASE base' = FALSE
    <2>1. Counted' = {} /\ Base' = NoChange
      BY <1>14, <1>15 DEF Counted, InBase, Base
    <2>2. Exact'
      <3>1. \A n : Held(Base', n) = 0 /\ Held(delta', n) = 0
        BY <1>14, <2>1, NothingCounted
      <3>2. \A n : Cardinality(EdgesOf(kids', Counted', n)) = 0
        BY <2>1, NothingCounted
      <3> QED BY <3>1, <3>2 DEF Exact
    <2>3. Reaching'
      BY <1>1, <2>1 DEF Reaching
    <2>4. Scratching'
      <3>1. SUFFICES ASSUME task' = "scratch" PROVE Scratching'
        BY DEF Scratching
      <3>2. Elements(stack') = Elements(roots)
        <4>1. CASE low \cap dead = {}
          <5>1. low = {} /\ stack' = <<roots[active]>>
            BY <1>7, <1>15, <3>1, <4>1
          <5>2. OtherRoots = {}
            BY <1>3, <5>1
          <5> QED BY <1>3, <5>1, <5>2, SingleElement
        <4>2. CASE low \cap dead # {}
          BY <1>7, <3>1, <4>2
        <4> QED BY <4>1, <4>2
      <3>3. DOMAIN Base' \cup DOMAIN delta' = {} /\ AllOps(kids', Counted') = {}
        BY <1>14, <2>1 DEF NoChange, AllOps
      <3>4. BelowOf(kids', Elements(roots'), dead') = BelowOf(kids, Elements(roots), dead) /\ Elements(roots') = Elements(roots)
        BY <1>1
      <3> QED BY <1>1, <1>6, <1>14, <2>1, <3>2, <3>3, <3>4 DEF Scratching
    <2> QED BY <1>9, <1>11, <1>12, <1>13, <2>2, <2>3, <2>4 DEF Inv
  <1>16. CASE base' = TRUE
    <2>1. task' = "scratch" /\ low \cap dead = {} /\ stack' = <<roots[active]>>
      BY <1>7, <1>16
    <2>2. Counted' = low /\ Base' = UsesOf(kids, low)
      <3>1. \A n : n \in Counted' <=> n \in DOMAIN kids /\ n \in low
        BY <1>1, <1>2, <1>14, <1>16 DEF Counted, InBase
      <3> QED BY <1>2, <1>3, <1>16, <3>1 DEF Base, Nodes
    <2>3. Exact'
      <3>1. ASSUME NEW n \in Nodes' PROVE Held(Base', n) + Held(delta', n) = Cardinality(EdgesOf(kids', Counted', n))
        <4>1. Held(Base', n) = Cardinality(EdgesOf(kids', Counted', n)) /\ Held(delta', n) = 0
          BY <1>1, <1>4, <1>14, <2>2, NothingCounted
        <4>2. Cardinality(EdgesOf(kids', Counted', n)) \in Nat
          BY <1>1, <1>3, <2>2, NodesFinite, EdgesFinite DEF Inv
        <4> QED BY <4>1, <4>2
      <3> QED BY <3>1 DEF Exact
    <2>4. Reaching'
      BY <1>1, <1>3, <2>1, <2>2 DEF Reaching
    <2>5. Scratching'
      <3>1. Elements(stack') = {roots[active]}
        BY <1>3, <2>1, SingleElement
      <3>2. DOMAIN Base' \cup DOMAIN delta' = AllOps(kids', Counted')
        BY <1>1, <1>4, <1>14, <2>2 DEF NoChange
      <3>3. BelowOf(kids', Elements(roots'), dead') = BelowOf(kids, Elements(roots), dead) /\ Elements(roots') = Elements(roots)
        BY <1>1
      <3>4. Counted' \cup (Elements(stack') \ dead') \subseteq BelowOf(kids', Elements(roots'), dead')
        BY <1>1, <1>3, <1>5, <1>6, <2>1, <2>2, <3>1, <3>3
      <3>5. Elements(roots') \ dead' \subseteq Counted' \cup Elements(stack')
        BY <1>1, <1>3, <2>2, <3>1, <3>3
      <3> QED BY <1>1, <1>14, <3>2, <3>4, <3>5 DEF Scratching
    <2> QED BY <1>9, <1>11, <1>12, <1>13, <2>3, <2>4, <2>5 DEF Inv
  <1> QED BY <1>7, <1>15, <1>16

LEMMA ScratchNextKeeps == Inv /\ ScratchNext => Inv'
  <1> SUFFICES ASSUME Inv, ScratchNext PROVE Inv'
    OBVIOUS
  <1>1. /\ task = "scratch" /\ stack # <<>> /\ UNCHANGED <<arena, on, upto, dead, others>> /\ ~on
    BY DEF ScratchNext, Inv, Phases
  <1>2. kids' = kids /\ Nodes' = Nodes /\ roots' = roots /\ start' = start /\ othersUses' = othersUses /\ reach' = reach
    BY <1>1 DEF arena, Nodes, others
  <1>3. Arena'
    BY <1>1, ArenaStays DEF Inv, Arena
  <1>4. Last \in Nodes /\ Rest \in Seq(Nodes) /\ Elements(stack) = Elements(Rest) \cup {Last}
    BY <1>1, StackIs
  <1>5. /\ minus = {} /\ seen = plus /\ Elements(roots) \ dead \subseteq Counted \cup Elements(stack)
        /\ Counted \cup (Elements(stack) \ dead) \subseteq BelowOf(kids, Elements(roots), dead)
        /\ DOMAIN Base \cup DOMAIN delta = AllOps(kids, Counted)
    BY <1>1 DEF Inv, Scratching
  <1>6. /\ Counted \cap dead = {}
        /\ \A n \in Counted : OpsOf(kids, n) \subseteq Counted \cup dead \cup Elements(stack)
    BY <1>1 DEF Inv, Reaching, Ahead
  <1>7. CASE InBase(Last) \/ Last \in seen \/ Last \in dead
    <2>1. stack' = Rest /\ UNCHANGED <<live, seen, task>>
      BY <1>7 DEF ScratchNext
    <2>2. Counted' = Counted /\ Base' = Base /\ delta' = delta
      BY <1>1, <1>2, <2>1, CountedStays DEF live
    <2>3. Last \in Counted \cup dead
      BY <1>4, <1>5, <1>7 DEF Counted, Nodes
    <2>4. Types'
      BY <1>1, <1>2, <1>4, <2>1 DEF Inv, Types, others, live, Counts
    <2>5. Phases'
      BY <1>1, <2>1 DEF Inv, Phases
    <2>6. OthersRight'
      BY <1>1, <2>1, OthersStay DEF Inv, OthersRight, live
    <2>7. Exact'
      BY <1>1, <1>2, <2>1, <2>2 DEF Inv, Exact
    <2>8. Reaching'
      <3>1. Ahead' = Elements(Rest)
        BY <1>1, <2>1 DEF Ahead, Elements
      <3>2. \A n \in Counted : OpsOf(kids, n) \subseteq Counted \cup dead \cup Elements(Rest)
        BY <1>4, <1>6, <2>3
      <3> QED BY <1>1, <1>2, <1>6, <2>2, <3>1, <3>2 DEF Reaching
    <2>9. Scratching'
      <3>1. Elements(stack') = Elements(Rest) /\ Elements(roots') = Elements(roots)
        BY <1>2, <2>1
      <3>2. Elements(roots) \ dead \subseteq Counted \cup Elements(Rest)
        BY <1>4, <1>5, <2>3
      <3>3. Counted \cup (Elements(Rest) \ dead) \subseteq BelowOf(kids, Elements(roots), dead)
        BY <1>4, <1>5
      <3>4. minus' = {} /\ seen' = plus'
        BY <1>5, <2>1 DEF live
      <3> QED BY <1>1, <1>2, <1>5, <2>2, <3>1, <3>2, <3>3, <3>4 DEF Scratching
    <2> QED BY <1>3, <2>4, <2>5, <2>6, <2>7, <2>8, <2>9 DEF Inv
  <1>8. CASE /\ ~(InBase(Last) \/ Last \in seen \/ Last \in dead)
             /\ Cleared /\ task' = "stopped" /\ stack' = <<>>
    <2>1. base' = FALSE /\ plus' = {} /\ minus' = {} /\ delta' = NoChange /\ seen' = seen \cup {Last}
      BY <1>8 DEF Cleared, ScratchNext
    <2>2. Counted' = {}
      BY <2>1 DEF Counted, InBase
    <2>3. Types'
      <3>1. Counts(delta)' /\ Counts(othersUses)'
        BY <1>2, <2>1, NothingCounted DEF Inv, Types, Counts
      <3>2. stack' \in Seq(Nodes)
        BY <1>8
      <3> QED BY <1>1, <1>2, <1>8, <2>1, <3>1, <3>2 DEF Inv, Types
    <2>4. Phases'
      BY <1>8, <2>1 DEF Phases, Blank
    <2>5. OthersRight'
      BY <1>1, <2>1, OthersStay DEF Inv
    <2>6. Exact' /\ Reaching' /\ Scratching'
      BY <1>8, <2>2 DEF Exact, Reaching, Scratching
    <2> QED BY <1>3, <2>3, <2>4, <2>5, <2>6 DEF Inv
  <1>9. CASE /\ ~(InBase(Last) \/ Last \in seen \/ Last \in dead) /\ seen' = seen \cup {Last}
             /\ delta' = AllMore(Last) /\ Count(Last) /\ stack' = Rest \o kids[Last] /\ UNCHANGED <<base, task>>
    <2>1. Last \notin Counted /\ ~InBase(Last) /\ Last \notin dead
      BY <1>5, <1>9 DEF Counted
    <2>2. Counted' = Counted \cup {Last} /\ plus' = plus \cup {Last} /\ minus' = minus
      BY <1>1, <1>2, <1>4, <1>9, <2>1, CountIs
    <2>3. Base' = Base /\ base' = base
      BY <1>2, <1>9 DEF Base
    <2>4. PICK B \in SUBSET Nodes : Ints(Base, B)
      BY CountsAre
    <2>5. PICK D \in SUBSET Nodes : Ints(delta, D)
      BY CountsAre
    <2>6. Ints(delta', D \cup OpsOf(kids, Last)) /\ RisenAll(delta', Last)
      BY <1>1, <1>4, <1>9, <2>4, <2>5, AllMoreHolds, CountsAre DEF Inv, Arena
    <2>7. stack' \in Seq(Nodes) /\ Elements(stack') = Elements(Rest) \cup OpsOf(kids, Last)
      BY <1>1, <1>9, StackIs
    <2>8. OpsOf(kids, Last) \subseteq Nodes
      BY <1>4, OperandsOf DEF Inv, Arena
    <2>9. Types'
      <3>1. Counts(delta)'
        <4>1. D \cup OpsOf(kids, Last) \in SUBSET Nodes'
          BY <1>2, <2>8
        <4> QED BY <2>6, <4>1 DEF Counts
      <3>2. Counts(othersUses)'
        BY <1>2 DEF Inv, Types, Counts
      <3> QED BY <1>1, <1>2, <1>4, <1>9, <2>2, <2>7, <3>1, <3>2 DEF Inv, Types
    <2>10. Phases'
      BY <1>1, <1>9 DEF Inv, Phases
    <2>11. OthersRight'
      <3>1. base' => base /\ plus' \cap reach = {}
        BY <1>4, <2>1, <2>2, <2>3 DEF Inv, OthersRight, InBase
      <3> QED BY <1>1, <3>1, OthersStay DEF Inv
    <2>12. Exact'
      <3>1. ASSUME NEW m \in Nodes
            PROVE  Held(Base, m) + Held(delta', m) = Cardinality(EdgesOf(kids, Counted \cup {Last}, m))
        <4>1. /\ Cardinality(EdgesOf(kids, Counted \cup {Last}, m))
                 = Cardinality(EdgesOf(kids, Counted, m)) + Occurs(kids[Last], m)
              /\ Cardinality(EdgesOf(kids, Counted, m)) \in Nat
          BY <2>1, CountsAre, EdgesAdded, EdgesFinite
        <4>2. Held(Base, m) + Held(delta, m) = Cardinality(EdgesOf(kids, Counted, m))
          BY <1>1 DEF Inv, Exact
        <4>3. Held(delta, m) \in Int /\ Held(delta', m) = Held(delta, m) + Occurs(kids[Last], m)
          BY <2>6 DEF RisenAll
        <4>4. Held(Base, m) \in Int /\ Occurs(kids[Last], m) \in Int
          BY <2>4, IntsHeld DEF Occurs
        <4> QED BY <4>1, <4>2, <4>3, <4>4
      <3> QED BY <1>2, <2>2, <2>3, <3>1 DEF Exact
    <2>13. Reaching'
      <3>1. Ahead' = Elements(stack')
        BY <1>1, <1>9 DEF Ahead, Elements
      <3>2. \A n \in Counted' : OpsOf(kids, n) \subseteq Counted' \cup dead \cup Elements(stack')
        BY <1>4, <1>6, <2>2, <2>7
      <3>3. Counted' \cap dead' = {}
        BY <1>1, <1>6, <2>1, <2>2
      <3> QED BY <1>1, <1>2, <3>1, <3>2, <3>3 DEF Reaching
    <2>14. Scratching'
      <3>1. minus' = {} /\ seen' = plus'
        BY <1>5, <1>9, <2>2
      <3>2. Elements(roots) \ dead \subseteq Counted' \cup Elements(stack')
        BY <1>4, <1>5, <2>2, <2>7
      <3>3. Counted' \cup (Elements(stack') \ dead) \subseteq BelowOf(kids, Elements(roots), dead)
        <4>1. \A n \in BelowOf(kids, Elements(roots), dead) : OpsOf(kids, n) \ dead \subseteq BelowOf(kids, Elements(roots), dead)
          BY BelowHolds, ElementsIn DEF Inv, Arena
        <4>2. Last \in BelowOf(kids, Elements(roots), dead)
          BY <1>4, <1>5, <2>1
        <4> QED BY <1>4, <1>5, <2>2, <2>7, <4>1, <4>2
      <3>4. DOMAIN Base' \cup DOMAIN delta' = AllOps(kids, Counted')
        <4>1. DOMAIN delta' = DOMAIN delta \cup OpsOf(kids, Last)
          BY <2>5, <2>6 DEF Ints
        <4>2. AllOps(kids, Counted') = AllOps(kids, Counted) \cup OpsOf(kids, Last)
          BY <2>2, AllOpsAdded
        <4> QED BY <1>5, <2>3, <4>1, <4>2
      <3> QED BY <1>1, <1>2, <3>1, <3>2, <3>3, <3>4 DEF Scratching
    <2> QED BY <1>3, <2>9, <2>10, <2>11, <2>12, <2>13, <2>14 DEF Inv
  <1> QED BY <1>7, <1>8, <1>9 DEF ScratchNext, AllMore

\* The nodes built since, but for those known.
LEMMA FreshIs ==
  ASSUME Arena, NEW from \in 0 .. Len(kids), NEW known
  PROVE  /\ Plain!Fresh(from, known) \in Seq(Nodes)
         /\ Elements(Plain!Fresh(from, known)) = {n \in Nodes : from < n} \ known
  <1>1. Len(kids) \in Nat /\ Nodes = 1 .. Len(kids)
    BY DEF Arena, WellFormed, Nodes
  <1>2. PICK len : len = Len(kids) /\ len \in Nat /\ from \in 0 .. len
    BY <1>1
  <1> DEFINE s == [i \in 1 .. len - from |-> len + 1 - i]
  <1>3. \A i \in 1 .. len - from : len + 1 - i \in 1 .. len /\ from < len + 1 - i
    BY <1>2
  <1>4. s \in Seq(Nodes)
    <2>0. len - from \in Nat
      BY <1>2
    <2>1. PICK k \in Nat : k = len - from
      BY <2>0
    <2>2. \A i \in 1 .. k : len + 1 - i \in Nodes
      BY <1>1, <1>2, <1>3, <2>1
    <2>3. [i \in 1 .. k |-> len + 1 - i] \in Seq(Nodes)
      BY <2>2, IsASeq
    <2> QED BY <2>1, <2>3
  <1>5. Elements(s) = {n \in Nodes : from < n}
    <2>1. Elements(s) = {len + 1 - i : i \in 1 .. len - from}
      BY DEF Elements
    <2>2. ASSUME NEW n \in 1 .. len, from < n PROVE n \in {len + 1 - i : i \in 1 .. len - from}
      <3>1. len + 1 - n \in 1 .. len - from /\ len + 1 - (len + 1 - n) = n
        BY <1>2, <2>2
      <3> QED BY <3>1
    <2> QED BY <1>1, <1>2, <1>3, <2>1, <2>2
  <1>6. Plain!Fresh(from, known) = Plain!Among(s, Nodes \ known)
    BY <1>2 DEF Plain!Fresh, Plain!Nodes, Nodes
  <1> HIDE DEF s
  <1>7. /\ Plain!Among(s, Nodes \ known) \in Seq(Nodes)
        /\ Elements(Plain!Among(s, Nodes \ known)) = Elements(s) \cap (Nodes \ known)
    BY <1>4, AmongIs
  <1> QED BY <1>5, <1>6, <1>7

\* Nothing is counted yet of the nodes it finds; which they are is the same for both.
LEMMA LookAtNewKeeps ==
  ASSUME Inv, task \in {"scratch", "walk"}, task = "walk" => on, stack = <<>>,
         NEW from \in 0 .. Len(kids), from = (IF task = "walk" THEN upto ELSE start),
         LookAtNew(from), on' = TRUE, upto' \in 0 .. Len(kids), UNCHANGED <<arena, dead, others, live, seen>>
  PROVE  Inv'
  <1>1. kids' = kids /\ Nodes' = Nodes /\ start' = start
    BY DEF arena, Nodes
  <1>2. \/ task' = "stopped" /\ stack' = <<>>
        \/ /\ task' = "count" /\ stack' \in Seq(Nodes)
           /\ Elements(stack') = {n \in Nodes : from < n} \ (dead \cup Counted)
    BY FreshIs DEF LookAtNew, Inv
  <1>3. Arena'
    BY ArenaStays DEF Inv
  <1>4. Types'
    <2>1. stack' \in Seq(Nodes')
      <3>1. <<>> \in Seq(Nodes)
        OBVIOUS
      <3>2. stack' \in Seq(Nodes)
        BY <1>2, <3>1
      <3> QED BY <1>1, <3>2
    <2>2. task' \in {"stopped", "count"}
      BY <1>2
    <2> QED BY <1>1, <2>1, <2>2 DEF Inv, Types, others, live, Counts
  <1>5. Phases'
    BY <1>2 DEF Phases
  <1>6. OthersRight'
    BY OthersStay DEF Inv, OthersRight, live
  <1>7. Counted' = Counted /\ Base' = Base
    BY <1>1, CountedStays
  <1>8. Exact'
    BY <1>1, <1>7 DEF Inv, Exact, live
  <1>9. Reaching'
    <2>1. SUFFICES ASSUME task' = "count" PROVE Reaching'
      BY <1>1, <1>2, <1>7 DEF Inv, Reaching
    <2>2. Ahead' = Elements(stack') /\ Ahead = {}
      BY <2>1 DEF Ahead, Elements
    <2>3. Elements(stack') = {n \in Nodes : from < n} \ (dead \cup Counted)
      BY <1>2, <2>1
    <2>4. \A n \in Nodes : start < n => n \in Counted \cup dead \cup Elements(stack')
      <3>1. ASSUME NEW n \in Nodes, start < n PROVE n \in Counted \cup dead \cup Elements(stack')
        <4>1. n \in Int /\ upto \in Int /\ start \in Int /\ from \in Int
          BY DEF Inv, Arena, WellFormed, Nodes
        <4>2. CASE from < n
          BY <2>3, <4>2
        <4>3. CASE ~(from < n)
          <5>1. task = "walk" /\ n <= upto
            BY <3>1, <4>1, <4>3
          <5> QED BY <2>2, <3>1, <5>1 DEF Inv, Reaching
        <4> QED BY <4>2, <4>3
      <3> QED BY <3>1
    <2>5. /\ Counted \cap dead = {} /\ \A n \in Counted : OpsOf(kids, n) \subseteq Counted \cup dead
      BY <2>2 DEF Inv, Reaching
    <2> QED BY <1>1, <1>7, <2>2, <2>4, <2>5 DEF Reaching
  <1>10. Scratching'
    BY <1>2 DEF Scratching
  <1> QED BY <1>3, <1>4, <1>5, <1>6, <1>8, <1>9, <1>10 DEF Inv

LEMMA ScratchDoneKeeps == Inv /\ ScratchDone => Inv'
  <1> SUFFICES ASSUME Inv, ScratchDone PROVE Inv'
    OBVIOUS
  <1>1. start \in 0 .. Len(kids)
    BY DEF Inv, Arena
  <1> QED BY <1>1, LookAtNewKeeps DEF ScratchDone

LEMMA RefreshMoreKeeps == Inv /\ RefreshMore => Inv'
  <1> SUFFICES ASSUME Inv, RefreshMore PROVE Inv'
    OBVIOUS
  <1>1. upto \in 0 .. Len(kids) /\ stack = <<>>
    BY DEF Inv, Arena, Phases, RefreshMore
  <1> QED BY <1>1, LookAtNewKeeps DEF RefreshMore

LEMMA CountNextKeeps == Inv /\ CountNext => Inv'
  <1> SUFFICES ASSUME Inv, CountNext PROVE Inv'
    OBVIOUS
  <1>1. /\ task = "count" /\ stack # <<>> /\ UNCHANGED <<arena, on, upto, others, seen>> /\ on
    BY DEF CountNext, Inv, Phases
  <1>2. kids' = kids /\ Nodes' = Nodes /\ roots' = roots /\ start' = start /\ othersUses' = othersUses /\ reach' = reach
    BY <1>1 DEF arena, Nodes, others
  <1>3. Arena'
    BY <1>1, ArenaStays DEF Inv, Arena
  <1>4. Last \in Nodes /\ Rest \in Seq(Nodes) /\ Elements(stack) = Elements(Rest) \cup {Last}
    BY <1>1, StackIs
  <1>5. /\ Counted \cap dead = {}
        /\ \A n \in Counted : OpsOf(kids, n) \subseteq Counted \cup dead \cup Elements(stack)
        /\ \A n \in Nodes : start < n => n \in Counted \cup dead \cup Elements(stack)
    BY <1>1 DEF Inv, Reaching, Ahead
  <1>6. CASE Last \in Counted
    <2>1. stack' = Rest /\ UNCHANGED <<live, dead, task>>
      BY <1>6 DEF CountNext
    <2>2. Counted' = Counted /\ Base' = Base
      BY <1>1, <1>2, <2>1, CountedStays
    <2>3. Types'
      BY <1>1, <1>2, <1>4, <2>1 DEF Inv, Types, others, live, Counts
    <2>4. Phases'
      BY <1>1, <2>1 DEF Inv, Phases
    <2>5. OthersRight'
      BY <1>1, <2>1, OthersStay DEF Inv, OthersRight, live
    <2>6. Exact'
      BY <1>1, <1>2, <2>1, <2>2 DEF Inv, Exact, live
    <2>7. Reaching'
      <3>1. Ahead' = Elements(Rest)
        BY <1>1, <2>1 DEF Ahead, Elements
      <3>2. Counted \cup dead \cup Elements(stack) = Counted \cup dead \cup Elements(Rest)
        BY <1>4, <1>6
      <3> QED BY <1>1, <1>2, <1>5, <2>1, <2>2, <3>1, <3>2 DEF Reaching
    <2>8. Scratching'
      BY <1>1, <2>1 DEF Scratching
    <2> QED BY <1>3, <2>3, <2>4, <2>5, <2>6, <2>7, <2>8 DEF Inv
  <1>7. CASE Last \notin Counted
    <2>1. /\ Count(Last) /\ dead' = dead \ {Last} /\ base' = base
          /\ \/ /\ delta' = AllMore(Last) /\ task' = "count"
                /\ stack' = Rest \o Plain!Among(kids[Last], DOMAIN kids \ Counted')
             \/ task' = "stopped" /\ stack' = <<>> /\ delta' = delta
      BY <1>1, <1>7 DEF CountNext, AllMore
    <2>2. /\ Counted' = Counted \cup {Last} /\ minus' \subseteq minus /\ plus' \subseteq plus \cup {Last}
          /\ base => plus' \subseteq plus \cup (Nodes \ reach)
      BY <1>1, <1>2, <1>4, <2>1, CountIs
    <2>3. Base' = Base
      BY <1>2, <2>1 DEF Base
    <2>4. OthersRight'
      <3>1. base' => base /\ plus' \cap reach = {}
        BY <2>1, <2>2 DEF Inv, OthersRight
      <3> QED BY <1>1, <3>1, OthersStay DEF Inv
    <2>5. Phases'
      BY <1>1, <2>1 DEF Phases
    <2>6. Scratching'
      BY <2>1 DEF Scratching
    <2>7. Counted' \cap dead' = {}
      BY <1>5, <2>1, <2>2
    <2>8. Counts(othersUses)'
      BY <1>2 DEF Inv, Types, Counts
    <2>9. CASE task' = "stopped" /\ stack' = <<>> /\ delta' = delta
      <3>1. Types'
        <4>1. stack' \in Seq(Nodes') /\ Counts(delta)'
          BY <1>2, <2>9 DEF Inv, Types, Counts
        <4> QED BY <1>1, <1>2, <1>4, <2>1, <2>2, <2>8, <2>9, <4>1 DEF Inv, Types
      <3>2. Exact' /\ Reaching'
        BY <2>7, <2>9 DEF Exact, Reaching
      <3> QED BY <1>3, <2>4, <2>5, <2>6, <3>1, <3>2 DEF Inv
    <2>10. CASE /\ delta' = AllMore(Last) /\ task' = "count"
                /\ stack' = Rest \o Plain!Among(kids[Last], DOMAIN kids \ Counted')
      <3>1. PICK B \in SUBSET Nodes : Ints(Base, B)
        BY CountsAre
      <3>2. PICK D \in SUBSET Nodes : Ints(delta, D)
        BY CountsAre
      <3>3. Ints(delta', D \cup OpsOf(kids, Last)) /\ RisenAll(delta', Last)
        BY <1>1, <1>4, <2>10, <3>1, <3>2, AllMoreHolds, CountsAre DEF Inv, Arena
      <3>4. OpsOf(kids, Last) \subseteq Nodes
        BY <1>4, OperandsOf DEF Inv, Arena
      <3>5. /\ stack' \in Seq(Nodes)
            /\ Elements(stack') = Elements(Rest) \cup (OpsOf(kids, Last) \cap (DOMAIN kids \ Counted'))
        BY <1>1, <2>10, StackIs
      <3>6. Types'
        <4>1. Counts(delta)'
          <5>1. D \cup OpsOf(kids, Last) \in SUBSET Nodes'
            BY <1>2, <3>4
          <5> QED BY <3>3, <5>1 DEF Counts
        <4> QED BY <1>1, <1>2, <1>4, <2>1, <2>2, <2>8, <2>10, <3>5, <4>1 DEF Inv, Types
      <3>7. Exact'
        <4>1. ASSUME NEW m \in Nodes
              PROVE  Held(Base, m) + Held(delta', m) = Cardinality(EdgesOf(kids, Counted \cup {Last}, m))
          <5>1. /\ Cardinality(EdgesOf(kids, Counted \cup {Last}, m))
                   = Cardinality(EdgesOf(kids, Counted, m)) + Occurs(kids[Last], m)
                /\ Cardinality(EdgesOf(kids, Counted, m)) \in Nat
            BY <1>7, CountsAre, EdgesAdded, EdgesFinite
          <5>2. Held(Base, m) + Held(delta, m) = Cardinality(EdgesOf(kids, Counted, m))
            BY <1>1 DEF Inv, Exact
          <5>3. Held(delta, m) \in Int /\ Held(delta', m) = Held(delta, m) + Occurs(kids[Last], m)
            BY <3>3 DEF RisenAll
          <5>4. Held(Base, m) \in Int /\ Occurs(kids[Last], m) \in Int
            BY <3>1, IntsHeld DEF Occurs
          <5> QED BY <5>1, <5>2, <5>3, <5>4
        <4> QED BY <1>2, <2>2, <2>3, <4>1 DEF Exact
      <3>8. Reaching'
        <4>1. Ahead' = Elements(stack')
          BY <2>10 DEF Ahead, Elements
        <4>2. Counted \cup dead \cup Elements(stack) \subseteq Counted' \cup dead' \cup Elements(stack')
          BY <1>4, <2>1, <2>2, <3>5
        <4>3. OpsOf(kids, Last) \subseteq Counted' \cup Elements(stack')
          BY <3>4, <3>5 DEF Nodes
        <4>4. \A n \in Counted' : OpsOf(kids, n) \subseteq Counted' \cup dead' \cup Elements(stack')
          BY <1>5, <2>2, <4>2, <4>3
        <4>5. \A n \in Nodes : start < n => n \in Counted' \cup dead' \cup Elements(stack')
          BY <1>5, <4>2
        <4> QED BY <1>2, <2>7, <4>1, <4>4, <4>5 DEF Reaching
      <3> QED BY <1>3, <2>4, <2>5, <2>6, <3>6, <3>7, <3>8 DEF Inv
    <2> QED BY <2>1, <2>9, <2>10
  <1> QED BY <1>6, <1>7

LEMMA StutterKeeps == Inv /\ UNCHANGED vars => Inv'
  <1> SUFFICES ASSUME Inv, UNCHANGED vars PROVE Inv'
    OBVIOUS
  <1>1. UNCHANGED <<arena, on, upto, dead, task, stack, others, live, seen>>
    BY DEF vars
  <1>2. kids' = kids /\ Nodes' = Nodes
    BY <1>1 DEF arena, Nodes
  <1>3. Counted' = Counted /\ Base' = Base /\ Ahead' = Ahead
    BY <1>1, <1>2, CountedStays DEF Ahead
  <1>4. Arena' /\ OthersRight'
    BY <1>1, ArenaStays, OthersStay DEF Inv, Arena, OthersRight, live
  <1>5. Types' /\ Phases'
    BY <1>1, <1>2 DEF Inv, Types, Phases, others, live, Counts, Blank
  <1>6. Exact' /\ Reaching' /\ Scratching'
    BY <1>1, <1>2, <1>3 DEF Inv, Exact, Reaching, Scratching, arena, live
  <1> QED BY <1>4, <1>5, <1>6 DEF Inv

LEMMA InvKept == Spec => []Inv
  <1>1. Inv /\ [Next]_vars => Inv'
    BY StartPhaseKeeps, CreateKeeps, RetireKeeps, RetireNextKeeps, DoneKeeps, RefreshKeeps, ScratchNextKeeps,
       ScratchDoneKeeps, RefreshMoreKeeps, CountNextKeeps, StutterKeeps DEF Next
  <1> QED BY InitInv, <1>1, PTL DEF Spec

-----------------------------------------------------------------------------
(* The counts are right. *)

\* Between the operations the counts are those of the edges from counted nodes.
THEOREM CountsAlwaysExact == Spec => []CountsExact
  <1>1. Inv => CountsExact
    <2> SUFFICES ASSUME Inv, task = "walk", on PROVE CountsExact
      BY DEF CountsExact
    <2>1. Ahead = {}
      BY DEF Ahead
    <2>2. ASSUME NEW n \in DOMAIN kids
          PROVE  (IF n \in DOMAIN Uses THEN Uses[n] ELSE 0) = Cardinality(Plain!Edges(Counted, n))
      <3>1. Held(Base, n) + Held(delta, n) = Cardinality(EdgesOf(kids, Counted, n))
        BY DEF Inv, Exact, Nodes
      <3>2. Cardinality(EdgesOf(kids, Counted, n)) \in Nat
        BY CountsAre, EdgesFinite
      <3>3. Uses = View(Base, delta)
        BY UsesAreView
      <3>4. (IF n \in DOMAIN Uses THEN Uses[n] ELSE 0) = Held(Base, n) + Held(delta, n)
        <4>1. CASE n \in DOMAIN Base \cup DOMAIN delta
          BY <3>1, <3>2, <3>3, <4>1 DEF View
        <4>2. CASE n \notin DOMAIN Base \cup DOMAIN delta
          BY <3>3, <4>2 DEF View, Held
        <4> QED BY <4>1, <4>2
      <3> QED BY <3>1, <3>4, PlainIs
    <2>3. /\ Counted \cap dead = {} /\ \A n \in Counted : OpsOf(kids, n) \subseteq Counted \cup dead
          /\ \A n \in Nodes : start < n /\ n <= upto => n \in Counted \cup dead
      BY <2>1 DEF Inv, Reaching
    <2>4. start + 1 .. upto \subseteq Counted \cup dead
      <3>1. start \in Nat /\ upto \in Nat /\ upto <= Len(kids) /\ Nodes = 1 .. Len(kids) /\ Len(kids) \in Nat
        BY DEF Inv, Arena, WellFormed, Nodes
      <3>2. \A n \in start + 1 .. upto : n \in Nodes /\ start < n /\ n <= upto
        BY <3>1
      <3> QED BY <2>3, <3>2
    <2> QED BY <2>2, <2>3, <2>4, PlainIs DEF CountsExact
  <1> QED BY <1>1, InvKept, PTL

-----------------------------------------------------------------------------
(* The base below the counts does not show: every step is one of PlainUses, or none. *)

PlainCounted == IF on THEN Counted ELSE {}
PlainUsed == IF on THEN Uses ELSE NoChange
PlainTask == IF task = "scratch" THEN "walk" ELSE task
PlainStack == IF task = "scratch" THEN <<>> ELSE stack
PlainSame == /\ UNCHANGED <<kids, roots, active, start, on, upto, dead>>
             /\ PlainCounted' = PlainCounted /\ PlainUsed' = PlainUsed
             /\ PlainTask' = PlainTask /\ PlainStack' = PlainStack
PlainStep == Plain!PlainNext \/ PlainSame

LEMMA UsesStay ==
  ASSUME UNCHANGED <<kids, others, live>>
  PROVE  Counted' = Counted /\ Uses' = Uses
  <1>1. Counted' = Counted /\ Base' = Base /\ delta' = delta
    BY CountedStays DEF live
  <1> QED BY <1>1 DEF Uses

LEMMA PhaseIs == Inv /\ StartPhase => PlainStep
  <1> SUFFICES ASSUME Inv, StartPhase PROVE Plain!PlainPhase
    BY DEF PlainStep, Plain!PlainNext
  <1>1. on' = FALSE /\ task' = "walk" /\ task \in {"walk", "stopped"} /\ stack' = <<>> /\ NoChange = Plain!NoUses
    BY DEF StartPhase, NoChange, Plain!NoUses
  <1> QED BY <1>1 DEF StartPhase, Plain!PlainPhase, Plain!Nodes

LEMMA CreateIs == Inv /\ Create => PlainStep
  <1> SUFFICES ASSUME Inv, Create PROVE Plain!PlainCreate
    BY DEF PlainStep, Plain!PlainNext
  <1>1. /\ task = "walk" /\ Len(kids) < MaxNodes
        /\ \E a, b \in DOMAIN kids : /\ \A n \in DOMAIN kids : kids[n] # <<a, b>>
                                     /\ kids' = Append(kids, <<a, b>>)
        /\ UNCHANGED <<roots, active, start, on, upto, dead, task, stack, others, live>>
    BY DEF Create
  <1>2. /\ plus \subseteq Nodes /\ reach \subseteq Nodes /\ Nodes \subseteq Nodes'
    BY ArenaGrows DEF Inv, Types
  <1>3. Counted' = Counted /\ Base' = Base
    BY <1>1, <1>2 DEF Counted, InBase, Base, others, live, Nodes
  <1>4. Uses' = Uses
    BY <1>1, <1>3 DEF Uses, live
  <1> QED BY <1>1, <1>3, <1>4 DEF Plain!PlainCreate, Plain!Nodes

LEMMA RetireIs == Inv /\ Retire => PlainStep
  <1> SUFFICES ASSUME Inv, Retire PROVE Plain!PlainRetire
    BY DEF PlainStep, Plain!PlainNext
  <1>1. Counted' = Counted /\ Uses' = Uses
    BY UsesStay DEF Retire, arena
  <1> QED BY <1>1 DEF Retire, Plain!PlainRetire, Plain!Nodes, arena

LEMMA DoneIs == Inv /\ Done => PlainStep
  <1> SUFFICES ASSUME Inv, Done PROVE Plain!PlainDone
    BY DEF PlainStep, Plain!PlainNext
  <1>1. Counted' = Counted /\ Uses' = Uses
    BY UsesStay DEF Done, arena
  <1> QED BY <1>1 DEF Done, Plain!PlainDone, arena

LEMMA RetireNextIs == Inv /\ RetireNext => PlainStep
  <1> SUFFICES ASSUME Inv, RetireNext PROVE Plain!PlainRetireNext
    BY DEF PlainStep, Plain!PlainNext
  <1>1. /\ task = "retire" /\ task' = task /\ stack # <<>> /\ dead' = dead \cup {Last}
        /\ UNCHANGED <<kids, roots, active, start, on, upto, others, base>>
    BY DEF RetireNext, live, arena
  <1>2. Last \in Nodes
    BY <1>1, StackIs
  <1>3. ~on => Counted = {}
    BY <1>1 DEF Inv, Phases, Blank, Counted, InBase
  <1>4. Elements(roots) = Plain!Elements(roots)
    BY DEF Elements, Plain!Elements
  <1>5. CASE Last \in dead \/ Last \notin Counted
    <2>1. stack' = Rest /\ UNCHANGED live
      BY <1>5 DEF RetireNext
    <2>2. Counted' = Counted /\ Uses' = Uses
      BY <1>1, <2>1, UsesStay
    <2> QED BY <1>1, <1>5, <2>1, <2>2 DEF Plain!PlainRetireNext, Last, Rest
  <1>6. CASE Last \notin dead /\ Last \in Counted
    <2> DEFINE orphans == {c \in (DOMAIN Uses' \cap Counted') \ Elements(roots) : Uses'[c] = 0}
    <2>1. Uncount(Last) /\ delta' = AllFewer(Last) /\ stack' = Rest \o Plain!Among(kids[Last], orphans)
      BY <1>6 DEF RetireNext, AllFewer
    <2>2. Counted' = Counted \ {Last}
      BY <1>1, <1>6, <2>1, UncountIs DEF Inv, OthersRight
    <2>3. on
      BY <1>3, <1>6
    <2>4. Base' = Base
      BY <1>1 DEF Base, others
    <2>5. Uses' = Plain!Unused(Uses, Last)
      <3>1. PICK B \in SUBSET Nodes : Ints(Base, B)
        BY CountsAre
      <3>2. PICK D \in SUBSET Nodes : Ints(delta, D)
        BY CountsAre
      <3>3. View(Base, delta') = Plain!Unused(View(Base, delta), Last)
        BY <1>1, <1>2, <1>6, <2>1, <3>1, <3>2, AllFewerHolds, CountsAre DEF Inv, Arena
      <3>4. Uses' = View(Base', delta')
        BY DEF Uses, View, Held
      <3> QED BY <2>4, <3>3, <3>4, UsesAreView
    <2> DEFINE left == Plain!Unused(Uses, Last)
               plainOrphans == {c \in (DOMAIN left \cap Counted) \ ({Last} \cup Plain!Elements(roots)) : left[c] = 0}
    <2>6. orphans = plainOrphans
      BY <1>4, <2>2, <2>5
    <2>7. stack' = Rest \o Plain!Among(kids[Last], plainOrphans)
      BY <2>1, <2>6
    <2> HIDE DEF orphans
    <2>8. /\ PlainCounted = Counted /\ PlainUsed = Uses /\ PlainStack = stack /\ PlainTask = task
          /\ PlainCounted' = Counted' /\ PlainUsed' = Uses' /\ PlainStack' = stack' /\ PlainTask' = task'
      BY <1>1, <2>3 DEF PlainCounted, PlainUsed, PlainStack, PlainTask
    <2> QED BY <1>1, <1>6, <2>2, <2>3, <2>5, <2>7 DEF Plain!PlainRetireNext, Last, Rest
  <1> QED BY <1>5, <1>6

LEMMA RefreshIs == Inv /\ Refresh => PlainStep
  <1> SUFFICES ASSUME Inv, Refresh PROVE PlainStep
    OBVIOUS
  <1>1. /\ task = "walk" /\ ~on /\ stack = <<>> /\ UNCHANGED <<kids, roots, active, start, on, upto, dead>>
        /\ (task' = "scratch" \/ (task' = "stopped" /\ stack' = <<>>))
    BY DEF Refresh, arena, Inv, Phases
  <1>2. CASE task' = "scratch"
    <2>1. PlainSame
      BY <1>1, <1>2 DEF PlainSame, PlainCounted, PlainUsed, PlainTask, PlainStack
    <2> QED BY <2>1 DEF PlainStep
  <1>3. CASE task' = "stopped" /\ stack' = <<>>
    <2>1. Plain!PlainStop
      BY <1>1, <1>3 DEF Plain!PlainStop
    <2> QED BY <2>1 DEF PlainStep, Plain!PlainNext
  <1> QED BY <1>1, <1>2, <1>3

LEMMA ScratchNextIs == Inv /\ ScratchNext => PlainStep
  <1> SUFFICES ASSUME Inv, ScratchNext PROVE PlainStep
    OBVIOUS
  <1>1. /\ task = "scratch" /\ ~on /\ UNCHANGED <<kids, roots, active, start, on, upto, dead>>
        /\ (task' = "scratch" \/ (task' = "stopped" /\ stack' = <<>>))
    BY DEF ScratchNext, arena, Inv, Phases
  <1>2. CASE task' = "scratch"
    <2>1. PlainSame
      BY <1>1, <1>2 DEF PlainSame, PlainCounted, PlainUsed, PlainTask, PlainStack
    <2> QED BY <2>1 DEF PlainStep
  <1>3. CASE task' = "stopped" /\ stack' = <<>>
    <2>1. Plain!PlainStop
      BY <1>1, <1>3 DEF Plain!PlainStop
    <2> QED BY <2>1 DEF PlainStep, Plain!PlainNext
  <1> QED BY <1>1, <1>2, <1>3

\* When the first count has ended, exactly what the roots reach is counted.
LEMMA ScratchEnds ==
  ASSUME Inv, task = "scratch", stack = <<>>
  PROVE  Counted = BelowOf(kids, Elements(roots), dead) \ dead /\ Uses = UsesOf(kids, Counted)
  <1> DEFINE below == BelowOf(kids, Elements(roots), dead)
  <1>1. /\ Elements(roots) \ dead \subseteq Counted /\ Counted \subseteq below
        /\ DOMAIN Base \cup DOMAIN delta = AllOps(kids, Counted)
        /\ Counted \cap dead = {} /\ \A n \in Counted : OpsOf(kids, n) \subseteq Counted \cup dead
    BY DEF Inv, Scratching, Reaching, Ahead, Elements
  <1>2. Counted \in SUBSET Nodes
    BY CountsAre
  <1>3. below \subseteq Counted
    BY <1>1, <1>2, BelowLeast
  <1> HIDE DEF below
  <1>4. Counted = below \ dead
    BY <1>1, <1>3
  <1>5. \A n \in Nodes : Held(Base, n) + Held(delta, n) = Cardinality(EdgesOf(kids, Counted, n))
    BY DEF Inv, Exact
  <1>6. \A n : Cardinality(EdgesOf(kids, Counted, n)) \in Nat
    BY CountsAre, EdgesFinite
  <1>7. AllOps(kids, Counted) \subseteq Nodes
    BY <1>2, OperandsOf DEF AllOps, Inv, Arena
  <1> DEFINE f == Uses
             g == UsesOf(kids, Counted)
  <1>8. /\ DOMAIN f = AllOps(kids, Counted) /\ f = [n \in DOMAIN f |-> f[n]]
        /\ \A n \in DOMAIN f : f[n] = Cardinality(EdgesOf(kids, Counted, n))
    <2>1. f = View(Base, delta)
      BY UsesAreView
    <2>2. DOMAIN f = AllOps(kids, Counted) /\ f = [n \in DOMAIN f |-> f[n]]
      BY <1>1, <2>1 DEF View
    <2>3. ASSUME NEW n \in DOMAIN f PROVE f[n] = Cardinality(EdgesOf(kids, Counted, n))
      <3>1. f[n] = IF Held(Base, n) + Held(delta, n) < 0 THEN 0 ELSE Held(Base, n) + Held(delta, n)
        BY <2>1, <2>3 DEF View
      <3>2. Held(Base, n) + Held(delta, n) = Cardinality(EdgesOf(kids, Counted, n))
        BY <1>5, <1>7, <2>2, <2>3
      <3> HIDE DEF f
      <3> QED BY <1>6, <3>1, <3>2
    <2> QED BY <2>2, <2>3
  <1>9. /\ DOMAIN g = AllOps(kids, Counted) /\ g = [n \in DOMAIN g |-> g[n]]
        /\ \A n \in DOMAIN g : g[n] = Cardinality(EdgesOf(kids, Counted, n))
    BY DEF UsesOf
  <1> HIDE DEF f, g
  <1>10. f = g
    BY <1>8, <1>9
  <1> QED BY <1>4, <1>10 DEF f, g, below

LEMMA ScratchDoneIs == Inv /\ ScratchDone => PlainStep
  <1> SUFFICES ASSUME Inv, ScratchDone PROVE Plain!PlainRefresh
    BY DEF PlainStep, Plain!PlainNext
  <1>1. /\ task = "scratch" /\ stack = <<>> /\ ~on /\ on' = TRUE /\ upto' = start
        /\ UNCHANGED <<kids, roots, active, start, dead, others, live>> /\ LookAtNew(start)
    BY DEF ScratchDone, arena, Inv, Phases
  <1>2. Counted' = Counted /\ Uses' = Uses
    BY <1>1, UsesStay
  <1>3. Counted = Plain!Below(Plain!Elements(roots), dead) \ dead /\ Uses = Plain!UsesFrom(Counted)
    <2>1. Elements(roots) = Plain!Elements(roots)
      BY DEF Elements, Plain!Elements
    <2> QED BY <1>1, <2>1, ScratchEnds, PlainIs
  <1>4. \/ task' = "stopped" /\ stack' = <<>>
        \/ task' = "count" /\ stack' = Plain!Fresh(upto', dead \cup Counted')
    BY <1>1, <1>2 DEF LookAtNew
  <1> QED BY <1>1, <1>2, <1>3, <1>4 DEF Plain!PlainRefresh

LEMMA RefreshMoreIs == Inv /\ RefreshMore => PlainStep
  <1> SUFFICES ASSUME Inv, RefreshMore PROVE Plain!PlainRefresh
    BY DEF PlainStep, Plain!PlainNext
  <1>1. /\ task = "walk" /\ on /\ on' = on /\ upto' = upto
        /\ UNCHANGED <<kids, roots, active, start, dead, others, live>> /\ LookAtNew(upto)
    BY DEF RefreshMore, arena
  <1>2. Counted' = Counted /\ Uses' = Uses
    BY <1>1, UsesStay
  <1>3. \/ task' = "stopped" /\ stack' = <<>>
        \/ task' = "count" /\ stack' = Plain!Fresh(upto', dead \cup Counted')
    BY <1>1, <1>2 DEF LookAtNew
  <1> QED BY <1>1, <1>2, <1>3 DEF Plain!PlainRefresh

LEMMA CountNextIs == Inv /\ CountNext => PlainStep
  <1> SUFFICES ASSUME Inv, CountNext PROVE Plain!PlainCount
    BY DEF PlainStep, Plain!PlainNext
  <1>1. /\ task = "count" /\ stack # <<>> /\ on /\ UNCHANGED <<kids, roots, active, start, on, upto, others>>
    BY DEF CountNext, Inv, Phases, arena
  <1>2. Last \in Nodes
    BY <1>1, StackIs
  <1>3. CASE Last \in Counted
    <2>1. stack' = Rest /\ UNCHANGED <<live, dead, task>>
      BY <1>3 DEF CountNext
    <2>2. Counted' = Counted /\ Uses' = Uses
      BY <1>1, <2>1, UsesStay
    <2> QED BY <1>1, <1>3, <2>1, <2>2 DEF Plain!PlainCount, Last, Rest
  <1>4. CASE Last \notin Counted
    <2>1. /\ Count(Last) /\ dead' = dead \ {Last} /\ base' = base
          /\ \/ /\ delta' = AllMore(Last) /\ task' = task
                /\ stack' = Rest \o Plain!Among(kids[Last], DOMAIN kids \ Counted')
             \/ task' = "stopped" /\ stack' = <<>> /\ delta' = delta
      BY <1>1, <1>4 DEF CountNext, AllMore
    <2>2. Counted' = Counted \cup {Last}
      BY <1>1, <1>2, <2>1, CountIs
    <2>3. Base' = Base
      BY <1>1, <2>1 DEF Base, others
    <2>4. Uses' = View(Base, delta')
      <3>1. Uses' = View(Base', delta')
        BY DEF Uses, View, Held
      <3> QED BY <2>3, <3>1
    <2>5. \/ /\ Uses' = Plain!Used(Uses, Last) /\ task' = task
             /\ stack' = Rest \o Plain!Among(kids[Last], DOMAIN kids \ Counted')
          \/ Uses' = Uses /\ task' = "stopped" /\ stack' = <<>>
      <3>1. CASE /\ delta' = AllMore(Last) /\ task' = task
                 /\ stack' = Rest \o Plain!Among(kids[Last], DOMAIN kids \ Counted')
        <4>1. PICK B \in SUBSET Nodes : Ints(Base, B)
          BY CountsAre
        <4>2. PICK D \in SUBSET Nodes : Ints(delta, D)
          BY CountsAre
        <4>3. View(Base, delta') = Plain!Used(View(Base, delta), Last)
          BY <1>1, <1>2, <3>1, <4>1, <4>2, AllMoreHolds, CountsAre DEF Inv, Arena
        <4> QED BY <2>4, <3>1, <4>3, UsesAreView
      <3>2. CASE task' = "stopped" /\ stack' = <<>> /\ delta' = delta
        BY <2>4, <3>2, UsesAreView
      <3> QED BY <2>1, <3>1, <3>2
    <2> QED BY <1>1, <1>4, <2>1, <2>2, <2>5 DEF Plain!PlainCount, Plain!Nodes, Last, Rest
  <1> QED BY <1>3, <1>4

\* The counts kept over phase runs answer as counts taken from scratch would.
THEOREM CountsAreAsPlain == Spec => ImplementsPlainUses
  <1>1. Init => Plain!PlainInit
    BY DEF Init, Plain!PlainInit, NoChange, Plain!NoUses
  <1>2. Inv /\ [Next]_vars => [Plain!PlainNext]_(Plain!plainVars)
    <2> SUFFICES ASSUME Inv, [Next]_vars PROVE Plain!PlainNext \/ UNCHANGED Plain!plainVars
      OBVIOUS
    <2>1. CASE Next
      <3>1. PlainStep
        BY <2>1, PhaseIs, CreateIs, RetireIs, RetireNextIs, DoneIs, RefreshIs, ScratchNextIs, ScratchDoneIs,
           RefreshMoreIs, CountNextIs DEF Next
      <3>2. PlainSame => UNCHANGED Plain!plainVars
        BY DEF PlainSame, PlainCounted, PlainUsed, PlainTask, PlainStack, Plain!plainVars
      <3> QED BY <3>1, <3>2 DEF PlainStep
    <2>2. CASE UNCHANGED vars
      <3>1. Counted' = Counted /\ Uses' = Uses
        BY <2>2, UsesStay DEF vars, arena
      <3> QED BY <2>2, <3>1 DEF vars, arena, Plain!plainVars
    <2> QED BY <2>1, <2>2
  <1> QED BY <1>1, <1>2, InvKept, PTL DEF Spec, ImplementsPlainUses, Plain!PlainSpec
=============================================================================
