---------------------------- MODULE EGraphProofs ----------------------------
(***************************************************************************)
(* Proofs about EGraph and Extract, for any operators, values, roots and   *)
(* bounds.                                                                 *)
(*                                                                         *)
(* Soundness: take any way to give the e-nodes values that respects the    *)
(* operators and the equations asked for. Every e-node, as it is kept now, *)
(* every entry of the hash-cons and every constant then has the value of   *)
(* its class (Respects), and each step keeps that so.                      *)
(*                                                                         *)
(* Closure: an e-node is in order, or the rebuild will come to it (Owing). *)
(*                                                                         *)
(* Extraction: a sweep that changes nothing has seen every e-node at       *)
(* present costs (Sweeps); operands come before (Ordered), so following    *)
(* the choices descends, in cost or, where costs saturate, in age.         *)
(***************************************************************************)
EXTENDS Extract, TLAPS, SequenceTheorems, WellFoundedInduction

-----------------------------------------------------------------------------
(* E-nodes. *)

\* An e-node over a set of classes is one over any larger set.
LEMMA ENodesMonotone ==
  ASSUME NEW S, NEW T, S \subseteq T
  PROVE  ENodes(S) \subseteq ENodes(T)
  BY DEF ENodes

\* What the kinds of e-nodes are made of.
LEMMA ENodeShape ==
  ASSUME NEW S, NEW n \in ENodes(S)
  PROVE  /\ n.kind \in {"const", "leaf", "un", "bin"}
         /\ n.kind = "const" => n.op \in Values
         /\ n.kind = "un" => n.op \in UnOps /\ n.kids[1] \in S
         /\ n.kind = "bin" => n.op \in BinOps /\ n.kids[1] \in S /\ n.kids[2] \in S
         /\ n.kind \in {"const", "leaf"} => DOMAIN n.kids = {}
  BY DEF ENodes, Const, Leaf, Un, Bin

\* Making an e-node canonical keeps its operator and moves it to the classes' roots.
LEMMA CanonShape ==
  ASSUME NEW S, NEW T, NEW n \in ENodes(S), NEW r, \A s \in S : r[s] \in T
  PROVE  /\ CanonUnder(n, r).kind = n.kind
         /\ CanonUnder(n, r) \in ENodes(T)
  <1>1. CASE n.kind = "un"
    <2>1. n.op \in UnOps /\ r[n.kids[1]] \in T
      BY <1>1, ENodeShape
    <2>2. CanonUnder(n, r) = Un(n.op, r[n.kids[1]])
      BY <1>1 DEF CanonUnder
    <2> QED BY <1>1, <2>1, <2>2 DEF ENodes, Un
  <1>2. CASE n.kind = "bin"
    <2>1. n.op \in BinOps /\ r[n.kids[1]] \in T /\ r[n.kids[2]] \in T
      BY <1>2, ENodeShape
    <2>2. \/ CanonUnder(n, r) = Bin(n.op, r[n.kids[1]], r[n.kids[2]])
          \/ CanonUnder(n, r) = Bin(n.op, r[n.kids[2]], r[n.kids[1]])
      BY <1>2 DEF CanonUnder
    <2>3. CanonUnder(n, r) \in ENodes(T)
      BY <2>1, <2>2 DEF ENodes
    <2>4. CanonUnder(n, r).kind = "bin"
      BY <2>2 DEF Bin
    <2> QED BY <1>2, <2>3, <2>4
  <1>3. CASE n.kind \in {"const", "leaf"}
    <2>1. CanonUnder(n, r) = n
      BY <1>3 DEF CanonUnder
    <2>2. n \in {Const(v) : v \in Values} \cup {Leaf(x) : x \in Leaves}
      BY <1>3 DEF ENodes, Un, Bin
    <2> QED BY <2>1, <2>2 DEF ENodes
  <1> QED BY <1>1, <1>2, <1>3, ENodeShape

\* A canonical e-node has the value of the one it was made from, where the roots have
\* the values of their members.
LEMMA CanonWorth ==
  ASSUME NEW S, NEW n \in ENodes(S), NEW r, NEW val,
         \A s \in S : val[s] \in Values /\ val[r[s]] = val[s],
         n.kind # "leaf"
  PROVE  Worth(CanonUnder(n, r), val) = Worth(n, val)
  <1>1. CASE n.kind = "un"
    BY <1>1, ENodeShape DEF CanonUnder, Worth, Un
  <1>2. CASE n.kind = "bin"
    <2> DEFINE a == n.kids[1]
               b == n.kids[2]
    <2>1. n.op \in BinOps /\ a \in S /\ b \in S
      BY <1>2, ENodeShape
    <2>2. Worth(n, val) = BinTable[n.op][<<val[a], val[b]>>]
      BY <1>2 DEF Worth
    <2>3. val[r[a]] = val[a] /\ val[r[b]] = val[b] /\ val[a] \in Values /\ val[b] \in Values
      BY <2>1
    <2>4. CASE n.op \in Commutative /\ r[b] < r[a]
      <3>1. CanonUnder(n, r) = Bin(n.op, r[b], r[a])
        BY <1>2, <2>4 DEF CanonUnder
      <3>2. Worth(Bin(n.op, r[b], r[a]), val) = BinTable[n.op][<<val[r[b]], val[r[a]]>>]
        BY DEF Worth, Bin
      <3>3. BinTable[n.op][<<val[b], val[a]>>] = BinTable[n.op][<<val[a], val[b]>>]
        BY <2>3, <2>4, OperatorsAssumption
      <3> QED BY <2>2, <2>3, <3>1, <3>2, <3>3
    <2>5. CASE ~(n.op \in Commutative /\ r[b] < r[a])
      <3>1. CanonUnder(n, r) = Bin(n.op, r[a], r[b])
        BY <1>2, <2>5 DEF CanonUnder
      <3>2. Worth(Bin(n.op, r[a], r[b]), val) = BinTable[n.op][<<val[r[a]], val[r[b]]>>]
        BY DEF Worth, Bin
      <3> QED BY <2>2, <2>3, <3>1, <3>2
    <2> QED BY <2>4, <2>5
  <1>3. CASE n.kind = "const"
    BY <1>3 DEF CanonUnder, Worth
  <1> QED BY <1>1, <1>2, <1>3, ENodeShape

\* An e-node folds to constants of the value type, to at most one.
LEMMA FoldShape ==
  ASSUME NEW S, NEW n \in ENodes(S), NEW r, NEW k,
         \A s \in S : k[r[s]] \subseteq Values /\ \A v, w \in k[r[s]] : v = w
  PROVE  Fold(n, r, k) \subseteq Values /\ \A v, w \in Fold(n, r, k) : v = w
  <1>1. CASE n.kind = "un"
    <2> DEFINE K == k[r[n.kids[1]]]
    <2>1. Fold(n, r, k) = {UnTable[n.op][x] : x \in K}
      BY <1>1 DEF Fold
    <2>2. n.op \in UnOps /\ K \subseteq Values /\ \A v, w \in K : v = w
      BY <1>1, ENodeShape
    <2> HIDE DEF K
    <2> QED BY <2>1, <2>2, OperatorsAssumption
  <1>2. CASE n.kind = "bin"
    <2> DEFINE K == k[r[n.kids[1]]]
               L == k[r[n.kids[2]]]
    <2>1. Fold(n, r, k) = {BinTable[n.op][p] : p \in K \X L}
      BY <1>2 DEF Fold
    <2>2. /\ n.op \in BinOps
          /\ K \subseteq Values /\ \A v, w \in K : v = w
          /\ L \subseteq Values /\ \A v, w \in L : v = w
      BY <1>2, ENodeShape
    <2>3. BinTable[n.op] \in [Values \X Values -> Values]
      BY <2>2, OperatorsAssumption
    <2> HIDE DEF K, L
    <2>4. \A p \in K \X L : BinTable[n.op][p] \in Values
      BY <2>2, <2>3
    <2>5. \A p, q \in K \X L : p = q
      BY <2>2
    <2> QED BY <2>1, <2>4, <2>5
  <1>3. CASE n.kind = "const"
    BY <1>3, ENodeShape DEF Fold
  <1>4. CASE n.kind = "leaf"
    BY <1>4 DEF Fold
  <1> QED BY <1>1, <1>2, <1>3, <1>4, ENodeShape

\* The constants known of the classes S are their values.
OperandsFit(S, r, k, val) == \A s \in S : \A v \in k[r[s]] : val[s] = v

\* What an e-node folds to is its value, where the constants are the values of the
\* operands.
LEMMA FoldWorth ==
  ASSUME NEW S, NEW n \in ENodes(S), NEW r, NEW k, NEW val,
         OperandsFit(S, r, k, val)
  PROVE  \A v \in Fold(n, r, k) : n.kind # "leaf" /\ v = Worth(n, val)
  <1> SUFFICES ASSUME NEW v \in Fold(n, r, k) PROVE n.kind # "leaf" /\ v = Worth(n, val)
    OBVIOUS
  <1> USE DEF OperandsFit
  <1>1. CASE n.kind = "un"
    <2>1. PICK x \in k[r[n.kids[1]]] : v = UnTable[n.op][x]
      BY <1>1 DEF Fold
    <2>2. val[n.kids[1]] = x
      BY <1>1, <2>1, ENodeShape
    <2> QED BY <1>1, <2>1, <2>2 DEF Worth
  <1>2. CASE n.kind = "bin"
    <2>1. PICK p \in k[r[n.kids[1]]] \X k[r[n.kids[2]]] : v = BinTable[n.op][p]
      BY <1>2 DEF Fold
    <2>2. val[n.kids[1]] = p[1] /\ val[n.kids[2]] = p[2] /\ p = <<p[1], p[2]>>
      BY <1>2, <2>1, ENodeShape
    <2> QED BY <1>2, <2>1, <2>2 DEF Worth
  <1>3. CASE n.kind = "const"
    BY <1>3 DEF Fold, Worth
  <1>4. CASE n.kind = "leaf"
    BY <1>4 DEF Fold
  <1> QED BY <1>1, <1>2, <1>3, <1>4, ENodeShape

-----------------------------------------------------------------------------
(* Classes. *)

\* A canonical class is its own, and only canonical classes have a constant.
Roots(r, N) == /\ r \in [1..N -> 1..N]
               /\ \A i \in 1..N : r[r[i]] = r[i]
Constants(k, r, N) == /\ k \in [1..N -> SUBSET Values]
                      /\ \A c \in 1..N : \A v, w \in k[c] : v = w /\ r[c] = c

\* Members and constants of a class have the class's value.
RootsFit(r, val) == \A i \in DOMAIN r : val[r[i]] = val[i]
ConstantsFit(k, val) == \A c \in DOMAIN k : \A v \in k[c] : val[c] = v

\* Two classes without conflicting constants become one class.
LEMMA UnionShape ==
  ASSUME NEW N \in Nat, NEW r, NEW k, Roots(r, N), Constants(k, r, N),
         NEW a \in 1..N, NEW b \in 1..N, r[a] # r[b], ~Conflict(a, b, r, k)
  PROVE  /\ Roots(RepAfter(a, b, r), N)
         /\ Constants(KonstAfter(a, b, r, k), RepAfter(a, b, r), N)
  <1> DEFINE lo == Lower(a, b, r)
             hi == Higher(a, b, r)
  <1>1. /\ lo \in 1..N /\ hi \in 1..N /\ lo # hi
        /\ r[lo] = lo /\ r[hi] = hi
        /\ {lo, hi} = {r[a], r[b]}
    BY DEF Lower, Higher, Roots
  <1>2. \A v \in k[lo], w \in k[hi] : v = w
    BY <1>1 DEF Conflict
  <1> HIDE DEF lo, hi
  <1>3. RepAfter(a, b, r) = [i \in 1..N |-> IF r[i] = hi THEN lo ELSE r[i]]
    BY DEF RepAfter, lo, hi, Roots
  <1>4. KonstAfter(a, b, r, k) = [k EXCEPT ![lo] = k[lo] \cup k[hi], ![hi] = {}]
    BY DEF KonstAfter, lo, hi
  <1>5. Roots(RepAfter(a, b, r), N)
    BY <1>1, <1>3 DEF Roots
  <1>6. Constants(KonstAfter(a, b, r, k), RepAfter(a, b, r), N)
    <2> DEFINE k1 == KonstAfter(a, b, r, k)
               r1 == RepAfter(a, b, r)
    <2>1. /\ k1 \in [1..N -> SUBSET Values]
          /\ k1[lo] = k[lo] \cup k[hi] /\ k1[hi] = {}
          /\ \A c \in 1..N \ {lo, hi} : k1[c] = k[c]
      BY <1>1, <1>4 DEF Constants
    <2>2. /\ r1[lo] = lo
          /\ \A c \in 1..N \ {lo, hi} : r[c] = c => r1[c] = c
      BY <1>1, <1>3
    <2> HIDE DEF k1, r1
    <2>3. ASSUME NEW c \in 1..N, NEW v \in k1[c], NEW w \in k1[c] PROVE v = w /\ r1[c] = c
      <3>1. CASE c = lo
        BY <1>1, <1>2, <2>1, <2>2, <2>3, <3>1 DEF Constants
      <3>2. CASE c = hi
        BY <2>1, <2>3, <3>2
      <3>3. CASE c \notin {lo, hi}
        BY <2>1, <2>2, <2>3, <3>3 DEF Constants
      <3> QED BY <3>1, <3>2, <3>3
    <2> QED BY <2>1, <2>3 DEF Constants, k1, r1
  <1> QED BY <1>5, <1>6

\* The union of two classes whose values are equal keeps members and constants equal.
LEMMA UnionFits ==
  ASSUME NEW N \in Nat, NEW r, NEW k, Roots(r, N), Constants(k, r, N), NEW val,
         NEW a \in 1..N, NEW b \in 1..N,
         RootsFit(r, val), ConstantsFit(k, val), val[a] = val[b]
  PROVE  /\ ~Conflict(a, b, r, k)
         /\ RootsFit(RepAfter(a, b, r), val)
         /\ ConstantsFit(KonstAfter(a, b, r, k), val)
  <1> DEFINE lo == Lower(a, b, r)
             hi == Higher(a, b, r)
  <1>1. lo \in 1..N /\ hi \in 1..N /\ val[lo] = val[hi] /\ val[lo] = val[a]
    BY DEF Lower, Higher, Roots, RootsFit
  <1>2. ~Conflict(a, b, r, k)
    BY DEF Conflict, Roots, Constants, RootsFit, ConstantsFit
  <1> HIDE DEF lo, hi
  <1>3. RepAfter(a, b, r) = [i \in 1..N |-> IF r[i] = hi THEN lo ELSE r[i]]
    BY DEF RepAfter, lo, hi, Roots
  <1>4. KonstAfter(a, b, r, k) = [k EXCEPT ![lo] = k[lo] \cup k[hi], ![hi] = {}]
    BY DEF KonstAfter, lo, hi
  <1>5. RootsFit(RepAfter(a, b, r), val)
    BY <1>1, <1>3 DEF RootsFit, Roots
  <1>6. ConstantsFit(KonstAfter(a, b, r, k), val)
    <2>1. ASSUME NEW c \in 1..N, NEW v \in [k EXCEPT ![lo] = k[lo] \cup k[hi], ![hi] = {}][c]
          PROVE  val[c] = v
      <3>1. lo \in DOMAIN k /\ hi \in DOMAIN k /\ c \in 1..N
        BY <1>1, <2>1 DEF Constants
      <3>2. CASE c = lo
        <4>1. v \in k[lo] \/ v \in k[hi]
          BY <2>1, <3>1, <3>2
        <4> QED BY <1>1, <3>1, <3>2, <4>1 DEF ConstantsFit
      <3>3. CASE c # lo
        <4>1. CASE c = hi
          BY <2>1, <3>1, <4>1
        <4>2. CASE c # hi
          <5>1. v \in k[c] /\ c \in DOMAIN k
            BY <2>1, <3>1, <3>3, <4>2 DEF Constants
          <5> QED BY <5>1 DEF ConstantsFit
        <4> QED BY <4>1, <4>2
      <3> QED BY <3>2, <3>3
    <2> QED BY <1>4, <2>1 DEF ConstantsFit, Constants
  <1> QED BY <1>2, <1>5, <1>6

\* The parents of a class are its own or those of the class it took in.
LEMMA ParentsMoved ==
  ASSUME NEW N \in Nat, NEW r, NEW p \in [1..N -> SUBSET (1..N)], NEW a, NEW b,
         Lower(a, b, r) \in 1..N, Higher(a, b, r) \in 1..N
  PROVE  /\ ParentsAfter(a, b, r, p) \in [1..N -> SUBSET (1..N)]
         /\ \A c \in 1..N : \A x \in ParentsAfter(a, b, r, p)[c] : \E d \in 1..N : x \in p[d]
  <1> DEFINE lo == Lower(a, b, r)
             hi == Higher(a, b, r)
  <1>1. ParentsAfter(a, b, r, p) = [p EXCEPT ![lo] = p[lo] \cup p[hi], ![hi] = {}]
    BY DEF ParentsAfter
  <1> HIDE DEF lo, hi
  <1>2. [p EXCEPT ![lo] = p[lo] \cup p[hi], ![hi] = {}] \in [1..N -> SUBSET (1..N)]
    BY DEF lo, hi
  <1>3. ASSUME NEW c \in 1..N, NEW x \in [p EXCEPT ![lo] = p[lo] \cup p[hi], ![hi] = {}][c]
        PROVE  \E d \in 1..N : x \in p[d]
    BY <1>3 DEF lo, hi
  <1> QED BY <1>1, <1>2, <1>3

\* A sequence with one more element.
LEMMA Extended ==
  ASSUME NEW N \in Nat, NEW T, NEW f \in [1..N -> T], NEW e \in T
  PROVE  /\ Append(f, e) \in [1..(N + 1) -> T]
         /\ Len(f) = N /\ Len(Append(f, e)) = N + 1
         /\ \A i \in 1..N : Append(f, e)[i] = f[i]
         /\ Append(f, e)[N + 1] = e
  <1>2. f \in Seq(T)
    BY SeqDef
  <1>3. Len(f) = N
    BY <1>2, LenProperties
  <1>4. /\ Append(f, e) \in Seq(T) /\ Len(Append(f, e)) = N + 1
        /\ \A i \in 1..N : Append(f, e)[i] = f[i]
        /\ Append(f, e)[N + 1] = e
    BY <1>2, <1>3, AppendProperties
  <1>5. Append(f, e) \in [1..(N + 1) -> T]
    BY <1>4, LenProperties
  <1> QED BY <1>3, <1>4, <1>5

-----------------------------------------------------------------------------
(* The invariant. *)

\* A leaf is nobody's parent.
ParentsHaveOperands ==
  /\ \A c \in Ids : \A p \in parents[c] : nodes[p].kind # "leaf"
  /\ \A p \in todo \cup kept : nodes[p].kind # "leaf"

Struct == /\ Len(nodes) \in Nat
          /\ TypeOK
          /\ Roots(rep, Len(nodes))
          /\ Constants(konst, rep, Len(nodes))
          /\ ParentsHaveOperands

\* Every e-node, hash-cons entry and constant has its class's value.
Respects(val) ==
  /\ phase # "contract"
  /\ RootsFit(rep, val)
  /\ ConstantsFit(konst, val)
  /\ \A i \in Ids : nodes[i].kind # "leaf" => val[i] = Worth(nodes[i], val)
  /\ \A n \in DOMAIN memo : n.kind # "leaf" => val[memo[n]] = Worth(n, val)

Sound == \A val \in [Ids -> Values] : Models(val) => Respects(val)

\* The empty graph has the invariant's structure.
LEMMA StructInit == Init => Struct
  <1> SUFFICES ASSUME Init PROVE Struct
    OBVIOUS
  <1> USE DEF Init
  <1>1. Len(nodes) = 0 /\ DOMAIN nodes = {} /\ 1..0 = {}
    OBVIOUS
  <1>2. nodes = [i \in {} |-> 0]
    OBVIOUS
  <1>3. TypeOK
    BY <1>1, <1>2 DEF TypeOK
  <1> QED BY <1>1, <1>2, <1>3 DEF Struct, Roots, Constants, ParentsHaveOperands, Ids

\* Adding an e-node keeps the structure.
LEMMA AddStruct ==
  ASSUME Struct, NEW e \in ENodes(Ids), NEW imp \in BOOLEAN, Add(e, imp),
         phase' \in {"import", "apply"}
  PROVE  /\ Struct'
         /\ Len(nodes') = Len(nodes) + 1
         /\ \A i \in Ids : nodes'[i] = nodes[i] /\ added'[i] = added[i] /\ rep'[i] = rep[i]
                           /\ konst'[i] = konst[i]
         /\ nodes'[Len(nodes) + 1] = Canon(e) /\ added'[Len(nodes) + 1] = e
         /\ rep'[Len(nodes) + 1] = Len(nodes) + 1
         /\ konst'[Len(nodes) + 1] = Fold(Canon(e), rep, konst)
  <1> DEFINE N == Len(nodes)
             n == Canon(e)
             P == [c \in Ids |-> IF \E i \in DOMAIN n.kids : n.kids[i] = c
                                THEN parents[c] \cup {N + 1} ELSE parents[c]]
  <1>1. N \in Nat /\ Ids = 1..N /\ 1..N \subseteq 1..(N + 1) /\ N + 1 \in 1..(N + 1)
    BY DEF Struct, TypeOK, Ids
  <1>2. n \in ENodes(1..N) /\ n.kind = e.kind
    BY <1>1, CanonShape DEF Canon, Struct, Roots
  <1>3. ENodes(1..N) \subseteq ENodes(1..(N + 1))
    BY <1>1, ENodesMonotone
  <1>4. /\ nodes' = Append(nodes, n) /\ added' = Append(added, e)
        /\ imported' = Append(imported, imp) /\ rep' = Append(rep, N + 1)
        /\ konst' = Append(konst, Fold(n, rep, konst))
        /\ parents' = Append(P, {})
        /\ memo' = Recall(memo, n, N + 1)
        /\ UNCHANGED <<pending, todo, kept, cur, asked>>
    BY DEF Add
  <1>5. /\ nodes \in [1..N -> ENodes(1..N)] /\ added \in [1..N -> ENodes(1..N)]
        /\ imported \in [1..N -> BOOLEAN]
        /\ rep \in [1..N -> 1..N] /\ konst \in [1..N -> SUBSET Values]
        /\ parents \in [1..N -> SUBSET (1..N)]
    BY DEF Struct, TypeOK
  <1>6. Fold(n, rep, konst) \subseteq Values /\ \A v, w \in Fold(n, rep, konst) : v = w
    <2>1. \A s \in 1..N : konst[rep[s]] \subseteq Values /\ \A v, w \in konst[rep[s]] : v = w
      BY <1>1, <1>5 DEF Struct, Constants
    <2> QED BY <1>2, <2>1, FoldShape
  <1>7. P \in [1..N -> SUBSET (1..(N + 1))]
    BY <1>1, <1>5
  <1> HIDE DEF N, n, P
  <1>70. /\ nodes \in [1..N -> ENodes(1..(N + 1))] /\ added \in [1..N -> ENodes(1..(N + 1))]
         /\ n \in ENodes(1..(N + 1)) /\ e \in ENodes(1..(N + 1))
         /\ rep \in [1..N -> 1..(N + 1)]
         /\ Fold(n, rep, konst) \in SUBSET Values
    BY <1>1, <1>2, <1>3, <1>5, <1>6
  <1> DEFINE E == ENodes(1..(N + 1))
             I == 1..(N + 1)
             V == SUBSET Values
             F == Fold(n, rep, konst)
             S == SUBSET (1..(N + 1))
  <1>71. /\ nodes \in [1..N -> E] /\ added \in [1..N -> E] /\ n \in E /\ e \in E
         /\ rep \in [1..N -> I] /\ N + 1 \in I
         /\ konst \in [1..N -> V] /\ F \in V
         /\ P \in [1..N -> S] /\ {} \in S
    BY <1>1, <1>5, <1>7, <1>70
  <1> HIDE DEF E, I, V, F, S
  <1>8. /\ nodes' \in [1..(N + 1) -> E] /\ Len(nodes') = N + 1
        /\ \A i \in 1..N : nodes'[i] = nodes[i]
        /\ nodes'[N + 1] = n
    <2>1. nodes' = Append(nodes, n)
      BY <1>4
    <2>2. N \in Nat /\ nodes \in [1..N -> E] /\ n \in E
      BY <1>1, <1>71
    <2>3. /\ Append(nodes, n) \in [1..(N + 1) -> E] /\ Len(Append(nodes, n)) = N + 1
          /\ \A i \in 1..N : Append(nodes, n)[i] = nodes[i]
          /\ Append(nodes, n)[N + 1] = n
      <3> HIDE DEF N, n
      <3>1. Append(nodes, n) \in [1..(N + 1) -> E]
        BY <2>2, Extended
      <3>2. Len(Append(nodes, n)) = N + 1
        BY <2>2, Extended
      <3>3. \A i \in 1..N : Append(nodes, n)[i] = nodes[i]
        BY <2>2, Extended
      <3>4. Append(nodes, n)[N + 1] = n
        BY <2>2, Extended
      <3> QED BY <3>1, <3>2, <3>3, <3>4
    <2> QED BY <2>1, <2>3
  <1>9. /\ added' \in [1..(N + 1) -> E]
        /\ \A i \in 1..N : added'[i] = added[i]
        /\ added'[N + 1] = e
    <2>1. added' = Append(added, e)
      BY <1>4
    <2>2. N \in Nat /\ added \in [1..N -> E] /\ e \in E
      BY <1>1, <1>71
    <2> QED BY <2>1, <2>2, Extended
  <1>10. imported' \in [1..(N + 1) -> BOOLEAN]
    <2>1. imported' = Append(imported, imp)
      BY <1>4
    <2>2. N \in Nat /\ imported \in [1..N -> BOOLEAN] /\ imp \in BOOLEAN
      BY <1>1, <1>5
    <2> QED BY <2>1, <2>2, Extended
  <1>11. /\ rep' \in [1..(N + 1) -> I]
         /\ \A i \in 1..N : rep'[i] = rep[i]
         /\ rep'[N + 1] = N + 1
    <2>1. rep' = Append(rep, N + 1)
      BY <1>4
    <2>2. N \in Nat /\ rep \in [1..N -> I] /\ N + 1 \in I
      BY <1>1, <1>71
    <2> QED BY <2>1, <2>2, Extended
  <1>12. /\ konst' \in [1..(N + 1) -> V]
         /\ \A i \in 1..N : konst'[i] = konst[i]
         /\ konst'[N + 1] = F
    <2>1. konst' = Append(konst, F)
      BY <1>4 DEF F
    <2>2. N \in Nat /\ konst \in [1..N -> V] /\ F \in V
      BY <1>1, <1>71
    <2> QED BY <2>1, <2>2, Extended
  <1>13. /\ parents' \in [1..(N + 1) -> S]
         /\ \A i \in 1..N : parents'[i] = P[i]
         /\ parents'[N + 1] = {}
    <2>1. parents' = Append(P, {})
      BY <1>4
    <2>2. N \in Nat /\ P \in [1..N -> S] /\ {} \in S
      BY <1>1, <1>71
    <2> QED BY <2>1, <2>2, Extended
  <1>14. /\ DOMAIN memo' = DOMAIN memo \cup {n}
         /\ \A x \in DOMAIN memo' : memo'[x] = IF x = n THEN N + 1 ELSE memo[x]
    BY <1>4 DEF Recall
  <1>15. TypeOK'
    <2>1. /\ DOMAIN memo' \subseteq ENodes(1..(N + 1))
          /\ \A x \in DOMAIN memo' : memo'[x] \in 1..(N + 1)
      BY <1>1, <1>2, <1>3, <1>14 DEF Struct, TypeOK, N
    <2>2. /\ pending' \subseteq 1..(N + 1) /\ todo' \subseteq 1..(N + 1)
          /\ kept' \subseteq 1..(N + 1) /\ cur' \in 0..(N + 1)
      BY <1>1, <1>4 DEF Struct, TypeOK, N
    <2>3. asked' \subseteq (1..(N + 1)) \X (1..(N + 1))
      BY <1>1, <1>4 DEF Struct, TypeOK, N
    <2>4. \A c \in 1..(N + 1) : \A v, w \in konst'[c] : v = w /\ rep'[c] = c
      <3>1. \A c \in 1..(N + 1) : c \in 1..N \/ c = N + 1
        BY <1>1
      <3> QED BY <1>1, <1>6, <1>11, <1>12, <3>1 DEF Struct, Constants, N, F
    <2> QED BY <1>8, <1>9, <1>10, <1>11, <1>12, <1>13, <2>1, <2>2, <2>3, <2>4
        DEF TypeOK, E, I, V, S
  <1>16. Roots(rep', N + 1) /\ Constants(konst', rep', N + 1)
    <2>1. \A c \in 1..(N + 1) : c \in 1..N \/ c = N + 1
      BY <1>1
    <2>2. Roots(rep', N + 1)
      BY <1>1, <1>5, <1>11, <2>1 DEF Struct, Roots, N, I
    <2>3. Constants(konst', rep', N + 1)
      BY <1>1, <1>6, <1>11, <1>12, <2>1 DEF Struct, Constants, N, F, V
    <2> QED BY <2>2, <2>3
  <1>17. ParentsHaveOperands'
    BY <1>1, <1>2, <1>4, <1>8, <1>13, ENodeShape DEF ParentsHaveOperands, Struct, TypeOK, Ids, P, N
  <1> QED BY <1>1, <1>8, <1>9, <1>11, <1>12, <1>15, <1>16, <1>17 DEF Struct, N, n, F

\* Adding an e-node keeps every value.
LEMMA AddSound ==
  ASSUME Struct, Sound, NEW e \in ENodes(Ids), NEW imp \in BOOLEAN, Add(e, imp),
         phase' \in {"import", "apply"}
  PROVE  Sound'
  <1> DEFINE N == Len(nodes)
             n == Canon(e)
  <1>1. N \in Nat /\ Ids = 1..N /\ e \in ENodes(1..N)
    BY DEF Struct, TypeOK, Ids
  <1>2. /\ Struct' /\ Len(nodes') = N + 1
        /\ \A i \in 1..N : nodes'[i] = nodes[i] /\ added'[i] = added[i] /\ rep'[i] = rep[i]
                         /\ konst'[i] = konst[i]
        /\ nodes'[N + 1] = n /\ added'[N + 1] = e
        /\ rep'[N + 1] = N + 1
        /\ konst'[N + 1] = Fold(n, rep, konst)
    BY <1>1, AddStruct
  <1>3. Ids' = 1..(N + 1)
    BY <1>2 DEF Struct, TypeOK, Ids
  <1>4. n \in ENodes(1..N) /\ n.kind = e.kind
    BY <1>1, CanonShape DEF Canon, Struct, Roots
  <1>5. SUFFICES ASSUME NEW val \in [1..(N + 1) -> Values], Models(val)' PROVE Respects(val)'
    BY <1>3 DEF Sound
  <1> DEFINE u == [i \in 1..N |-> val[i]]
  <1>6. u \in [1..N -> Values] /\ \A i \in 1..N : u[i] = val[i]
    BY <1>1
  <1>7. /\ \A i \in 1..(N + 1) : added'[i].kind # "leaf" => val[i] = Worth(added'[i], val)
        /\ \A p \in asked : val[p[1]] = val[p[2]]
    BY <1>3, <1>5 DEF Models, Add
  <1> HIDE DEF N, n, u
  <1>60. ASSUME NEW x \in ENodes(1..N), x.kind # "leaf" PROVE Worth(x, u) = Worth(x, val)
    <2>1. \A s \in 1..N : u[s] = val[s]
      BY <1>6
    <2>2. x.kind = "un" => x.kids[1] \in 1..N
      BY <1>60, ENodeShape
    <2>3. x.kind = "bin" => x.kids[1] \in 1..N /\ x.kids[2] \in 1..N
      BY <1>60, ENodeShape
    <2> QED BY <2>1, <2>2, <2>3 DEF Worth
  <1>8. Models(u)
    <2>1. ASSUME NEW i \in 1..N, added[i].kind # "leaf" PROVE u[i] = Worth(added[i], u)
      <3>1. added[i] \in ENodes(1..N)
        BY <1>1 DEF Struct, TypeOK, N
      <3>2. val[i] = Worth(added[i], val)
        BY <1>1, <1>2, <1>7, <2>1
      <3>3. Worth(added[i], u) = Worth(added[i], val)
        BY <2>1, <3>1, <1>60
      <3> QED BY <1>6, <3>2, <3>3
    <2>2. \A p \in asked : p[1] \in 1..N /\ p[2] \in 1..N
      BY DEF Struct, TypeOK, N
    <2> QED BY <1>1, <1>6, <1>7, <2>1, <2>2 DEF Models
  <1>9. Respects(u)
    BY <1>1, <1>6, <1>8 DEF Sound
  <1>10. \A i \in 1..N : rep[i] \in 1..N /\ val[rep[i]] = val[i]
    BY <1>1, <1>6, <1>9 DEF Respects, RootsFit, Struct, Roots, N
  <1>11. \A i \in 1..N : \A v \in konst[i] : val[i] = v
    BY <1>1, <1>6, <1>9 DEF Respects, ConstantsFit, Struct, Constants, N
  <1>12. n.kind # "leaf" => val[N + 1] = Worth(n, val)
    <2>1. ASSUME n.kind # "leaf" PROVE Worth(n, val) = Worth(e, val)
      <3>1. \A s \in 1..N : val[s] \in Values /\ val[rep[s]] = val[s]
        BY <1>1, <1>5, <1>10
      <3> QED BY <1>1, <1>4, <2>1, <3>1, CanonWorth DEF Canon, n
    <2> QED BY <1>1, <1>2, <1>4, <1>7, <2>1
  <1>13. \A v \in konst'[N + 1] : val[N + 1] = v
    <2>1. OperandsFit(1..N, rep, konst, val)
      BY <1>10, <1>11 DEF OperandsFit
    <2>2. n \in ENodes(1..N)
      BY <1>4
    <2>3. \A v \in Fold(n, rep, konst) : n.kind # "leaf" /\ v = Worth(n, val)
      BY <2>1, <2>2, FoldWorth
    <2> QED BY <1>2, <1>12, <2>3
  <1>14. \A i \in 1..N : nodes[i].kind # "leaf" => val[i] = Worth(nodes[i], val)
    <2>1. ASSUME NEW i \in 1..N, nodes[i].kind # "leaf" PROVE val[i] = Worth(nodes[i], val)
      <3>1. nodes[i] \in ENodes(1..N)
        BY <1>1 DEF Struct, TypeOK, N
      <3>2. Worth(nodes[i], u) = Worth(nodes[i], val)
        BY <2>1, <3>1, <1>60
      <3> QED BY <1>1, <1>6, <1>9, <2>1, <3>2 DEF Respects
    <2> QED BY <2>1
  <1>15. \A x \in DOMAIN memo : x.kind # "leaf" => val[memo[x]] = Worth(x, val)
    <2>1. ASSUME NEW x \in DOMAIN memo, x.kind # "leaf" PROVE val[memo[x]] = Worth(x, val)
      <3>1. x \in ENodes(1..N) /\ memo[x] \in 1..N
        BY <1>1, <2>1 DEF Struct, TypeOK, N
      <3>2. Worth(x, u) = Worth(x, val)
        BY <2>1, <3>1, <1>60
      <3> QED BY <1>6, <1>9, <2>1, <3>1, <3>2 DEF Respects
    <2> QED BY <2>1
  <1>16. /\ DOMAIN memo' = DOMAIN memo \cup {n}
         /\ \A x \in DOMAIN memo' : memo'[x] = IF x = n THEN N + 1 ELSE memo[x]
    BY DEF Add, Recall, N, n
  <1>17. \A i \in 1..(N + 1) : i \in 1..N \/ i = N + 1
    BY <1>1
  <1>18. RootsFit(rep', val)
    BY <1>2, <1>10, <1>17 DEF RootsFit, Struct, Roots
  <1>19. ConstantsFit(konst', val)
    BY <1>2, <1>11, <1>13, <1>17 DEF ConstantsFit, Struct, Constants
  <1>20. \A i \in 1..(N + 1) : nodes'[i].kind # "leaf" => val[i] = Worth(nodes'[i], val)
    BY <1>2, <1>12, <1>14, <1>17
  <1>21. \A x \in DOMAIN memo' : x.kind # "leaf" => val[memo'[x]] = Worth(x, val)
    BY <1>12, <1>15, <1>16
  <1> QED BY <1>3, <1>18, <1>19, <1>20, <1>21 DEF Respects

\* Uniting two classes an identity makes equal keeps the invariant; constants that
\* differ mean that the equations hold nowhere.
LEMMA UniteKeeps ==
  ASSUME Struct, Sound, NEW a \in Ids, NEW b \in Ids, rep[a] # rep[b],
         asked' = asked \cup {<<a, b>>}, phase = "apply", UniteClasses(a, b)
  PROVE  Struct' /\ Sound'
  <1> DEFINE N == Len(nodes)
  <1>1. N \in Nat /\ Ids = 1..N /\ a \in 1..N /\ b \in 1..N
    BY DEF Struct, TypeOK, Ids
  <1>2. nodes' = nodes /\ added' = added /\ memo' = memo /\ Ids' = Ids
    BY DEF UniteClasses, Abandon, Ids
  <1> HIDE DEF N
  <1>3. ASSUME NEW val \in [1..N -> Values], Models(val)'
        PROVE  Respects(val) /\ val[a] = val[b]
    <2>1. /\ \A i \in Ids : added[i].kind # "leaf" => val[i] = Worth(added[i], val)
          /\ \A p \in asked' : val[p[1]] = val[p[2]]
      BY <1>2, <1>3 DEF Models
    <2>2. asked \subseteq asked' /\ <<a, b>> \in asked'
      OBVIOUS
    <2>3. val[<<a, b>>[1]] = val[<<a, b>>[2]]
      BY <2>1, <2>2
    <2>4. Models(val) /\ val[a] = val[b]
      BY <2>1, <2>2, <2>3 DEF Models
    <2> QED BY <1>1, <2>4 DEF Sound
  <1>4. CASE Conflict(a, b, rep, konst)
    <2>1. \A val \in [1..N -> Values] : ~Models(val)'
      BY <1>1, <1>3, <1>4, UnionFits DEF Respects, Struct, N
    <2>2. Sound'
      BY <1>1, <1>2, <2>1 DEF Sound
    <2>3. /\ phase' = "contract"
          /\ UNCHANGED <<nodes, imported, rep, parents, konst, memo, pending, todo, kept, cur, added>>
      BY <1>4 DEF UniteClasses, Abandon
    <2>4. Struct'
      <3>1. asked' \subseteq (1..N) \X (1..N)
        BY <1>1 DEF Struct, TypeOK, N
      <3>2. Len(nodes') = N
        BY <2>3 DEF N
      <3>3. TypeOK'
        BY <2>3, <3>1, <3>2 DEF Struct, TypeOK, N
      <3>4. ParentsHaveOperands'
        BY <1>2, <2>3 DEF Struct, ParentsHaveOperands
      <3> QED BY <2>3, <3>3, <3>4 DEF Struct
    <2> QED BY <2>2, <2>4
  <1>5. CASE ~Conflict(a, b, rep, konst)
    <2>1. /\ rep' = RepAfter(a, b, rep)
          /\ konst' = KonstAfter(a, b, rep, konst)
          /\ parents' = ParentsAfter(a, b, rep, parents)
          /\ pending' = pending \cup {Lower(a, b, rep)}
          /\ UNCHANGED <<nodes, imported, memo, todo, kept, cur, phase, added>>
      BY <1>5 DEF UniteClasses
    <2>2. Roots(rep', N) /\ Constants(konst', rep', N)
      BY <1>1, <1>5, <2>1, UnionShape DEF Struct, N
    <2>3. Struct'
      <3>1. Lower(a, b, rep) \in 1..N /\ Higher(a, b, rep) \in 1..N
        BY <1>1 DEF Lower, Higher, Struct, Roots, N
      <3>2. parents \in [1..N -> SUBSET (1..N)]
        BY DEF Struct, TypeOK, N
      <3>20. /\ parents' \in [1..N -> SUBSET (1..N)]
             /\ \A c \in 1..N : \A p \in parents'[c] : \E d \in 1..N : p \in parents[d]
        BY <1>1, <2>1, <3>1, <3>2, ParentsMoved
      <3>3. ParentsHaveOperands'
        BY <1>1, <1>2, <2>1, <3>20 DEF ParentsHaveOperands, Struct
      <3>4. asked' \subseteq (1..N) \X (1..N)
        BY <1>1 DEF TypeOK, Struct, N
      <3>5. pending' \subseteq 1..N
        BY <1>1, <2>1, <3>1 DEF TypeOK, Struct, N
      <3>6. /\ rep' \in [1..N -> 1..N] /\ konst' \in [1..N -> SUBSET Values]
            /\ \A c \in 1..N : \A v, w \in konst'[c] : v = w /\ rep'[c] = c
        BY <2>2 DEF Roots, Constants
      <3>7. TypeOK'
        BY <1>1, <2>1, <3>20, <3>4, <3>5, <3>6 DEF TypeOK, Struct, N
      <3> QED BY <1>1, <2>1, <2>2, <3>3, <3>7 DEF Struct, N
    <2>4. ASSUME NEW val \in [1..N -> Values], Models(val)' PROVE Respects(val)'
      <3>1. Respects(val) /\ val[a] = val[b]
        BY <1>3, <2>4
      <3>2. RootsFit(rep', val) /\ ConstantsFit(konst', val)
        BY <1>1, <2>1, <3>1, UnionFits DEF Respects, Struct, N
      <3> QED BY <1>2, <2>1, <3>1, <3>2 DEF Respects
    <2>5. Sound'
      BY <1>1, <1>2, <2>4 DEF Sound
    <2> QED BY <2>3, <2>5
  <1> QED BY <1>4, <1>5

\* The e-nodes nobody has yet give every claim about all of them.
LEMMA SoundInit == Init => Sound
  <1> SUFFICES ASSUME Init, NEW val \in [Ids -> Values], Models(val) PROVE Respects(val)
    BY DEF Sound
  <1> USE DEF Init
  <1>1. DOMAIN nodes = {} /\ DOMAIN rep = {} /\ DOMAIN konst = {}
    OBVIOUS
  <1> QED BY <1>1 DEF Respects, RootsFit, ConstantsFit, Ids

\* Repairing a parent keeps the invariant: its class has the value of its canonical
\* form, and so has the class of the e-node it is congruent to.
LEMMA RepairKeeps ==
  ASSUME Struct, Sound, phase = "rebuild", NEW p \in todo, RepairParent(p),
         asked' = asked
  PROVE  Struct' /\ Sound'
  <1> DEFINE N == Len(nodes)
             old == nodes[p]
             rest == IF old \in DOMAIN memo /\ memo[old] = p THEN Forget(memo, old) ELSE memo
             n == Canon(old)
             q == Twin(p, n, rest)
             differ == rep[p] # rep[q]
             r1 == IF differ THEN RepAfter(p, q, rep) ELSE rep
             k1 == IF differ THEN KonstAfter(p, q, rep, konst) ELSE konst
             new == Folded(p, n, r1, k1)
             clash == \/ differ /\ Conflict(p, q, rep, konst)
                      \/ \E v \in k1[r1[p]], w \in new : v # w
  <1>1. /\ N \in Nat /\ Ids = 1..N /\ p \in 1..N
        /\ old \in ENodes(1..N) /\ old.kind # "leaf"
    BY DEF Struct, TypeOK, Ids, ParentsHaveOperands
  <1>2. n \in ENodes(1..N) /\ n.kind = old.kind
    BY <1>1, CanonShape DEF Canon, Struct, Roots
  <1>3. DOMAIN rest \subseteq DOMAIN memo /\ \A x \in DOMAIN rest : rest[x] = memo[x]
    BY DEF Forget
  <1>4. q \in 1..N /\ (q = p \/ (n \in DOMAIN memo /\ q = memo[n]))
    BY <1>1, <1>3 DEF Twin, Struct, TypeOK
  <1>5. clash => /\ phase' = "contract"
                 /\ UNCHANGED <<nodes, imported, rep, parents, konst, memo, pending, todo,
                                kept, cur, added>>
    BY DEF RepairParent, Abandon
  <1>6. ~clash => /\ nodes' = [nodes EXCEPT ![p] = n]
                  /\ memo' = Recall(rest, n, q)
                  /\ rep' = r1
                  /\ konst' = [k1 EXCEPT ![r1[p]] = @ \cup new]
                  /\ parents' = IF differ THEN ParentsAfter(p, q, rep, parents) ELSE parents
                  /\ pending' = pending \cup (IF differ THEN {Lower(p, q, rep)} ELSE {})
                                        \cup Requeue(r1[p], new)
                  /\ todo' = todo \ {p} /\ kept' = kept \cup {p}
                  /\ UNCHANGED <<imported, cur, phase, added>>
    BY DEF RepairParent
  <1> HIDE DEF N, old, rest, n, q
  <1>7. ASSUME ~(differ /\ Conflict(p, q, rep, konst))
        PROVE  Roots(r1, N) /\ Constants(k1, r1, N)
    BY <1>1, <1>4, <1>7, UnionShape DEF Struct, N
  <1>8. ASSUME NEW val \in [1..N -> Values], Models(val)
        PROVE  Respects(val) /\ val[p] = Worth(n, val) /\ val[q] = val[p]
    <2>1. Respects(val)
      BY <1>1, <1>8 DEF Sound
    <2>2. \A s \in 1..N : val[s] \in Values /\ val[rep[s]] = val[s]
      BY <1>8, <2>1 DEF Respects, RootsFit, Struct, Roots, N
    <2>3. Worth(n, val) = Worth(old, val)
      BY <1>1, <2>2, CanonWorth DEF Canon, n
    <2>4. val[p] = Worth(old, val)
      BY <1>1, <2>1 DEF Respects, old
    <2>5. n \in DOMAIN memo => val[memo[n]] = Worth(n, val)
      BY <1>1, <1>2, <2>1 DEF Respects
    <2> QED BY <1>4, <2>1, <2>3, <2>4, <2>5
  <1>9. ASSUME NEW val \in [1..N -> Values], Models(val)
        PROVE  /\ ~(differ /\ Conflict(p, q, rep, konst))
               /\ RootsFit(r1, val) /\ ConstantsFit(k1, val)
    <2>1. Respects(val) /\ val[p] = val[q]
      BY <1>8, <1>9
    <2> QED BY <1>1, <1>4, <2>1, UnionFits DEF Respects, Struct, N
  <1> HIDE DEF differ, r1, k1
  <1>10. ASSUME NEW val \in [1..N -> Values], Models(val)
         PROVE  \A v \in new \cup k1[r1[p]] : v = val[r1[p]]
    <2>1. /\ ~(differ /\ Conflict(p, q, rep, konst))
          /\ RootsFit(r1, val) /\ ConstantsFit(k1, val)
      BY <1>9, <1>10
    <2>2. Roots(r1, N) /\ Constants(k1, r1, N)
      BY <1>7, <2>1
    <2>3. OperandsFit(1..N, r1, k1, val)
      BY <2>1, <2>2 DEF OperandsFit, RootsFit, ConstantsFit, Roots, Constants
    <2>4. \A v \in Fold(n, r1, k1) : v = Worth(n, val)
      BY <1>2, <2>3, FoldWorth
    <2>5. val[p] = Worth(n, val) /\ val[r1[p]] = val[p]
      BY <1>1, <1>8, <1>10, <2>1, <2>2 DEF RootsFit, Roots
    <2>6. \A v \in k1[r1[p]] : val[r1[p]] = v
      BY <1>1, <2>1, <2>2 DEF ConstantsFit, Roots, Constants
    <2>7. new \subseteq Fold(n, r1, k1)
      BY DEF Folded
    <2> QED BY <2>4, <2>5, <2>6, <2>7
  <1>11. CASE clash
    <2>1. \A val \in [1..N -> Values] : ~Models(val)
      BY <1>9, <1>10, <1>11
    <2>2. Ids' = Ids /\ added' = added
      BY <1>5, <1>11 DEF Ids
    <2>3. Sound'
      BY <1>1, <2>1, <2>2 DEF Sound, Models
    <2>4. Struct'
      BY <1>1, <1>5, <1>11 DEF Struct, TypeOK, ParentsHaveOperands, Ids, N
    <2> QED BY <2>3, <2>4
  <1>12. CASE ~clash
    <2>1. Roots(r1, N) /\ Constants(k1, r1, N)
      BY <1>7, <1>12
    <2>2. /\ r1 \in [1..N -> 1..N] /\ k1 \in [1..N -> SUBSET Values]
          /\ r1[p] \in 1..N /\ r1[r1[p]] = r1[p]
      BY <1>1, <2>1 DEF Roots, Constants
    <2>3. new \subseteq Values /\ \A v, w \in new : v = w
      <3>1. \A s \in 1..N : k1[r1[s]] \subseteq Values /\ \A v, w \in k1[r1[s]] : v = w
        BY <2>1 DEF Roots, Constants
      <3>2. Fold(n, r1, k1) \subseteq Values /\ \A v, w \in Fold(n, r1, k1) : v = w
        BY <1>2, <3>1, FoldShape
      <3> QED BY <3>2 DEF Folded
    <2>4. /\ nodes' = [nodes EXCEPT ![p] = n] /\ nodes' \in [1..N -> ENodes(1..N)]
          /\ Len(nodes') = N /\ Ids' = 1..N
      <3>1. nodes' = [nodes EXCEPT ![p] = n]
        BY <1>6, <1>12
      <3>2. nodes' \in [1..N -> ENodes(1..N)]
        BY <1>1, <1>2, <3>1 DEF Struct, TypeOK, N
      <3>3. nodes' \in Seq(ENodes(1..N)) /\ DOMAIN nodes' = 1..N
        BY <1>1, <3>2, SeqDef
      <3> QED BY <1>1, <3>1, <3>2, <3>3, LenProperties DEF Ids
    <2>5. /\ rep' = r1 /\ konst' = [k1 EXCEPT ![r1[p]] = k1[r1[p]] \cup new]
          /\ added' = added
      BY <1>6, <1>12
    <2>6. \A v, w \in k1[r1[p]] \cup new : v = w
      BY <1>12, <2>1, <2>2, <2>3 DEF Constants
    <2> HIDE DEF new
    <2>7. Constants(konst', rep', N)
      BY <2>1, <2>2, <2>3, <2>5, <2>6 DEF Constants
    <2>8. /\ DOMAIN memo' \subseteq DOMAIN memo \cup {n}
          /\ \A x \in DOMAIN memo' : memo'[x] = IF x = n THEN q ELSE memo[x]
      BY <1>3, <1>6, <1>12 DEF Recall
    <2>9. Struct'
      <3>1. /\ parents' \in [1..N -> SUBSET (1..N)]
            /\ \A c \in 1..N : \A x \in parents'[c] : \E d \in 1..N : x \in parents[d]
        <4>1. parents \in [1..N -> SUBSET (1..N)]
          BY DEF Struct, TypeOK, N
        <4>2. Lower(p, q, rep) \in 1..N /\ Higher(p, q, rep) \in 1..N
          BY <1>1, <1>4 DEF Lower, Higher, Struct, Roots, N
        <4>3. parents' = IF differ THEN ParentsAfter(p, q, rep, parents) ELSE parents
          BY <1>6, <1>12
        <4> QED BY <1>1, <4>1, <4>2, <4>3, ParentsMoved
      <3>2. \A x \in 1..N : nodes[x].kind # "leaf" => nodes'[x].kind # "leaf"
        BY <1>1, <1>2, <2>4 DEF Struct, TypeOK, N, old
      <3>3. ParentsHaveOperands'
        <4>1. todo' \cup kept' = todo \cup kept
          BY <1>6, <1>12
        <4>2. \A d \in 1..N : \A x \in parents[d] : x \in 1..N /\ nodes[x].kind # "leaf"
          BY <1>1 DEF Struct, TypeOK, ParentsHaveOperands, N
        <4>3. \A x \in todo \cup kept : x \in 1..N /\ nodes[x].kind # "leaf"
          BY <1>1 DEF Struct, TypeOK, ParentsHaveOperands, N
        <4> QED BY <2>4, <3>1, <3>2, <4>1, <4>2, <4>3 DEF ParentsHaveOperands
      <3>4. pending' \subseteq 1..N
        <4>1. Lower(p, q, rep) \in 1..N
          BY <1>1, <1>4 DEF Lower, Struct, Roots, N
        <4>2. Requeue(r1[p], new) \subseteq 1..N
          BY <2>2 DEF Requeue
        <4>3. pending \subseteq 1..N
          BY DEF Struct, TypeOK, N
        <4> QED BY <1>6, <1>12, <4>1, <4>2, <4>3
      <3>5. /\ DOMAIN memo' \subseteq ENodes(1..N)
            /\ \A x \in DOMAIN memo' : memo'[x] \in 1..N
        BY <1>2, <1>4, <2>8 DEF Struct, TypeOK, N
      <3>6. /\ rep' \in [1..N -> 1..N] /\ konst' \in [1..N -> SUBSET Values]
            /\ \A c \in 1..N : \A v, w \in konst'[c] : v = w /\ rep'[c] = c
        BY <2>2, <2>5, <2>7 DEF Constants
      <3>7. /\ todo' \subseteq 1..N /\ kept' \subseteq 1..N
            /\ UNCHANGED <<imported, cur, phase, added, asked>>
        BY <1>1, <1>6, <1>12 DEF Struct, TypeOK, N
      <3>8. TypeOK'
        BY <2>4, <3>1, <3>4, <3>5, <3>6, <3>7 DEF Struct, TypeOK, N
      <3> QED BY <1>1, <2>1, <2>4, <2>5, <2>7, <3>3, <3>8 DEF Struct
    <2>10. ASSUME NEW val \in [1..N -> Values], Models(val) PROVE Respects(val)'
      <3>1. Respects(val) /\ val[p] = Worth(n, val) /\ val[q] = val[p]
        BY <1>8, <2>10
      <3>2. RootsFit(rep', val) /\ ConstantsFit(k1, val)
        BY <1>9, <2>5, <2>10
      <3>3. \A v \in new \cup k1[r1[p]] : v = val[r1[p]]
        BY <1>10, <2>10
      <3>4. ConstantsFit(konst', val)
        BY <2>2, <2>5, <3>2, <3>3 DEF ConstantsFit
      <3>5. \A i \in 1..N : nodes'[i].kind # "leaf" => val[i] = Worth(nodes'[i], val)
        BY <1>1, <2>4, <3>1 DEF Respects, Struct, TypeOK, N
      <3>6. \A x \in DOMAIN memo' : x.kind # "leaf" => val[memo'[x]] = Worth(x, val)
        BY <2>8, <3>1 DEF Respects
      <3>7. phase' # "contract"
        BY <1>6, <1>12
      <3> QED BY <2>4, <3>2, <3>4, <3>5, <3>6, <3>7 DEF Respects
    <2>11. Sound'
      <3>1. \A val : Models(val)' = Models(val)
        BY <1>1, <2>4, <2>5 DEF Models
      <3> QED BY <2>4, <2>10, <3>1 DEF Sound
    <2> QED BY <2>9, <2>11
  <1> QED BY <1>11, <1>12

\* Importing the next e-node of a root.
LEMMA ImportKeeps == Struct /\ Sound /\ Import => Struct' /\ Sound'
  <1> SUFFICES ASSUME Struct, Sound, Import PROVE Struct' /\ Sound'
    OBVIOUS
  <1>1. PICK root \in Imports :
          /\ Len(nodes) < Len(root)
          /\ added = SubSeq(root, 1, Len(nodes))
          /\ Add(root[Len(nodes) + 1], TRUE)
    BY DEF Import
  <1>2. Len(nodes) + 1 \in 1..Len(root) /\ (Len(nodes) + 1) - 1 = Len(nodes)
    BY <1>1, ImportsAssumption DEF Struct
  <1>3. root[Len(nodes) + 1] \in ENodes(Ids)
    BY <1>2, ImportsAssumption DEF Ids, Struct, TypeOK
  <1>4. phase' = "import"
    BY DEF Import
  <1> QED BY <1>1, <1>3, <1>4, AddStruct, AddSound

\* Building an identity's other side.
LEMMA InstantiateKeeps == Struct /\ Sound /\ Instantiate => Struct' /\ Sound'
  <1> SUFFICES ASSUME Struct, Sound, Instantiate PROVE Struct' /\ Sound'
    OBVIOUS
  <1>1. PICK n \in ENodes(Ids) : Add(n, FALSE)
    BY DEF Instantiate
  <1>2. phase' = "apply"
    BY DEF Instantiate
  <1> QED BY <1>1, <1>2, AddStruct, AddSound

\* The steps that only move ids between the worklist, the parents and the class being
\* repaired keep classes and constants as they are.
LEMMA QuietKeeps ==
  ASSUME Struct, Sound,
         UNCHANGED <<nodes, imported, rep, konst, memo, added, asked>>,
         phase' \in {"import", "apply", "rebuild", "contract"},
         phase' = "contract" => phase = "contract",
         parents' \in [Ids -> SUBSET Ids],
         pending' \subseteq Ids, todo' \subseteq Ids, kept' \subseteq Ids,
         cur' \in {0} \cup Ids,
         ParentsHaveOperands'
  PROVE  Struct' /\ Sound'
  <1>1. Len(nodes) \in Nat /\ Ids = 1..Len(nodes) /\ Ids' = Ids
    BY DEF Struct, TypeOK, Ids
  <1>2. Struct'
    BY <1>1 DEF Struct, TypeOK
  <1>3. \A val : Models(val)' = Models(val)
    BY <1>1 DEF Models
  <1>4. \A val : Respects(val) => Respects(val)'
    BY <1>1 DEF Respects
  <1> QED BY <1>1, <1>2, <1>3, <1>4 DEF Sound

\* Taking a class off the worklist, putting its parents back, and the other steps
\* between phases.
LEMMA BookkeepingKeeps ==
  ASSUME Struct, Sound,
         Imported \/ StartRebuild \/ TakeClass \/ PutBack \/ Rebuilt \/ UNCHANGED vars
  PROVE  Struct' /\ Sound'
  <1>1. Len(nodes) \in Nat /\ Ids = 1..Len(nodes)
    BY DEF Struct, TypeOK, Ids
  <1>2. /\ parents \in [Ids -> SUBSET Ids] /\ rep \in [Ids -> Ids]
        /\ pending \subseteq Ids /\ todo \subseteq Ids /\ kept \subseteq Ids
        /\ cur \in {0} \cup Ids
        /\ phase \in {"import", "apply", "rebuild", "contract"}
    BY <1>1 DEF Struct, TypeOK
  <1>3. CASE Imported \/ StartRebuild \/ Rebuilt
    <2>1. /\ UNCHANGED <<nodes, imported, rep, konst, memo, added, asked>>
          /\ UNCHANGED <<parents, pending, todo, kept, cur>>
          /\ phase' \in {"apply", "rebuild"}
      BY <1>3 DEF Imported, StartRebuild, Rebuilt
    <2>2. ParentsHaveOperands'
      BY <2>1 DEF Struct, ParentsHaveOperands, Ids
    <2> QED BY <1>2, <2>1, <2>2, QuietKeeps
  <1>4. CASE UNCHANGED vars
    <2>1. /\ UNCHANGED <<nodes, imported, rep, konst, memo, added, asked>>
          /\ UNCHANGED <<parents, pending, todo, kept, cur, phase>>
      BY <1>4 DEF vars
    <2>2. ParentsHaveOperands'
      BY <2>1 DEF Struct, ParentsHaveOperands, Ids
    <2> QED BY <1>2, <2>1, <2>2, QuietKeeps
  <1>5. CASE TakeClass
    <2>1. PICK c \in pending :
            /\ pending' = pending \ {c}
            /\ cur' = rep[c]
            /\ todo' = parents[rep[c]]
            /\ parents' = [parents EXCEPT ![rep[c]] = {}]
      BY <1>5 DEF TakeClass
    <2>2. /\ kept' = {} /\ phase' = phase /\ phase = "rebuild"
          /\ UNCHANGED <<nodes, imported, rep, konst, memo, added, asked>>
      BY <1>5 DEF TakeClass
    <2>3. rep[c] \in Ids
      BY <1>2, <2>1
    <2>4. parents' \in [Ids -> SUBSET Ids] /\ \A d \in Ids : parents'[d] \subseteq parents[d]
      BY <1>2, <2>1, <2>3
    <2>5. todo' \subseteq Ids /\ pending' \subseteq Ids /\ cur' \in {0} \cup Ids
      BY <1>2, <2>1, <2>3
    <2>6. ParentsHaveOperands'
      BY <2>1, <2>2, <2>3, <2>4 DEF Struct, ParentsHaveOperands, Ids
    <2> QED BY <2>2, <2>4, <2>5, <2>6, QuietKeeps
  <1>6. CASE PutBack
    <2>1. /\ cur # 0 /\ todo = {} /\ cur' = 0 /\ kept' = {}
          /\ parents' = [parents EXCEPT ![rep[cur]] = @ \cup kept]
          /\ phase = "rebuild"
          /\ UNCHANGED <<nodes, imported, rep, konst, memo, pending, todo, phase, added, asked>>
      BY <1>6 DEF PutBack
    <2>2. rep[cur] \in Ids
      BY <1>2, <2>1
    <2>3. /\ parents' \in [Ids -> SUBSET Ids]
          /\ \A d \in Ids : parents'[d] \subseteq parents[d] \cup kept
      BY <1>2, <2>1, <2>2
    <2>4. ParentsHaveOperands'
      BY <2>1, <2>3 DEF Struct, ParentsHaveOperands, Ids
    <2> QED BY <1>2, <2>1, <2>3, <2>4, QuietKeeps
  <1> QED BY <1>3, <1>4, <1>5, <1>6

-----------------------------------------------------------------------------
(* Types and soundness. *)

\* Every step keeps the invariant.
LEMMA StepKeeps == Struct /\ Sound /\ [Next]_vars => Struct' /\ Sound'
  <1> SUFFICES ASSUME Struct, Sound, [Next]_vars PROVE Struct' /\ Sound'
    OBVIOUS
  <1>1. CASE Import
    BY <1>1, ImportKeeps
  <1>2. CASE Instantiate
    BY <1>2, InstantiateKeeps
  <1>3. CASE Unite
    <2>1. PICK a \in Ids, b \in Ids :
            /\ rep[a] # rep[b]
            /\ asked' = asked \cup {<<a, b>>}
            /\ UniteClasses(a, b)
      BY <1>3 DEF Unite
    <2>2. phase = "apply"
      BY <1>3 DEF Unite
    <2> QED BY <2>1, <2>2, UniteKeeps
  <1>4. CASE Repair
    <2>1. PICK p \in todo : RepairParent(p)
      BY <1>4 DEF Repair
    <2>2. phase = "rebuild" /\ asked' = asked
      BY <1>4 DEF Repair
    <2> QED BY <2>1, <2>2, RepairKeeps
  <1>5. CASE Imported \/ StartRebuild \/ TakeClass \/ PutBack \/ Rebuilt \/ UNCHANGED vars
    BY <1>5, BookkeepingKeeps
  <1> QED BY <1>1, <1>2, <1>3, <1>4, <1>5 DEF Next, Rebuild

\* And so it always holds.
LEMMA Invariance == Spec => [](Struct /\ Sound)
  <1>1. Init => Struct /\ Sound
    BY StructInit, SoundInit
  <1>2. Struct /\ Sound /\ [Next]_vars => Struct' /\ Sound'
    BY StepKeeps
  <1> QED BY <1>1, <1>2, PTL DEF Spec

\* The variables of the e-graph (eqsat/egraph.rs) keep their types; a class has at most
\* one constant, kept at its canonical id.
THEOREM TypeCorrect == Spec => []TypeOK
  <1>1. Struct /\ Sound => TypeOK
    BY DEF Struct
  <1> QED BY <1>1, Invariance, PTL

\* What the invariant is for.
LEMMA SoundIs == Struct /\ Sound => SoundMerges
  <1> SUFFICES ASSUME Struct, Sound, NEW val \in [Ids -> Values], Models(val)
               PROVE  /\ phase # "contract"
                      /\ \A i \in Ids : /\ val[rep[i]] = val[i]
                                        /\ \A v \in konst[rep[i]] : val[i] = v
    BY DEF SoundMerges
  <1>1. Respects(val)
    BY DEF Sound
  <1>2. Ids = DOMAIN rep /\ Ids = DOMAIN konst /\ \A i \in Ids : rep[i] \in Ids
    BY DEF Struct, TypeOK, Ids
  <1> QED BY <1>1, <1>2 DEF Respects, RootsFit, ConstantsFit

\* However adds, unions and the repairs of a rebuild (add, union, rebuild of
\* eqsat/egraph.rs) interleave, classes hold only equal terms, constants are their
\* values, and a contract violation blames the identities: for every set of operators,
\* roots and identities.
THEOREM SoundMergesAlways == Spec => []SoundMerges
  <1>1. Struct /\ Sound => SoundMerges
    BY SoundIs
  <1> QED BY <1>1, Invariance, PTL

-----------------------------------------------------------------------------
(* What a rebuild still owes. *)

\* An e-node the rebuild comes to: a parent of the class being repaired, not repaired yet,
\* or of a class on the worklist.
Due(i) ==
  \/ i \in todo
  \/ \E c \in pending : i \in parents[rep[c]]
  \/ i \in kept /\ \E c \in pending : rep[c] = rep[cur]

OperandsOf(n) == {n.kids[j] : j \in DOMAIN n.kids}
Kids(i) == OperandsOf(nodes[i])
Sorted(n) == n.kind = "bin" /\ n.op \in Commutative => n.kids[1] <= n.kids[2]

\* A class knows its parents, or they are taken out while they are repaired.
ParentsKnown ==
  \A i \in Ids : \A k \in Kids(i) :
    \/ i \in parents[rep[k]]
    \/ cur # 0 /\ rep[k] = rep[cur] /\ i \in todo \cup kept

\* Nothing about the e-node is left to be repaired.
KeyFound(i) == nodes[i] \in DOMAIN memo /\ rep[memo[nodes[i]]] = rep[i]
InOrder(i) ==
  /\ \A k \in Kids(i) : rep[k] = k
  /\ KeyFound(i)
  /\ Fold(nodes[i], rep, konst) \subseteq konst[rep[i]]
OtherwiseInOrder == \A i \in Ids : Due(i) \/ InOrder(i)

\* An e-node as it is kept is the one added, up to the classes; the hash-cons leads to e-nodes
\* kept under their keys; what was asked for is united.
KeptFaithful == \A i \in Ids : Canon(nodes[i]) = Canon(added[i]) /\ Sorted(nodes[i])
KeysRight == \A n \in DOMAIN memo : nodes[memo[n]] = n
AskedUnited == phase # "contract" => \A e \in asked : rep[e[1]] = rep[e[2]]
Repairing ==
  /\ cur = 0 => todo = {} /\ kept = {}
  /\ cur # 0 => phase \in {"rebuild", "contract"}
Owing ==
  Repairing /\ ParentsKnown /\ OtherwiseInOrder /\ KeptFaithful /\ KeysRight /\ AskedUnited

\* The operands of each kind of e-node.
LEMMA OperandsAre ==
  ASSUME NEW S, NEW n \in ENodes(S)
  PROVE  /\ n.kind = "un" => n = Un(n.op, n.kids[1]) /\ OperandsOf(n) = {n.kids[1]}
         /\ n.kind = "bin" => n = Bin(n.op, n.kids[1], n.kids[2]) /\ OperandsOf(n) = {n.kids[1], n.kids[2]}
         /\ n.kind \in {"const", "leaf"} => OperandsOf(n) = {}
         /\ OperandsOf(n) \subseteq S
  <1>1. \A v : OperandsOf(Const(v)) = {} /\ OperandsOf(Leaf(v)) = {}
    BY DEF OperandsOf, Const, Leaf
  <1>2. \A o, a : OperandsOf(Un(o, a)) = {a}
    <2> TAKE o, a
    <2>1. Un(o, a).kids = <<a>> /\ DOMAIN <<a>> = {1} /\ <<a>>[1] = a
      BY DEF Un
    <2> QED BY <2>1 DEF OperandsOf
  <1>3. \A o, a, b : OperandsOf(Bin(o, a, b)) = {a, b}
    <2> TAKE o, a, b
    <2>1. Bin(o, a, b).kids = <<a, b>> /\ DOMAIN <<a, b>> = {1, 2} /\ <<a, b>>[1] = a /\ <<a, b>>[2] = b
      BY DEF Bin
    <2> QED BY <2>1 DEF OperandsOf
  <1>4. CASE \E v : n = Const(v) \/ n = Leaf(v)
    <2>1. n.kind \in {"const", "leaf"}
      BY <1>4 DEF Const, Leaf
    <2> QED BY <1>1, <1>4, <2>1
  <1>5. ASSUME NEW o \in UnOps, NEW a \in S, n = Un(o, a)
        PROVE  n.kind = "un" /\ n = Un(n.op, n.kids[1]) /\ OperandsOf(n) = {n.kids[1]} /\ n.kids[1] \in S
    BY <1>2, <1>5 DEF Un
  <1>6. ASSUME NEW o \in BinOps, NEW a \in S, NEW b \in S, n = Bin(o, a, b)
        PROVE  /\ n.kind = "bin" /\ n = Bin(n.op, n.kids[1], n.kids[2]) /\ OperandsOf(n) = {n.kids[1], n.kids[2]}
               /\ n.kids[1] \in S /\ n.kids[2] \in S
    BY <1>3, <1>6 DEF Bin
  <1>7. \/ \E v : n = Const(v) \/ n = Leaf(v)
        \/ \E o \in UnOps, a \in S : n = Un(o, a)
        \/ \E o \in BinOps, a, b \in S : n = Bin(o, a, b)
    BY DEF ENodes
  <1> QED BY <1>4, <1>5, <1>6, <1>7

\* Making canonical under one choice of roots and then under one that refines nothing is making
\* canonical under the second.
LEMMA CanonTwice ==
  ASSUME NEW S \in SUBSET Int, NEW n \in ENodes(S), NEW r, NEW s,
         \A x \in S : s[x] \in Int /\ s[r[x]] = s[x]
  PROVE  CanonUnder(CanonUnder(n, r), s) = CanonUnder(n, s)
  <1>1. CASE n.kind = "un"
    BY <1>1, ENodeShape DEF CanonUnder, Un
  <1>2. CASE n.kind = "bin"
    <2> DEFINE a == n.kids[1]
               b == n.kids[2]
    <2>1. a \in S /\ b \in S
      BY <1>2, ENodeShape
    <2>2. s[r[a]] = s[a] /\ s[r[b]] = s[b] /\ s[a] \in Int /\ s[b] \in Int
      BY <2>1
    <2>3. \A o, x, y : Bin(o, x, y).kind = "bin" /\ Bin(o, x, y).op = o
                       /\ Bin(o, x, y).kids[1] = x /\ Bin(o, x, y).kids[2] = y
      BY DEF Bin
    <2>4. \A o, x, y : CanonUnder(Bin(o, x, y), s) =
                         IF o \in Commutative /\ s[y] < s[x] THEN Bin(o, s[y], s[x]) ELSE Bin(o, s[x], s[y])
      BY <2>3 DEF CanonUnder
    <2>5. CanonUnder(n, s) = IF n.op \in Commutative /\ s[b] < s[a] THEN Bin(n.op, s[b], s[a]) ELSE Bin(n.op, s[a], s[b])
      BY <1>2 DEF CanonUnder
    <2>6. CanonUnder(n, r) = IF n.op \in Commutative /\ r[b] < r[a] THEN Bin(n.op, r[b], r[a]) ELSE Bin(n.op, r[a], r[b])
      BY <1>2 DEF CanonUnder
    <2> HIDE DEF a, b
    <2>7. CASE n.op \in Commutative /\ r[b] < r[a]
      <3>1. CanonUnder(CanonUnder(n, r), s) =
              IF n.op \in Commutative /\ s[a] < s[b] THEN Bin(n.op, s[a], s[b]) ELSE Bin(n.op, s[b], s[a])
        BY <2>2, <2>4, <2>6, <2>7
      <3>2. CASE s[a] = s[b]
        BY <2>5, <3>1, <3>2
      <3>3. CASE s[a] < s[b]
        BY <2>2, <2>5, <2>7, <3>1, <3>3
      <3>4. CASE s[b] < s[a]
        BY <2>2, <2>5, <2>7, <3>1, <3>4
      <3> QED BY <2>2, <3>2, <3>3, <3>4
    <2>8. CASE ~(n.op \in Commutative /\ r[b] < r[a])
      BY <2>2, <2>4, <2>5, <2>6, <2>8
    <2> QED BY <2>7, <2>8
  <1>3. CASE n.kind \in {"const", "leaf"}
    BY <1>3 DEF CanonUnder
  <1> QED BY <1>1, <1>2, <1>3, ENodeShape

\* A canonical e-node is sorted, over the roots of the operands; one that is already is kept.
LEMMA CanonIs ==
  ASSUME NEW S \in SUBSET Int, NEW n \in ENodes(S), NEW r, \A x \in S : r[x] \in Int
  PROVE  /\ Sorted(CanonUnder(n, r))
         /\ OperandsOf(CanonUnder(n, r)) = {r[k] : k \in OperandsOf(n)}
         /\ Sorted(n) /\ (\A k \in OperandsOf(n) : r[k] = k) => CanonUnder(n, r) = n
  <1>1. CASE n.kind = "un"
    <2>1. CanonUnder(n, r) = Un(n.op, r[n.kids[1]]) /\ n = Un(n.op, n.kids[1]) /\ OperandsOf(n) = {n.kids[1]}
      BY <1>1, OperandsAre DEF CanonUnder
    <2>2. Un(n.op, r[n.kids[1]]).kind = "un" /\ OperandsOf(Un(n.op, r[n.kids[1]])) = {r[n.kids[1]]}
      <3>1. Un(n.op, r[n.kids[1]]).kids = <<r[n.kids[1]]>> /\ DOMAIN <<r[n.kids[1]]>> = {1}
        BY DEF Un
      <3>2. <<r[n.kids[1]]>>[1] = r[n.kids[1]]
        OBVIOUS
      <3> QED BY <3>1, <3>2 DEF OperandsOf, Un
    <2> QED BY <2>1, <2>2 DEF Sorted
  <1>2. CASE n.kind = "bin"
    <2> DEFINE a == n.kids[1]
               b == n.kids[2]
               c == CanonUnder(n, r)
    <2>1. n = Bin(n.op, a, b) /\ OperandsOf(n) = {a, b} /\ a \in S /\ b \in S
      BY <1>2, OperandsAre, ENodeShape
    <2>2. \A o, x, y : OperandsOf(Bin(o, x, y)) = {x, y}
      <3> TAKE o, x, y
      <3>1. Bin(o, x, y).kids = <<x, y>> /\ DOMAIN <<x, y>> = {1, 2} /\ <<x, y>>[1] = x /\ <<x, y>>[2] = y
        BY DEF Bin
      <3> QED BY <3>1 DEF OperandsOf
    <2>3. c = IF n.op \in Commutative /\ r[b] < r[a] THEN Bin(n.op, r[b], r[a]) ELSE Bin(n.op, r[a], r[b])
      BY <1>2 DEF CanonUnder
    <2>4. \A o, x, y : Bin(o, x, y).kind = "bin" /\ Bin(o, x, y).op = o
                       /\ Bin(o, x, y).kids[1] = x /\ Bin(o, x, y).kids[2] = y
      BY DEF Bin
    <2>5. r[a] \in Int /\ r[b] \in Int
      BY <2>1
    <2>6. Sorted(n) => (n.op \in Commutative => a <= b)
      BY <1>2 DEF Sorted
    <2> HIDE DEF a, b, c
    <2>7. Sorted(c)
      <3>1. CASE n.op \in Commutative /\ r[b] < r[a]
        BY <2>3, <2>4, <2>5, <3>1 DEF Sorted
      <3>2. CASE ~(n.op \in Commutative /\ r[b] < r[a])
        BY <2>3, <2>4, <2>5, <3>2 DEF Sorted
      <3> QED BY <3>1, <3>2
    <2>8. OperandsOf(c) = {r[k] : k \in OperandsOf(n)}
      BY <2>1, <2>2, <2>3
    <2>9. Sorted(n) /\ (\A k \in OperandsOf(n) : r[k] = k) => c = n
      <3> SUFFICES ASSUME Sorted(n), r[a] = a, r[b] = b PROVE c = n
        BY <2>1
      <3> QED BY <2>1, <2>3, <2>5, <2>6
    <2> QED BY <2>7, <2>8, <2>9 DEF c
  <1>3. CASE n.kind \in {"const", "leaf"}
    BY <1>3, OperandsAre DEF CanonUnder, Sorted
  <1> QED BY <1>1, <1>2, <1>3, ENodeShape

\* What an e-node folds to depends on what is known of its operands.
LEMMA FoldDepends ==
  ASSUME NEW S, NEW n \in ENodes(S), NEW r, NEW k, NEW s, NEW l,
         \A x \in OperandsOf(n) : k[r[x]] = l[s[x]]
  PROVE  Fold(n, r, k) = Fold(n, s, l)
  BY OperandsAre, ENodeShape DEF Fold

\* A step that repairs nothing but p (nothing at all if p is 0): classes, constants, parents
\* and what is to be done only grow, and a class that changed waits for its parents' repair.
Advances(p) ==
  /\ Ids' = Ids /\ added' = added /\ cur' = cur
  /\ \A i \in Ids : nodes'[i] = IF i = p THEN Canon(nodes[p]) ELSE nodes[i]
  /\ rep' \in [Ids -> Ids]
  /\ \A i \in Ids : /\ rep'[rep[i]] = rep'[i]
                    /\ parents[rep[i]] \subseteq parents'[rep'[i]]
                    /\ konst[rep[i]] \subseteq konst'[rep'[i]]
  /\ pending \subseteq pending' /\ todo \ {p} \subseteq todo' /\ kept \subseteq kept'
  /\ todo \cup kept \subseteq todo' \cup kept'
  /\ \A k \in Ids : rep'[k] # rep[k] \/ konst'[rep'[k]] # konst[rep[k]] =>
                       \E d \in pending' : rep'[d] = rep'[k]

\* What the proofs below use of the structure.
LEMMA GraphTypes ==
  ASSUME Struct
  PROVE  /\ Len(nodes) \in Nat /\ Ids = 1..Len(nodes) /\ Ids \in SUBSET Int /\ 0 \notin Ids
         /\ rep \in [Ids -> Ids] /\ \A i \in Ids : rep[rep[i]] = rep[i]
         /\ parents \in [Ids -> SUBSET Ids] /\ konst \in [Ids -> SUBSET Values]
         /\ \A i \in Ids : nodes[i] \in ENodes(Ids) /\ added[i] \in ENodes(Ids) /\ Kids(i) \subseteq Ids
         /\ pending \subseteq Ids /\ todo \subseteq Ids /\ kept \subseteq Ids /\ cur \in {0} \cup Ids
         /\ DOMAIN memo \subseteq ENodes(Ids) /\ \A n \in DOMAIN memo : memo[n] \in Ids
         /\ asked \subseteq Ids \X Ids
  <1>1. Len(nodes) \in Nat /\ Ids = 1..Len(nodes)
    BY DEF Struct, TypeOK, Ids
  <1>2. \A i \in Ids : nodes[i] \in ENodes(Ids) /\ added[i] \in ENodes(Ids)
    BY <1>1 DEF Struct, TypeOK
  <1>3. \A i \in Ids : Kids(i) \subseteq Ids
    BY <1>2, OperandsAre DEF Kids
  <1> QED BY <1>1, <1>2, <1>3 DEF Struct, TypeOK, Roots

\* An operand after such a step is in the class an operand before it is in.
LEMMA OperandsStay ==
  ASSUME Struct, NEW p \in {0} \cup Ids, Advances(p), NEW i \in Ids, NEW k \in Kids(i)'
  PROVE  k \in Ids /\ \E j \in Kids(i) : rep'[k] = rep'[j] /\ (i # p => k = j) /\ (i = p => k = rep[j])
  <1>1. Ids \in SUBSET Int /\ (\A x \in Ids : rep[x] \in Ids) /\ nodes[i] \in ENodes(Ids) /\ Kids(i) \subseteq Ids
    BY GraphTypes
  <1>2. CASE i # p
    <2>1. nodes'[i] = nodes[i]
      BY <1>2 DEF Advances
    <2> QED BY <1>1, <1>2, <2>1 DEF Kids, OperandsOf
  <1>3. CASE i = p
    <2>1. nodes'[i] = CanonUnder(nodes[i], rep)
      BY <1>3 DEF Advances, Canon
    <2>2. OperandsOf(CanonUnder(nodes[i], rep)) = {rep[j] : j \in OperandsOf(nodes[i])}
      <3>1. \A x \in Ids : rep[x] \in Int
        BY <1>1
      <3> QED BY <1>1, <3>1, CanonIs
    <2>3. k \in OperandsOf(nodes'[i])
      BY DEF Kids, OperandsOf
    <2>4. PICK j \in Kids(i) : k = rep[j]
      BY <2>1, <2>2, <2>3 DEF Kids
    <2>5. rep'[rep[j]] = rep'[j] /\ j \in Ids
      BY <1>1, <2>4 DEF Advances
    <2> QED BY <1>1, <1>3, <2>4, <2>5
  <1> QED BY <1>2, <1>3

\* Classes go on knowing their parents.
LEMMA ParentsStay ==
  ASSUME Struct, NEW p \in {0} \cup Ids, Advances(p), Repairing, ParentsKnown
  PROVE  ParentsKnown'
  <1>1. SUFFICES ASSUME NEW i \in Ids, NEW k \in Kids(i)'
                 PROVE  \/ i \in parents'[rep'[k]]
                        \/ cur' # 0 /\ rep'[k] = rep'[cur'] /\ i \in todo' \cup kept'
    BY DEF ParentsKnown, Advances
  <1>2. PICK j \in Kids(i) : rep'[k] = rep'[j]
    BY OperandsStay
  <1>3. j \in Ids
    BY GraphTypes
  <1>4. CASE i \in parents[rep[j]]
    BY <1>2, <1>3, <1>4 DEF Advances
  <1>5. CASE cur # 0 /\ rep[j] = rep[cur] /\ i \in todo \cup kept
    <2>1. cur \in Ids
      BY <1>5, GraphTypes
    <2>2. rep'[j] = rep'[cur]
      BY <1>3, <1>5, <2>1 DEF Advances
    <2> QED BY <1>2, <1>5, <2>2 DEF Advances
  <1> QED BY <1>4, <1>5 DEF ParentsKnown

\* Who uses a class that waits for its parents' repair is to be repaired.
LEMMA TouchedDue ==
  ASSUME ParentsKnown', NEW i \in Ids', NEW k \in Kids(i)', NEW d \in pending', rep'[d] = rep'[k]
  PROVE  Due(i)'
  <1>1. CASE i \in parents'[rep'[k]]
    BY <1>1 DEF Due
  <1>2. CASE cur' # 0 /\ rep'[k] = rep'[cur'] /\ i \in todo' \cup kept'
    BY <1>2 DEF Due
  <1> QED BY <1>1, <1>2 DEF ParentsKnown

\* Who is to be repaired still is.
LEMMA DueStays ==
  ASSUME Struct, NEW p \in {0} \cup Ids, Advances(p), Repairing, NEW i \in Ids, i # p, Due(i)
  PROVE  Due(i)'
  <1>1. CASE i \in todo
    BY <1>1 DEF Advances, Due
  <1>2. CASE \E c \in pending : i \in parents[rep[c]]
    <2>1. PICK c \in pending : i \in parents[rep[c]]
      BY <1>2
    <2>2. c \in Ids /\ c \in pending'
      BY <2>1, GraphTypes DEF Advances
    <2>3. i \in parents'[rep'[c]]
      BY <2>1, <2>2 DEF Advances
    <2> QED BY <2>2, <2>3 DEF Due
  <1>3. CASE i \in kept /\ \E c \in pending : rep[c] = rep[cur]
    <2>1. PICK c \in pending : rep[c] = rep[cur]
      BY <1>3
    <2>2. c \in Ids /\ c \in pending' /\ i \in kept' /\ cur \in Ids /\ cur' = cur
      BY <1>3, <2>1, GraphTypes DEF Advances, Repairing
    <2>3. rep'[c] = rep'[cur]
      BY <2>1, <2>2 DEF Advances
    <2> QED BY <2>2, <2>3 DEF Due
  <1> QED BY <1>1, <1>2, <1>3 DEF Due

\* Whose operands' classes changed is to be repaired.
LEMMA UnchangedOperands ==
  ASSUME Struct, NEW p \in {0} \cup Ids, Advances(p), Repairing, ParentsKnown,
         NEW i \in Ids, ~Due(i)', NEW k \in Kids(i)'
  PROVE  k \in Ids /\ rep'[k] = rep[k] /\ konst'[rep'[k]] = konst[rep[k]]
  <1>1. ParentsKnown' /\ k \in Ids /\ i \in Ids'
    BY ParentsStay, OperandsStay DEF Advances
  <1>2. ~(\E d \in pending' : rep'[d] = rep'[k])
    BY <1>1, TouchedDue
  <1> QED BY <1>1, <1>2 DEF Advances

\* An e-node in order, its key kept, stays so.
LEMMA InOrderStays ==
  ASSUME Struct, NEW p \in {0} \cup Ids, Advances(p), Repairing, ParentsKnown,
         NEW i \in Ids, i # p, ~Due(i)', InOrder(i), KeyFound(i)'
  PROVE  InOrder(i)'
  <1>1. nodes'[i] = nodes[i] /\ nodes[i] \in ENodes(Ids) /\ Kids(i)' = Kids(i)
    BY GraphTypes DEF Advances, Kids, OperandsOf
  <1>2. \A k \in Kids(i) : rep'[k] = rep[k] /\ konst'[rep'[k]] = konst[rep[k]]
    BY <1>1, UnchangedOperands
  <1>3. \A k \in Kids(i)' : rep'[k] = k
    BY <1>1, <1>2 DEF InOrder
  <1>4. \A x \in OperandsOf(nodes[i]) : konst[rep[x]] = konst'[rep'[x]]
    BY <1>2 DEF Kids
  <1>5. Fold(nodes[i], rep, konst) = Fold(nodes[i], rep', konst')
    BY <1>1, <1>4, FoldDepends
  <1>6. Fold(nodes[i], rep', konst') \subseteq konst'[rep'[i]]
    BY <1>5 DEF InOrder, Advances
  <1>7. Fold(nodes'[i], rep', konst') \subseteq konst'[rep'[i]]
    BY <1>1, <1>6
  <1> QED BY <1>3, <1>7 DEF InOrder

\* Made canonical before or not, an e-node is up to the new classes what it was.
LEMMA FaithfulStays ==
  ASSUME Struct, KeptFaithful, NEW i \in Ids,
         nodes'[i] \in {nodes[i], Canon(nodes[i])}, added'[i] = added[i],
         \A x \in Ids : rep'[x] \in Int /\ rep'[rep[x]] = rep'[x]
  PROVE  CanonUnder(nodes'[i], rep') = CanonUnder(added'[i], rep') /\ Sorted(nodes'[i])
  <1>1. Ids \in SUBSET Int /\ nodes[i] \in ENodes(Ids) /\ added[i] \in ENodes(Ids) /\ \A x \in Ids : rep[x] \in Int
    BY GraphTypes
  <1>2. CanonUnder(nodes[i], rep) = CanonUnder(added[i], rep) /\ Sorted(nodes[i])
    BY DEF KeptFaithful, Canon
  <1>3. CanonUnder(CanonUnder(nodes[i], rep), rep') = CanonUnder(nodes[i], rep')
    BY <1>1, CanonTwice
  <1>4. CanonUnder(CanonUnder(added[i], rep), rep') = CanonUnder(added[i], rep')
    BY <1>1, CanonTwice
  <1>5. Sorted(CanonUnder(nodes[i], rep))
    BY <1>1, CanonIs
  <1>6. nodes'[i] = nodes[i] \/ nodes'[i] = CanonUnder(nodes[i], rep)
    BY DEF Canon
  <1> QED BY <1>2, <1>3, <1>4, <1>5, <1>6

\* Roots, constants and parents that only grew, and changed only in class c.
Grown(N, r, k, ps, r1, k1, p1, c) ==
  /\ c \in 1..N /\ r1[c] = c /\ r1 \in [1..N -> 1..N]
  /\ \A i \in 1..N : /\ r1[r[i]] = r1[i]
                     /\ ps[r[i]] \subseteq p1[r1[i]]
                     /\ k[r[i]] \subseteq k1[r1[i]]
                     /\ (r1[i] = r[i] /\ k1[r1[i]] = k[r[i]]) \/ r1[i] = c

\* A union loses no parent and no constant, and changes only what is in its class then.
LEMMA UnionGrows ==
  ASSUME NEW N \in Nat, NEW r, NEW k, NEW ps, Roots(r, N), Constants(k, r, N),
         ps \in [1..N -> SUBSET (1..N)], NEW a \in 1..N, NEW b \in 1..N, r[a] # r[b]
  PROVE  /\ RepAfter(a, b, r)[a] = RepAfter(a, b, r)[b]
         /\ Grown(N, r, k, ps, RepAfter(a, b, r), KonstAfter(a, b, r, k), ParentsAfter(a, b, r, ps),
                  Lower(a, b, r))
  <1> DEFINE lo == Lower(a, b, r)
             hi == Higher(a, b, r)
             r1 == [i \in 1..N |-> IF r[i] = hi THEN lo ELSE r[i]]
             k1 == [k EXCEPT ![lo] = k[lo] \cup k[hi], ![hi] = {}]
             p1 == [ps EXCEPT ![lo] = ps[lo] \cup ps[hi], ![hi] = {}]
  <1>1. /\ lo \in 1..N /\ hi \in 1..N /\ lo # hi /\ r[lo] = lo /\ r[hi] = hi
        /\ {lo, hi} = {r[a], r[b]}
    BY DEF Lower, Higher, Roots
  <1>2. /\ RepAfter(a, b, r) = r1
        /\ KonstAfter(a, b, r, k) = k1
        /\ ParentsAfter(a, b, r, ps) = p1
    BY DEF RepAfter, KonstAfter, ParentsAfter, Roots
  <1>3. \A i \in 1..N : r[i] \in 1..N /\ r[r[i]] = r[i]
    BY DEF Roots
  <1> HIDE DEF lo, hi
  <1>4. k1[lo] = k[lo] \cup k[hi] /\ \A c \in 1..N \ {lo, hi} : k1[c] = k[c]
    BY <1>1 DEF Constants
  <1>5. p1[lo] = ps[lo] \cup ps[hi] /\ \A c \in 1..N \ {lo, hi} : p1[c] = ps[c]
    BY <1>1
  <1>6. \A i \in 1..N : r1[i] = IF r[i] = hi THEN lo ELSE r[i]
    OBVIOUS
  <1>7. r1 \in [1..N -> 1..N]
    BY <1>1, <1>3
  <1> HIDE DEF r1, k1, p1
  <1>8. ASSUME NEW i \in 1..N
        PROVE  /\ r1[r[i]] = r1[i] /\ ps[r[i]] \subseteq p1[r1[i]] /\ k[r[i]] \subseteq k1[r1[i]]
               /\ (r1[i] = r[i] /\ k1[r1[i]] = k[r[i]]) \/ r1[i] = lo
    <2>1. r[i] \in 1..N /\ r[r[i]] = r[i] /\ r1[r[i]] = r1[i]
      BY <1>3, <1>6
    <2>2. CASE r[i] \in {lo, hi}
      BY <1>1, <1>4, <1>5, <1>6, <2>1, <2>2
    <2>3. CASE r[i] \notin {lo, hi}
      BY <1>1, <1>4, <1>5, <1>6, <2>1, <2>3
    <2> QED BY <2>2, <2>3
  <1>9. r1[a] = r1[b] /\ r1[lo] = lo
    BY <1>1, <1>6
  <1>10. Lower(a, b, r) = lo
    BY DEF lo
  <1>11. Grown(N, r, k, ps, r1, k1, p1, lo)
    BY <1>1, <1>7, <1>8, <1>9 DEF Grown
  <1> QED BY <1>2, <1>9, <1>10, <1>11

\* An abandoned search owes what it owed.
LEMMA AbandonOwing ==
  ASSUME Owing, Abandon, phase \in {"apply", "rebuild"}
  PROVE  Owing'
  <1>1. /\ UNCHANGED <<nodes, rep, parents, konst, memo, pending, todo, kept, cur, added>>
        /\ phase' = "contract"
    BY DEF Abandon
  <1>2. Repairing' /\ AskedUnited'
    BY <1>1 DEF Owing, Repairing, AskedUnited
  <1>3. ParentsKnown' /\ OtherwiseInOrder' /\ KeptFaithful' /\ KeysRight'
    BY <1>1 DEF Owing, ParentsKnown, OtherwiseInOrder, KeptFaithful, KeysRight, Due, InOrder,
                KeyFound, Kids, OperandsOf, Canon, Ids
  <1> QED BY <1>2, <1>3 DEF Owing

\* Uniting two classes changes no key; what it changes otherwise is to be repaired.
LEMMA UniteOwing ==
  ASSUME Struct, Owing, NEW a \in Ids, NEW b \in Ids, rep[a] # rep[b], UniteClasses(a, b),
         asked' = asked \cup {<<a, b>>}, phase = "apply"
  PROVE  Owing'
  <1> DEFINE N == Len(nodes)
  <1>1. /\ N \in Nat /\ Ids = 1..N /\ Roots(rep, N) /\ Constants(konst, rep, N)
        /\ parents \in [1..N -> SUBSET (1..N)]
    BY DEF Struct, TypeOK, Ids
  <1>2. CASE Conflict(a, b, rep, konst)
    <2>1. Abandon
      BY <1>2 DEF UniteClasses
    <2> QED BY <2>1, AbandonOwing
  <1>3. CASE ~Conflict(a, b, rep, konst)
    <2>1. /\ rep' = RepAfter(a, b, rep)
          /\ konst' = KonstAfter(a, b, rep, konst)
          /\ parents' = ParentsAfter(a, b, rep, parents)
          /\ pending' = pending \cup {Lower(a, b, rep)}
          /\ UNCHANGED <<nodes, imported, memo, todo, kept, cur, phase, added>>
      BY <1>3 DEF UniteClasses
    <2> HIDE DEF N
    <2>2. /\ rep'[a] = rep'[b] /\ rep'[Lower(a, b, rep)] = Lower(a, b, rep)
          /\ rep' \in [1..N -> 1..N]
          /\ \A i \in 1..N :
               /\ rep'[rep[i]] = rep'[i]
               /\ parents[rep[i]] \subseteq parents'[rep'[i]]
               /\ konst[rep[i]] \subseteq konst'[rep'[i]]
               /\ (rep'[i] = rep[i] /\ konst'[rep'[i]] = konst[rep[i]]) \/ rep'[i] = Lower(a, b, rep)
      <3>1. a \in 1..N /\ b \in 1..N
        BY <1>1
      <3>2. /\ RepAfter(a, b, rep)[a] = RepAfter(a, b, rep)[b]
            /\ Grown(N, rep, konst, parents, RepAfter(a, b, rep), KonstAfter(a, b, rep, konst),
                     ParentsAfter(a, b, rep, parents), Lower(a, b, rep))
        BY <1>1, <3>1, UnionGrows
      <3> QED BY <2>1, <3>2 DEF Grown
    <2>3. \A i \in Ids : i # 0
      BY GraphTypes
    <2>4. Ids' = Ids
      BY <2>1 DEF Ids
    <2>5. \A k \in Ids : rep'[k] # rep[k] \/ konst'[rep'[k]] # konst[rep[k]] => \E d \in pending' : rep'[d] = rep'[k]
      BY <1>1, <2>1, <2>2
    <2>6. Advances(0)
      BY <1>1, <2>1, <2>2, <2>3, <2>4, <2>5 DEF Advances
    <2>7. Repairing' /\ ParentsKnown'
      <3>1. Repairing'
        BY <2>1 DEF Owing, Repairing
      <3> QED BY <2>6, <3>1, ParentsStay DEF Owing
    <2>8. \A i \in Ids : KeyFound(i) => KeyFound(i)'
      <3> SUFFICES ASSUME NEW i \in Ids, KeyFound(i) PROVE KeyFound(i)'
        OBVIOUS
      <3>1. nodes[i] \in DOMAIN memo /\ rep[memo[nodes[i]]] = rep[i] /\ memo[nodes[i]] \in Ids
        BY GraphTypes DEF KeyFound
      <3>2. rep'[memo[nodes[i]]] = rep'[i]
        BY <1>1, <2>2, <3>1
      <3> QED BY <2>1, <3>1, <3>2 DEF KeyFound
    <2>9. OtherwiseInOrder'
      <3> SUFFICES ASSUME NEW i \in Ids, ~Due(i)' PROVE InOrder(i)'
        BY <2>4 DEF OtherwiseInOrder
      <3>1. i # 0 /\ Repairing /\ ParentsKnown
        BY <2>3 DEF Owing
      <3>2. ~Due(i)
        BY <2>6, <3>1, DueStays
      <3>3. InOrder(i)
        BY <3>2 DEF Owing, OtherwiseInOrder
      <3>4. KeyFound(i)'
        BY <2>8, <3>3 DEF InOrder
      <3> QED BY <2>6, <3>1, <3>3, <3>4, InOrderStays
    <2>10. KeptFaithful'
      <3>1. \A i \in Ids : nodes'[i] = nodes[i] /\ added'[i] = added[i]
        BY <2>1
      <3>2. \A x \in Ids : rep'[x] \in Int /\ rep'[rep[x]] = rep'[x]
        BY <1>1, <2>2
      <3>3. \A i \in Ids : CanonUnder(nodes'[i], rep') = CanonUnder(added'[i], rep') /\ Sorted(nodes'[i])
        BY <3>1, <3>2, FaithfulStays DEF Owing
      <3> QED BY <2>4, <3>3 DEF KeptFaithful, Canon, Sorted
    <2>11. KeysRight' /\ AskedUnited'
      <3>1. KeysRight'
        BY <2>1 DEF Owing, KeysRight
      <3>2. ASSUME NEW e \in asked PROVE rep'[e[1]] = rep'[e[2]]
        <4>1. e[1] \in Ids /\ e[2] \in Ids /\ rep[e[1]] = rep[e[2]]
          BY GraphTypes DEF Owing, AskedUnited
        <4>2. rep'[rep[e[1]]] = rep'[e[1]] /\ rep'[rep[e[2]]] = rep'[e[2]]
          BY <1>1, <2>2, <4>1
        <4> QED BY <4>1, <4>2
      <3>3. AskedUnited'
        BY <2>2, <3>2 DEF AskedUnited
      <3> QED BY <3>1, <3>3
    <2> QED BY <2>7, <2>9, <2>10, <2>11 DEF Owing
  <1> QED BY <1>2, <1>3

\* A repair, if it is not abandoned, in the names of its parts: q has p's new key n in the
\* hash-cons, rest, that was left without p's old one.
Repaired(p, n, rest, q) ==
  /\ n = Canon(nodes[p])
  /\ rest = IF nodes[p] \in DOMAIN memo /\ memo[nodes[p]] = p THEN Forget(memo, nodes[p]) ELSE memo
  /\ q = Twin(p, n, rest)
  /\ memo' = Recall(rest, n, q)
  /\ nodes' = [nodes EXCEPT ![p] = n]
  /\ Ids' = Ids /\ rep'[q] = rep'[p]

\* What a repair does is an advance; of the repaired e-node, what it folds to is known.
LEMMA RepairAdvances ==
  ASSUME Struct, NEW p \in todo, RepairParent(p), ~Abandon
  PROVE  /\ Advances(p)
         /\ \E n, rest, q : Repaired(p, n, rest, q)
         /\ \/ Fold(Canon(nodes[p]), rep', konst') \subseteq konst'[rep'[p]]
            \/ \E k \in OperandsOf(Canon(nodes[p])) : \E d \in pending' : rep'[d] = rep'[k]
         /\ UNCHANGED <<cur, phase, added>>
  <1> DEFINE N      == Len(nodes)
             old    == nodes[p]
             rest   == IF old \in DOMAIN memo /\ memo[old] = p THEN Forget(memo, old) ELSE memo
             n      == Canon(old)
             q      == Twin(p, n, rest)
             differ == rep[p] # rep[q]
             r1     == IF differ THEN RepAfter(p, q, rep) ELSE rep
             k1     == IF differ THEN KonstAfter(p, q, rep, konst) ELSE konst
             p1     == IF differ THEN ParentsAfter(p, q, rep, parents) ELSE parents
             new    == Folded(p, n, r1, k1)
             lo     == Lower(p, q, rep)
  <1>1. /\ nodes' = [nodes EXCEPT ![p] = n] /\ memo' = Recall(rest, n, q)
        /\ rep' = r1 /\ konst' = [k1 EXCEPT ![r1[p]] = k1[r1[p]] \cup new]
        /\ parents' = p1
        /\ pending' = pending \cup (IF differ THEN {lo} ELSE {}) \cup Requeue(r1[p], new)
        /\ todo' = todo \ {p} /\ kept' = kept \cup {p}
        /\ UNCHANGED <<imported, cur, phase, added>>
    BY DEF RepairParent
  <1>2. /\ N \in Nat /\ Ids = 1..N /\ Roots(rep, N) /\ Constants(konst, rep, N) /\ p \in 1..N
        /\ parents \in [1..N -> SUBSET (1..N)]
    BY DEF Struct, TypeOK, Ids
  <1>3. q \in 1..N
    <2>1. q = p \/ (n \in DOMAIN rest /\ q = rest[n])
      BY DEF Twin
    <2>2. DOMAIN rest \subseteq DOMAIN memo /\ \A x \in DOMAIN rest : rest[x] = memo[x]
      BY DEF Forget
    <2> HIDE DEF rest, q, n, N
    <2> QED BY <1>2, <2>1, <2>2, GraphTypes
  <1>4. Ids' = Ids /\ \A i \in Ids : nodes'[i] = IF i = p THEN n ELSE nodes[i]
    <2> HIDE DEF n
    <2> QED BY <1>1 DEF Ids
  <1> HIDE DEF old, rest, n, q, N
  <1>5. /\ r1[q] = r1[p] /\ r1 \in [1..N -> 1..N]
        /\ \A i \in 1..N :
             /\ r1[rep[i]] = r1[i]
             /\ parents[rep[i]] \subseteq p1[r1[i]] /\ konst[rep[i]] \subseteq k1[r1[i]]
             /\ (r1[i] = rep[i] /\ k1[r1[i]] = konst[rep[i]]) \/ (differ /\ r1[lo] = r1[i])
    <2>1. CASE differ
      <3>1. /\ RepAfter(p, q, rep)[p] = RepAfter(p, q, rep)[q]
            /\ Grown(N, rep, konst, parents, RepAfter(p, q, rep), KonstAfter(p, q, rep, konst),
                     ParentsAfter(p, q, rep, parents), lo)
        BY <1>2, <1>3, <2>1, UnionGrows
      <3> QED BY <2>1, <3>1 DEF Grown
    <2>2. CASE ~differ
      BY <1>2, <1>3, <2>2 DEF Roots
    <2> QED BY <2>1, <2>2
  <1>6. k1 \in [1..N -> SUBSET Values]
    <2>1. konst \in [1..N -> SUBSET Values]
      BY <1>2 DEF Constants
    <2>2. lo \in 1..N /\ Higher(p, q, rep) \in 1..N
      BY <1>2, <1>3 DEF Lower, Higher, Roots
    <2>3. KonstAfter(p, q, rep, konst) \in [1..N -> SUBSET Values]
      BY <2>1, <2>2 DEF KonstAfter
    <2> QED BY <2>1, <2>3
  <1>7. r1[r1[p]] = r1[p] /\ r1[p] \in 1..N
    <2>1. CASE differ
      <3>1. Grown(N, rep, konst, parents, RepAfter(p, q, rep), KonstAfter(p, q, rep, konst),
                  ParentsAfter(p, q, rep, parents), lo)
        BY <1>2, <1>3, <2>1, UnionGrows
      <3>2. r1[rep[p]] = r1[p] /\ (r1[p] = rep[p] \/ (r1[p] = lo /\ r1[lo] = lo))
        BY <1>2, <2>1, <3>1 DEF Grown
      <3> QED BY <1>2, <1>5, <3>2
    <2>2. CASE ~differ
      BY <1>2, <2>2 DEF Roots
    <2> QED BY <2>1, <2>2
  <1> HIDE DEF differ, r1, k1, p1, lo
  <1>8. \A c \in 1..N : konst'[c] = IF c = r1[p] THEN k1[c] \cup new ELSE k1[c]
    BY <1>1, <1>6, <1>7
  <1>9. new # {} => r1[p] \in pending'
    BY <1>1 DEF Requeue
  <1>10. new = Fold(n, r1, k1) \ k1[r1[p]]
    BY DEF Folded
  <1> HIDE DEF new
  <1>11. \A k \in Ids : rep'[k] # rep[k] \/ konst'[rep'[k]] # konst[rep[k]] => \E d \in pending' : rep'[d] = rep'[k]
    <2> SUFFICES ASSUME NEW k \in 1..N, r1[k] # rep[k] \/ konst'[r1[k]] # konst[rep[k]]
                 PROVE  \E d \in pending' : r1[d] = r1[k]
      BY <1>1, <1>2
    <2>1. CASE r1[k] = rep[k] /\ k1[r1[k]] = konst[rep[k]]
      <3>1. r1[k] = r1[p] /\ new # {}
        BY <1>5, <1>8, <2>1
      <3> QED BY <1>7, <1>9, <3>1
    <2>2. CASE differ /\ r1[lo] = r1[k]
      BY <1>1, <2>2
    <2> QED BY <1>5, <2>1, <2>2
  <1>12. Advances(p)
    <2>1. todo \cup kept \subseteq todo' \cup kept' /\ todo \ {p} \subseteq todo' /\ kept \subseteq kept' /\ pending \subseteq pending'
      BY <1>1
    <2>2. \A i \in Ids : konst[rep[i]] \subseteq konst'[rep'[i]]
      BY <1>1, <1>2, <1>5, <1>8
    <2>3. \A i \in Ids : rep'[rep[i]] = rep'[i] /\ parents[rep[i]] \subseteq parents'[rep'[i]]
      BY <1>1, <1>2, <1>5
    <2>4. rep' \in [Ids -> Ids]
      BY <1>1, <1>2, <1>5
    <2>5. n = Canon(nodes[p])
      BY DEF n, old
    <2> QED BY <1>1, <1>4, <1>11, <2>1, <2>2, <2>3, <2>4, <2>5 DEF Advances
  <1>13. Repaired(p, n, rest, q)
    <2>1. rep'[q] = rep'[p]
      BY <1>1, <1>5
    <2>2. n = Canon(nodes[p]) /\ q = Twin(p, n, rest)
          /\ rest = IF nodes[p] \in DOMAIN memo /\ memo[nodes[p]] = p THEN Forget(memo, nodes[p]) ELSE memo
      BY DEF n, rest, q, old
    <2> QED BY <1>1, <1>4, <2>1, <2>2 DEF Repaired
  <1>14. \/ Fold(n, rep', konst') \subseteq konst'[rep'[p]]
         \/ \E k \in OperandsOf(n) : \E d \in pending' : rep'[d] = rep'[k]
    <2>1. OperandsOf(n) \subseteq 1..N /\ n \in ENodes(1..N)
      <3>1. nodes[p] \in ENodes(1..N) /\ \A x \in 1..N : rep[x] \in 1..N
        BY <1>2, GraphTypes
      <3>2. n \in ENodes(1..N)
        BY <3>1, CanonShape DEF Canon, n, old
      <3> QED BY <3>2, OperandsAre
    <2>2. CASE \E k \in OperandsOf(n) : r1[k] = r1[p] /\ new # {}
      BY <1>1, <1>7, <1>9, <2>2
    <2>3. CASE ~\E k \in OperandsOf(n) : r1[k] = r1[p] /\ new # {}
      <3>1. \A x \in OperandsOf(n) : k1[r1[x]] = konst'[r1[x]]
        <4> SUFFICES ASSUME NEW x \in OperandsOf(n) PROVE k1[r1[x]] = konst'[r1[x]]
          OBVIOUS
        <4>1. r1[x] \in 1..N
          BY <1>5, <2>1
        <4>2. r1[x] = r1[p] => new = {}
          BY <2>3
        <4> QED BY <1>8, <4>1, <4>2
      <3>2. Fold(n, r1, k1) = Fold(n, r1, konst')
        BY <2>1, <3>1, FoldDepends
      <3>3. konst'[r1[p]] = k1[r1[p]] \cup new
        BY <1>7, <1>8
      <3> QED BY <1>1, <1>10, <3>2, <3>3
    <2> QED BY <2>2, <2>3
  <1>15. n = Canon(nodes[p])
    BY DEF n, old
  <1> QED BY <1>1, <1>12, <1>13, <1>14, <1>15

\* The hash-cons after a repair.
LEMMA RepairedMemo ==
  ASSUME Struct, NEW p \in Ids, NEW n, NEW rest, NEW q, Repaired(p, n, rest, q)
  PROVE  /\ q \in Ids /\ n \in DOMAIN memo' /\ memo'[n] = q /\ nodes'[p] = n
         /\ \A x : x \in DOMAIN rest <=> x \in DOMAIN memo /\ ~(x = nodes[p] /\ memo[x] = p)
         /\ \A x \in DOMAIN rest : rest[x] = memo[x]
         /\ n \in DOMAIN rest => q = rest[n]
         /\ n \notin DOMAIN rest => q = p
         /\ \A x : x \in DOMAIN memo' <=> x \in DOMAIN rest \/ x = n
         /\ \A x \in DOMAIN memo' : x # n => memo'[x] = rest[x]
         /\ \A i \in Ids : i # p => nodes'[i] = nodes[i]
  <1> USE DEF Repaired
  <1>1. /\ \A x : x \in DOMAIN rest <=> x \in DOMAIN memo /\ ~(x = nodes[p] /\ memo[x] = p)
        /\ \A x \in DOMAIN rest : rest[x] = memo[x]
    BY DEF Forget
  <1>2. (n \in DOMAIN rest => q = rest[n]) /\ (n \notin DOMAIN rest => q = p)
    BY DEF Twin
  <1>3. q \in Ids
    BY <1>1, <1>2, GraphTypes
  <1>4. /\ n \in DOMAIN memo' /\ memo'[n] = q
        /\ \A x : x \in DOMAIN memo' <=> x \in DOMAIN rest \/ x = n
        /\ \A x \in DOMAIN memo' : x # n => memo'[x] = rest[x]
    <2>1. memo' = Recall(rest, n, q)
      OBVIOUS
    <2> QED BY <2>1 DEF Recall
  <1>5. nodes'[p] = n /\ \A i \in Ids : i # p => nodes'[i] = nodes[i]
    <2>1. nodes' = [nodes EXCEPT ![p] = n]
      OBVIOUS
    <2> QED BY <2>1 DEF Ids
  <1> QED BY <1>1, <1>2, <1>3, <1>4, <1>5

\* A repair forgets no key but the e-node's own, and that only if it is no canonical one.
LEMMA RepairKeepsKeys ==
  ASSUME Struct, KeptFaithful, NEW p \in Ids, Advances(p),
         NEW n, NEW rest, NEW q, Repaired(p, n, rest, q),
         NEW j \in Ids, j # p, InOrder(j)
  PROVE  KeyFound(j)'
  <1> DEFINE key == nodes[j]
  <1>1. /\ q \in Ids /\ n \in DOMAIN memo' /\ memo'[n] = q /\ nodes'[j] = key
        /\ \A x : x \in DOMAIN rest <=> x \in DOMAIN memo /\ ~(x = nodes[p] /\ memo[x] = p)
        /\ \A x \in DOMAIN rest : rest[x] = memo[x]
        /\ n \in DOMAIN rest => q = rest[n]
        /\ n \notin DOMAIN rest => q = p
        /\ \A x : x \in DOMAIN memo' <=> x \in DOMAIN rest \/ x = n
        /\ \A x \in DOMAIN memo' : x # n => memo'[x] = rest[x]
    BY RepairedMemo
  <1>2. key \in DOMAIN memo /\ memo[key] \in Ids /\ rep[memo[key]] = rep[j]
    BY GraphTypes DEF InOrder, KeyFound
  <1>3. \A x \in Ids : rep[x] = rep[j] => rep'[x] = rep'[j]
    <2>1. \A x \in Ids : rep'[rep[x]] = rep'[x]
      BY DEF Advances
    <2> QED BY <2>1
  <1>4. rep'[q] = rep'[p]
    BY DEF Repaired
  <1>5. key = nodes[p] /\ memo[key] = p => key = n
    <2>1. nodes[j] \in ENodes(Ids) /\ Ids \in SUBSET Int /\ \A x \in Ids : rep[x] \in Int
      BY GraphTypes
    <2>2. Sorted(nodes[j]) /\ \A k \in OperandsOf(nodes[j]) : rep[k] = k
      BY DEF KeptFaithful, InOrder, Kids
    <2>3. CanonUnder(nodes[j], rep) = nodes[j]
      BY <2>1, <2>2, CanonIs
    <2>4. n = CanonUnder(nodes[p], rep)
      BY DEF Repaired, Canon
    <2> QED BY <2>3, <2>4
  <1> SUFFICES key \in DOMAIN memo' /\ rep'[memo'[key]] = rep'[j]
    BY <1>1 DEF KeyFound
  <1> HIDE DEF key
  <1>6. CASE key = n /\ key \in DOMAIN rest
    <2>1. memo'[key] = memo[key] /\ key \in DOMAIN memo'
      BY <1>1, <1>6
    <2> QED BY <1>2, <1>3, <2>1
  <1>7. CASE key = n /\ key \notin DOMAIN rest
    <2>1. memo[key] = p /\ memo'[key] = p /\ key \in DOMAIN memo'
      BY <1>1, <1>2, <1>7
    <2> QED BY <1>2, <1>3, <2>1
  <1>8. CASE key # n
    <2>1. key \in DOMAIN rest
      BY <1>1, <1>2, <1>5, <1>8
    <2>2. memo'[key] = memo[key] /\ key \in DOMAIN memo'
      BY <1>1, <1>8, <2>1
    <2> QED BY <1>2, <1>3, <2>2
  <1> QED BY <1>6, <1>7, <1>8

\* A repair leaves nothing else owed than it puts on the worklist.
LEMMA RepairOwing ==
  ASSUME Struct, Owing, NEW p \in todo, RepairParent(p), phase = "rebuild", asked' = asked
  PROVE  Owing'
  <1>1. CASE Abandon
    BY <1>1, AbandonOwing
  <1>2. CASE ~Abandon
    <2>1. /\ Advances(p) /\ p \in Ids
          /\ \/ Fold(Canon(nodes[p]), rep', konst') \subseteq konst'[rep'[p]]
             \/ \E k \in OperandsOf(Canon(nodes[p])) : \E d \in pending' : rep'[d] = rep'[k]
          /\ UNCHANGED <<cur, phase, added>>
      BY <1>2, RepairAdvances, GraphTypes
    <2>2. PICK n, rest, q : Repaired(p, n, rest, q)
      BY <1>2, RepairAdvances
    <2>3. Ids' = Ids /\ n = Canon(nodes[p]) /\ rep'[q] = rep'[p]
      BY <2>2 DEF Repaired
    <2>4. /\ n \in DOMAIN memo' /\ memo'[n] = q /\ nodes'[p] = n /\ q \in Ids
          /\ \A x : x \in DOMAIN rest <=> x \in DOMAIN memo /\ ~(x = nodes[p] /\ memo[x] = p)
          /\ \A x \in DOMAIN rest : rest[x] = memo[x]
          /\ n \in DOMAIN rest => q = rest[n]
          /\ n \notin DOMAIN rest => q = p
          /\ \A x : x \in DOMAIN memo' <=> x \in DOMAIN rest \/ x = n
          /\ \A x \in DOMAIN memo' : x # n => memo'[x] = rest[x]
          /\ \A i \in Ids : i # p => nodes'[i] = nodes[i]
      BY <2>1, <2>2, RepairedMemo
    <2>5. Repairing /\ ParentsKnown /\ OtherwiseInOrder /\ KeptFaithful /\ KeysRight /\ AskedUnited
      BY DEF Owing
    <2>6. Repairing' /\ ParentsKnown'
      <3>1. Repairing'
        BY <2>1, <2>5 DEF Repairing
      <3> QED BY <2>1, <2>5, <3>1, ParentsStay
    <2>7. ASSUME NEW i \in Ids, ~Due(i)' PROVE InOrder(i)'
      <3>1. CASE i = p
        <4>1. Kids(p)' = OperandsOf(n)
          BY <2>4 DEF Kids, OperandsOf
        <4>2. \A k \in OperandsOf(n) : rep'[k] = k
          <5> SUFFICES ASSUME NEW k \in OperandsOf(n) PROVE rep'[k] = k
            OBVIOUS
          <5>1. k \in Kids(p)' /\ ~Due(p)'
            BY <2>7, <3>1, <4>1
          <5>2. rep'[k] = rep[k]
            BY <2>1, <2>5, <5>1, UnchangedOperands
          <5>3. \E x \in Kids(p) : k = rep[x]
            BY <2>1, <5>1, OperandsStay
          <5>4. rep[k] = k
            BY <2>1, <5>3, GraphTypes
          <5> QED BY <5>2, <5>4
        <4>3. KeyFound(p)'
          BY <2>3, <2>4 DEF KeyFound
        <4>4. Fold(n, rep', konst') \subseteq konst'[rep'[p]]
          <5>1. ASSUME NEW k \in OperandsOf(n), NEW d \in pending', rep'[d] = rep'[k] PROVE FALSE
            BY <2>1, <2>3, <2>6, <2>7, <3>1, <4>1, <5>1, TouchedDue
          <5> QED BY <2>1, <2>3, <5>1
        <4>5. \A k \in Kids(p)' : rep'[k] = k
          BY <4>1, <4>2
        <4>6. Fold(nodes'[p], rep', konst') \subseteq konst'[rep'[p]]
          BY <2>4, <4>4
        <4>7. InOrder(p)'
          BY <4>3, <4>5, <4>6 DEF InOrder
        <4> QED BY <3>1, <4>7
      <3>2. CASE i # p
        <4>1. ~Due(i)
          BY <2>1, <2>5, <2>7, <3>2, DueStays
        <4>2. InOrder(i)
          BY <2>5, <4>1 DEF OtherwiseInOrder
        <4>3. KeyFound(i)'
          BY <2>1, <2>2, <2>5, <3>2, <4>2, RepairKeepsKeys
        <4> QED BY <2>1, <2>5, <2>7, <3>2, <4>2, <4>3, InOrderStays
      <3> QED BY <3>1, <3>2
    <2>8. OtherwiseInOrder'
      BY <2>3, <2>7 DEF OtherwiseInOrder
    <2>9. KeptFaithful'
      <3>1. \A i \in Ids : nodes'[i] \in {nodes[i], Canon(nodes[i])} /\ added'[i] = added[i]
        BY <2>1, <2>3, <2>4
      <3>2. \A x \in Ids : rep'[x] \in Int /\ rep'[rep[x]] = rep'[x]
        BY <2>1, GraphTypes DEF Advances
      <3>3. \A i \in Ids : CanonUnder(nodes'[i], rep') = CanonUnder(added'[i], rep') /\ Sorted(nodes'[i])
        BY <2>5, <3>1, <3>2, FaithfulStays
      <3> QED BY <2>3, <3>3 DEF KeptFaithful, Canon, Sorted
    <2>10. KeysRight'
      <3> SUFFICES ASSUME NEW x \in DOMAIN memo' PROVE nodes'[memo'[x]] = x
        BY DEF KeysRight
      <3>1. CASE x = n
        <4>1. q # p => n \in DOMAIN memo /\ memo[n] = q
          BY <2>4
        <4>2. q # p => nodes'[q] = n
          BY <2>4, <2>5, <4>1 DEF KeysRight
        <4> QED BY <2>4, <3>1, <4>2
      <3>2. CASE x # n
        <4>1. x \in DOMAIN rest /\ x \in DOMAIN memo /\ memo'[x] = memo[x] /\ ~(x = nodes[p] /\ memo[x] = p)
          BY <2>4, <3>2
        <4>2. nodes[memo[x]] = x /\ memo[x] \in Ids
          BY <2>5, <4>1, GraphTypes DEF KeysRight
        <4>3. memo[x] # p
          BY <4>1, <4>2
        <4> QED BY <2>4, <4>1, <4>2, <4>3
      <3> QED BY <3>1, <3>2
    <2>11. AskedUnited'
      <3>1. phase' # "contract" /\ phase # "contract"
        BY <2>1
      <3>2. ASSUME NEW e \in asked PROVE rep'[e[1]] = rep'[e[2]]
        <4>1. e[1] \in Ids /\ e[2] \in Ids /\ rep[e[1]] = rep[e[2]]
          BY <2>5, <3>1, GraphTypes DEF AskedUnited
        <4>2. rep'[rep[e[1]]] = rep'[e[1]] /\ rep'[rep[e[2]]] = rep'[e[2]]
          BY <2>1, <4>1 DEF Advances
        <4> QED BY <4>1, <4>2
      <3> QED BY <3>2 DEF AskedUnited
    <2> QED BY <2>6, <2>8, <2>9, <2>10, <2>11 DEF Owing
  <1> QED BY <1>1, <1>2

\* A new e-node is in order, and leaves the others so.
LEMMA AddOwing ==
  ASSUME Struct, Owing, NEW e \in ENodes(Ids), NEW imp \in BOOLEAN, Add(e, imp),
         phase' = phase, phase \in {"import", "apply"}
  PROVE  Owing'
  <1> DEFINE N == Len(nodes)
             n == Canon(e)
  <1> PICK id : id = Len(nodes) + 1
    OBVIOUS
  <1>1. /\ N \in Nat /\ Ids = 1..N /\ Ids' = 1..(N + 1)
        /\ \A i \in Ids : /\ nodes'[i] = nodes[i] /\ added'[i] = added[i] /\ rep'[i] = rep[i]
                          /\ konst'[i] = konst[i]
        /\ nodes'[id] = n /\ added'[id] = e /\ rep'[id] = id /\ konst'[id] = Fold(n, rep, konst)
    BY AddStruct DEF Struct, TypeOK, Ids
  <1>2. /\ n \notin DOMAIN memo /\ memo' = Recall(memo, n, id)
        /\ UNCHANGED <<pending, todo, kept, cur, asked>>
    BY DEF Add
  <1>3. /\ Ids \in SUBSET Int /\ (\A x \in Ids : rep[x] \in Ids /\ rep[rep[x]] = rep[x])
        /\ \A i \in Ids : nodes[i] \in ENodes(Ids) /\ Kids(i) \subseteq Ids
        /\ pending \subseteq Ids /\ DOMAIN memo \subseteq ENodes(Ids) /\ \A x \in DOMAIN memo : memo[x] \in Ids
        /\ asked \subseteq Ids \X Ids
    BY GraphTypes
  <1>4. cur = 0 /\ todo = {} /\ kept = {}
    BY DEF Owing, Repairing
  <1>5. n \in ENodes(Ids) /\ OperandsOf(n) = {rep[k] : k \in OperandsOf(e)} /\ OperandsOf(e) \subseteq Ids
        /\ OperandsOf(n) \subseteq Ids /\ (\A k \in OperandsOf(n) : rep[k] = k) /\ Sorted(n)
    <2>1. n = CanonUnder(e, rep) /\ \A x \in Ids : rep[x] \in Int
      BY <1>3 DEF Canon
    <2>2. n \in ENodes(Ids)
      <3>1. \A x \in Ids : rep[x] \in Ids
        BY <1>3
      <3>2. CanonUnder(e, rep) \in ENodes(Ids)
        BY <3>1, CanonShape
      <3> QED BY <2>1, <3>2
    <2>3. OperandsOf(n) = {rep[k] : k \in OperandsOf(e)} /\ Sorted(n)
      BY <1>3, <2>1, CanonIs
    <2>4. OperandsOf(e) \subseteq Ids
      BY OperandsAre
    <2> QED BY <1>3, <2>2, <2>3, <2>4
  <1>6. /\ \A c \in Ids : parents[c] \subseteq parents'[c]
        /\ \A c \in OperandsOf(n) : id \in parents'[c]
    <2> DEFINE P == [c \in Ids |-> IF \E i \in DOMAIN n.kids : n.kids[i] = c
                                   THEN parents[c] \cup {id} ELSE parents[c]]
    <2>1. parents' = Append(P, {})
      BY DEF Add
    <2>2. /\ parents \in [1..N -> SUBSET (1..N)] /\ N + 1 \in 1..(N + 1) /\ 1..N \subseteq 1..(N + 1)
          /\ id = N + 1
      BY <1>1 DEF Struct, TypeOK
    <2> HIDE DEF N, n
    <2>3. P \in [1..N -> SUBSET (1..(N + 1))]
      BY <1>1, <2>2
    <2>4. \A c \in Ids : P[c] = IF c \in OperandsOf(n) THEN parents[c] \cup {id} ELSE parents[c]
      BY DEF OperandsOf
    <2> HIDE DEF P
    <2>5. \A c \in 1..N : parents'[c] = P[c]
      <3>1. {} \in SUBSET (1..(N + 1))
        OBVIOUS
      <3> QED BY <1>1, <2>1, <2>3, <3>1, Extended
    <2>6. ASSUME NEW c \in Ids
          PROVE  parents'[c] = IF c \in OperandsOf(n) THEN parents[c] \cup {id} ELSE parents[c]
      BY <1>1, <2>4, <2>5
    <2> QED BY <1>5, <2>6
  <1>7. id \notin Ids /\ \A i \in Ids' : i \in Ids \/ i = id
    BY <1>1
  <1>8. /\ n \in DOMAIN memo' /\ memo'[n] = id
        /\ \A x \in DOMAIN memo : x \in DOMAIN memo' /\ memo'[x] = memo[x]
        /\ \A x \in DOMAIN memo' : x = n \/ x \in DOMAIN memo
    <2> HIDE DEF n
    <2> QED BY <1>2 DEF Recall
  <1>9. /\ \A i \in Ids : Kids(i)' = Kids(i)
        /\ Kids(id)' = OperandsOf(n)
    <2> HIDE DEF n
    <2> QED BY <1>1 DEF Kids, OperandsOf
  <1> HIDE DEF n
  <1>10. Repairing'
    BY <1>2, <1>4 DEF Repairing
  <1>11. ParentsKnown'
    <2> SUFFICES ASSUME NEW i \in Ids', NEW k \in Kids(i)' PROVE i \in parents'[rep'[k]]
      BY DEF ParentsKnown
    <2>1. CASE i \in Ids
      <3>1. k \in Kids(i) /\ k \in Ids /\ rep'[k] = rep[k] /\ rep[k] \in Ids
        BY <1>1, <1>3, <1>9, <2>1
      <3>2. i \in parents[rep[k]]
        BY <1>4, <2>1, <3>1 DEF Owing, ParentsKnown
      <3> QED BY <1>6, <3>1, <3>2
    <2>2. CASE i = id
      <3>1. k \in OperandsOf(n) /\ rep'[k] = k
        BY <1>1, <1>5, <1>9, <2>2
      <3> QED BY <1>6, <2>2, <3>1
    <2> QED BY <1>7, <2>1, <2>2
  <1>12. OtherwiseInOrder'
    <2> SUFFICES ASSUME NEW i \in Ids', ~Due(i)' PROVE InOrder(i)'
      BY DEF OtherwiseInOrder
    <2>1. CASE i \in Ids
      <3>1. ~Due(i)
        <4> SUFFICES ASSUME NEW c \in pending, i \in parents[rep[c]] PROVE FALSE
          BY <1>4 DEF Due
        <4>1. c \in pending' /\ rep'[c] = rep[c] /\ rep[c] \in Ids
          BY <1>1, <1>2, <1>3
        <4> QED BY <1>6, <4>1 DEF Due
      <3>2. InOrder(i)
        BY <2>1, <3>1 DEF Owing, OtherwiseInOrder
      <3>3. \A k \in Kids(i)' : rep'[k] = k
        BY <1>1, <1>3, <1>9, <2>1, <3>2 DEF InOrder
      <3>4. KeyFound(i)'
        <4>1. nodes[i] \in DOMAIN memo /\ rep[memo[nodes[i]]] = rep[i] /\ memo[nodes[i]] \in Ids
          BY <1>3, <3>2 DEF InOrder, KeyFound
        <4> QED BY <1>1, <1>8, <2>1, <4>1 DEF KeyFound
      <3>5. Fold(nodes'[i], rep', konst') \subseteq konst'[rep'[i]]
        <4>1. \A x \in OperandsOf(nodes[i]) : konst[rep[x]] = konst'[rep'[x]]
          BY <1>1, <1>3, <2>1 DEF Kids
        <4>2. Fold(nodes[i], rep, konst) = Fold(nodes[i], rep', konst')
          <5>1. nodes[i] \in ENodes(Ids)
            BY <1>3, <2>1
          <5> QED BY <4>1, <5>1, FoldDepends
        <4>3. Fold(nodes[i], rep, konst) \subseteq konst[rep[i]]
          BY <3>2 DEF InOrder
        <4>4. konst'[rep'[i]] = konst[rep[i]] /\ nodes'[i] = nodes[i]
          BY <1>1, <1>3, <2>1
        <4> QED BY <4>2, <4>3, <4>4
      <3> QED BY <3>3, <3>4, <3>5 DEF InOrder
    <2>2. CASE i = id
      <3>1. \A k \in Kids(id)' : rep'[k] = k
        BY <1>1, <1>5, <1>9
      <3>2. KeyFound(id)'
        BY <1>1, <1>8 DEF KeyFound
      <3>3. Fold(nodes'[id], rep', konst') \subseteq konst'[rep'[id]]
        <4>1. \A x \in OperandsOf(n) : konst[rep[x]] = konst'[rep'[x]]
          BY <1>1, <1>3, <1>5
        <4>2. Fold(n, rep, konst) = Fold(n, rep', konst')
          BY <1>5, <4>1, FoldDepends
        <4> QED BY <1>1, <4>2
      <3>4. InOrder(id)'
        BY <3>1, <3>2, <3>3 DEF InOrder
      <3> QED BY <2>2, <3>4
    <2> QED BY <1>7, <2>1, <2>2
  <1>13. KeptFaithful'
    <2>1. \A x \in Ids : rep'[x] \in Int /\ rep'[rep[x]] = rep'[x]
      BY <1>1, <1>3
    <2>2. \A i \in Ids : CanonUnder(nodes'[i], rep') = CanonUnder(added'[i], rep') /\ Sorted(nodes'[i])
      <3> SUFFICES ASSUME NEW i \in Ids PROVE CanonUnder(nodes'[i], rep') = CanonUnder(added'[i], rep') /\ Sorted(nodes'[i])
        OBVIOUS
      <3>1. nodes'[i] \in {nodes[i], Canon(nodes[i])} /\ added'[i] = added[i]
        BY <1>1
      <3> QED BY <2>1, <3>1, FaithfulStays DEF Owing
    <2>3. CanonUnder(CanonUnder(e, rep), rep') = CanonUnder(e, rep')
      BY <1>3, <2>1, CanonTwice
    <2>4. CanonUnder(nodes'[id], rep') = CanonUnder(added'[id], rep') /\ Sorted(nodes'[id])
      BY <1>1, <1>5, <2>3 DEF n, Canon
    <2>5. \A i \in Ids' : CanonUnder(nodes'[i], rep') = CanonUnder(added'[i], rep') /\ Sorted(nodes'[i])
      BY <1>7, <2>2, <2>4
    <2> QED BY <2>5 DEF KeptFaithful, Canon, Sorted
  <1>14. KeysRight'
    <2>1. \A x \in DOMAIN memo : nodes'[memo[x]] = x
      BY <1>1, <1>3 DEF Owing, KeysRight
    <2> QED BY <1>1, <1>8, <2>1 DEF KeysRight
  <1>15. AskedUnited'
    <2>1. \A x \in asked : rep[x[1]] = rep[x[2]] /\ x[1] \in Ids /\ x[2] \in Ids
      BY <1>3 DEF Owing, AskedUnited
    <2> QED BY <1>1, <1>2, <2>1 DEF AskedUnited
  <1> QED BY <1>10, <1>11, <1>12, <1>13, <1>14, <1>15 DEF Owing

\* A class taken off the worklist: its parents are to be repaired now.
LEMMA TakeClassOwing == Struct /\ Owing /\ TakeClass => Owing'
  <1> SUFFICES ASSUME Struct, Owing, TakeClass PROVE Owing'
    OBVIOUS
  <1>1. PICK c \in pending :
          /\ pending' = pending \ {c}
          /\ cur' = rep[c]
          /\ todo' = parents[rep[c]]
          /\ parents' = [parents EXCEPT ![rep[c]] = {}]
    BY DEF TakeClass
  <1>2. /\ kept' = {} /\ UNCHANGED <<nodes, rep, konst, memo, phase, added, asked>>
        /\ phase = "rebuild" /\ Ids' = Ids /\ todo = {} /\ kept = {} /\ cur = 0
    BY DEF TakeClass, Ids, Owing, Repairing
  <1>3. /\ rep[c] \in Ids /\ rep[rep[c]] = rep[c] /\ 0 \notin Ids
        /\ \A x \in Ids : rep[x] \in Ids
        /\ parents \in [Ids -> SUBSET Ids] /\ pending \subseteq Ids
        /\ \A i \in Ids : Kids(i) \subseteq Ids
    <2>1. c \in Ids
      BY GraphTypes
    <2> QED BY <2>1, GraphTypes
  <1>4. \A d \in Ids : d # rep[c] => parents'[d] = parents[d]
    BY <1>1, <1>3
  <1>5. ParentsKnown'
    <2>1. ASSUME NEW i \in Ids, NEW k \in Kids(i)
          PROVE  i \in parents'[rep[k]] \/ (rep[c] # 0 /\ rep[k] = rep[rep[c]] /\ i \in parents[rep[c]])
      BY <1>2, <1>3, <1>4 DEF Owing, ParentsKnown
    <2>2. \A i \in Ids : Kids(i)' = Kids(i)
      BY <1>2 DEF Kids, OperandsOf
    <2>3. todo' \cup kept' = parents[rep[c]]
      BY <1>1, <1>2
    <2> QED BY <1>1, <1>2, <2>1, <2>2, <2>3 DEF ParentsKnown
  <1>6. \A i \in Ids : Due(i) => Due(i)'
    <2> SUFFICES ASSUME NEW i \in Ids, NEW d \in pending, i \in parents[rep[d]] PROVE Due(i)'
      BY <1>2 DEF Due
    <2>1. CASE rep[d] = rep[c]
      BY <1>1, <2>1 DEF Due
    <2>2. CASE rep[d] # rep[c]
      <3>1. d \in pending' /\ i \in parents'[rep'[d]]
        BY <1>1, <1>2, <1>3, <1>4, <2>2
      <3> QED BY <3>1 DEF Due
    <2> QED BY <2>1, <2>2
  <1>7. \A i \in Ids : InOrder(i)' = InOrder(i)
    BY <1>2 DEF InOrder, KeyFound, Kids, OperandsOf
  <1>8. OtherwiseInOrder'
    BY <1>2, <1>6, <1>7 DEF Owing, OtherwiseInOrder
  <1>9. Repairing' /\ KeptFaithful' /\ KeysRight' /\ AskedUnited'
    <2>1. Repairing'
      BY <1>1, <1>2, <1>3 DEF Repairing
    <2>2. KeptFaithful' /\ KeysRight' /\ AskedUnited'
      BY <1>2 DEF Owing, KeptFaithful, KeysRight, AskedUnited, Canon, Sorted
    <2> QED BY <2>1, <2>2
  <1> QED BY <1>5, <1>8, <1>9 DEF Owing

\* The parents put back: those a later repair is owed to are found there.
LEMMA PutBackOwing == Struct /\ Owing /\ PutBack => Owing'
  <1> SUFFICES ASSUME Struct, Owing, PutBack PROVE Owing'
    OBVIOUS
  <1>1. /\ cur # 0 /\ todo = {} /\ cur' = 0 /\ kept' = {} /\ phase = "rebuild"
        /\ parents' = [parents EXCEPT ![rep[cur]] = @ \cup kept]
        /\ UNCHANGED <<nodes, rep, konst, memo, pending, todo, phase, added, asked>>
        /\ Ids' = Ids
    BY DEF PutBack, Ids
  <1>2. cur \in Ids /\ rep[cur] \in Ids /\ parents \in [Ids -> SUBSET Ids]
        /\ (\A x \in Ids : rep[x] \in Ids) /\ pending \subseteq Ids /\ \A i \in Ids : Kids(i) \subseteq Ids
    BY <1>1, GraphTypes
  <1>3. parents'[rep[cur]] = parents[rep[cur]] \cup kept /\ \A d \in Ids : parents[d] \subseteq parents'[d]
    BY <1>1, <1>2
  <1>4. ParentsKnown'
    <2>1. ASSUME NEW i \in Ids, NEW k \in Kids(i) PROVE i \in parents'[rep[k]]
      <3>1. i \in parents[rep[k]] \/ (rep[k] = rep[cur] /\ i \in kept)
        BY <1>1 DEF Owing, ParentsKnown
      <3> QED BY <1>2, <1>3, <3>1
    <2>2. \A i \in Ids : Kids(i)' = Kids(i)
      BY <1>1 DEF Kids, OperandsOf
    <2> QED BY <1>1, <2>1, <2>2 DEF ParentsKnown
  <1>5. \A i \in Ids : Due(i) => Due(i)'
    <2> SUFFICES ASSUME NEW i \in Ids, NEW d \in pending,
                        i \in parents[rep[d]] \/ (i \in kept /\ rep[d] = rep[cur])
                 PROVE  Due(i)'
      BY <1>1 DEF Due
    <2>1. d \in pending' /\ i \in parents'[rep'[d]]
      BY <1>1, <1>2, <1>3
    <2> QED BY <2>1 DEF Due
  <1>6. \A i \in Ids : InOrder(i)' = InOrder(i)
    BY <1>1 DEF InOrder, KeyFound, Kids, OperandsOf
  <1>7. OtherwiseInOrder'
    BY <1>1, <1>5, <1>6 DEF Owing, OtherwiseInOrder
  <1>8. Repairing' /\ KeptFaithful' /\ KeysRight' /\ AskedUnited'
    <2>1. Repairing'
      BY <1>1 DEF Repairing
    <2>2. KeptFaithful' /\ KeysRight' /\ AskedUnited'
      BY <1>1 DEF Owing, KeptFaithful, KeysRight, AskedUnited, Canon, Sorted
    <2> QED BY <2>1, <2>2
  <1> QED BY <1>4, <1>7, <1>8 DEF Owing

\* Every step keeps what is owed known.
LEMMA OwingKept == Struct /\ Owing /\ [Next]_vars => Owing'
  <1> SUFFICES ASSUME Struct, Owing, [Next]_vars PROVE Owing'
    OBVIOUS
  <1>1. CASE Import
    <2>1. PICK root \in Imports : Len(nodes) < Len(root) /\ Add(root[Len(nodes) + 1], TRUE)
      BY <1>1 DEF Import
    <2>2. Len(nodes) + 1 \in 1..Len(root) /\ (Len(nodes) + 1) - 1 = Len(nodes)
      BY <2>1, GraphTypes, ImportsAssumption
    <2>3. root[Len(nodes) + 1] \in ENodes(Ids)
      BY <2>2, GraphTypes, ImportsAssumption
    <2>4. phase' = phase /\ phase = "import"
      BY <1>1 DEF Import
    <2> QED BY <2>1, <2>3, <2>4, AddOwing
  <1>2. CASE Instantiate
    <2>1. PICK n \in ENodes(Ids) : Add(n, FALSE)
      BY <1>2 DEF Instantiate
    <2>2. phase' = phase /\ phase = "apply"
      BY <1>2 DEF Instantiate
    <2> QED BY <2>1, <2>2, AddOwing
  <1>3. CASE Unite
    <2>1. PICK a \in Ids, b \in Ids :
            rep[a] # rep[b] /\ asked' = asked \cup {<<a, b>>} /\ UniteClasses(a, b)
      BY <1>3 DEF Unite
    <2>2. phase = "apply"
      BY <1>3 DEF Unite
    <2> QED BY <2>1, <2>2, UniteOwing
  <1>4. CASE Repair
    <2>1. PICK p \in todo : RepairParent(p)
      BY <1>4 DEF Repair
    <2>2. phase = "rebuild" /\ asked' = asked
      BY <1>4 DEF Repair
    <2> QED BY <2>1, <2>2, RepairOwing
  <1>5. CASE Imported \/ StartRebuild \/ Rebuilt \/ UNCHANGED vars
    <2>1. /\ UNCHANGED <<nodes, rep, parents, konst, memo, pending, todo, kept, cur, added, asked>>
          /\ cur # 0 => phase' \in {"rebuild", "contract"}
          /\ phase = "contract" => phase' = "contract"
      BY <1>5 DEF Imported, StartRebuild, Rebuilt, vars, Owing, Repairing
    <2>2. Repairing' /\ AskedUnited'
      BY <2>1 DEF Owing, Repairing, AskedUnited
    <2>3. ParentsKnown' /\ OtherwiseInOrder' /\ KeptFaithful' /\ KeysRight'
      BY <2>1 DEF Owing, ParentsKnown, OtherwiseInOrder, KeptFaithful, KeysRight, Due, InOrder,
                  KeyFound, Kids, OperandsOf, Canon, Sorted, Ids
    <2> QED BY <2>2, <2>3 DEF Owing
  <1>6. CASE TakeClass
    BY <1>6, TakeClassOwing
  <1>7. CASE PutBack
    BY <1>7, PutBackOwing
  <1> QED BY <1>1, <1>2, <1>3, <1>4, <1>5, <1>6, <1>7 DEF Next, Rebuild

\* Nothing is owed at first.
LEMMA OwingInit == Init => Owing
  <1> SUFFICES ASSUME Init PROVE Owing
    OBVIOUS
  <1>1. Ids = {} /\ DOMAIN memo = {} /\ asked = {} /\ todo = {} /\ kept = {} /\ cur = 0
    BY DEF Init, Ids
  <1> QED BY <1>1 DEF Owing, Repairing, ParentsKnown, OtherwiseInOrder, KeptFaithful, KeysRight, AskedUnited

\* Where nothing is owed, the graph is closed.
LEMMA OwingCloses == Struct /\ Owing => RebuiltClosed
  <1> SUFFICES ASSUME Struct, Owing, Clean PROVE RebuiltClosed
    BY DEF RebuiltClosed, CongruenceClosed, ConstantsFolded, HashConsExact
  <1>1. \A i \in Ids : InOrder(i)
    <2>1. pending = {} /\ cur = 0 /\ todo = {}
      BY DEF Clean, Owing, Repairing
    <2> QED BY <2>1 DEF Owing, OtherwiseInOrder, Due
  <1>2. \A i \in Ids : Canon(added[i]) = nodes[i]
    <2> SUFFICES ASSUME NEW i \in Ids PROVE Canon(added[i]) = nodes[i]
      OBVIOUS
    <2>1. nodes[i] \in ENodes(Ids) /\ Ids \in SUBSET Int /\ \A x \in Ids : rep[x] \in Int
      BY GraphTypes
    <2>2. Sorted(nodes[i]) /\ Canon(nodes[i]) = Canon(added[i])
      BY DEF Owing, KeptFaithful
    <2>3. \A k \in OperandsOf(nodes[i]) : rep[k] = k
      BY <1>1 DEF InOrder, Kids
    <2>4. CanonUnder(nodes[i], rep) = nodes[i]
      BY <2>1, <2>2, <2>3, CanonIs
    <2> QED BY <2>2, <2>4 DEF Canon
  <1>3. \A i \in Ids : nodes[i] \in DOMAIN memo /\ rep[memo[nodes[i]]] = rep[i]
    BY <1>1 DEF InOrder, KeyFound
  <1>4. CongruenceClosed
    <2>1. \A i, j \in Ids : Canon(added[i]) = Canon(added[j]) => rep[i] = rep[j]
      BY <1>2, <1>3
    <2>2. phase # "contract"
      BY DEF Clean
    <2> QED BY <2>1, <2>2 DEF CongruenceClosed, Owing, AskedUnited
  <1>5. ConstantsFolded
    BY <1>1 DEF ConstantsFolded, InOrder
  <1>6. HashConsExact
    <2>1. DOMAIN memo \subseteq {Canon(added[i]) : i \in Ids}
      <3> SUFFICES ASSUME NEW x \in DOMAIN memo PROVE \E i \in Ids : x = Canon(added[i])
        OBVIOUS
      <3>1. memo[x] \in Ids /\ nodes[memo[x]] = x
        BY GraphTypes DEF Owing, KeysRight
      <3> QED BY <1>2, <3>1
    <2>2. {Canon(added[i]) : i \in Ids} \subseteq DOMAIN memo
      BY <1>2, <1>3
    <2> QED BY <1>2, <1>3, <2>1, <2>2 DEF HashConsExact
  <1> QED BY <1>4, <1>5, <1>6 DEF RebuiltClosed

\* However unions, new e-nodes and repairs (add, union, rebuild of eqsat/egraph.rs) come, a
\* graph whose worklist is empty is closed under congruence, holds what was asked to be equal
\* equal, knows every constant its e-nodes fold to, and finds every e-node by its key.
THEOREM RebuiltAlwaysClosed == Spec => []RebuiltClosed
  <1>1. Init => Struct /\ Sound /\ Owing
    BY StructInit, SoundInit, OwingInit
  <1>2. Struct /\ Sound /\ Owing /\ [Next]_vars => Struct' /\ Sound' /\ Owing'
    BY StepKeeps, OwingKept
  <1>3. Struct /\ Sound /\ Owing => RebuiltClosed
    BY OwingCloses
  <1> QED BY <1>1, <1>2, <1>3, PTL DEF Spec

-----------------------------------------------------------------------------
(* The order of the e-nodes. *)

\* Operands, and the id of a class, come before; what was imported comes first.
Ordered ==
  /\ \A i \in Ids : nodes[i] \in ENodes(1..(i - 1)) /\ rep[i] <= i
  /\ \A i, j \in Ids : imported[i] /\ j < i => imported[j]
  /\ phase = "import" => \A i \in Ids : imported[i]

\* A union lowers ids only.
LEMMA UnionLowers ==
  ASSUME NEW N \in Nat, NEW r, Roots(r, N), NEW a \in 1..N, NEW b \in 1..N
  PROVE  \A i \in 1..N : RepAfter(a, b, r)[i] <= r[i]
  <1> DEFINE lo == Lower(a, b, r)
             hi == Higher(a, b, r)
  <1>1. lo \in Nat /\ hi \in Nat /\ lo <= hi
    BY DEF Lower, Higher, Roots
  <1>2. RepAfter(a, b, r) = [i \in 1..N |-> IF r[i] = hi THEN lo ELSE r[i]]
    BY DEF RepAfter, Roots
  <1>3. \A i \in 1..N : r[i] \in Nat
    BY DEF Roots
  <1> HIDE DEF lo, hi
  <1> QED BY <1>1, <1>2, <1>3

\* Making an e-node canonical keeps its operands before it.
LEMMA CanonBelow ==
  ASSUME Struct, Ordered, NEW i \in Nat, i - 1 <= Len(nodes), NEW n \in ENodes(1..(i - 1))
  PROVE  Canon(n) \in ENodes(1..(i - 1))
  <1>1. Len(nodes) \in Nat /\ Ids = 1..Len(nodes) /\ rep \in [Ids -> Ids]
    BY DEF Struct, TypeOK, Ids
  <1>2. \A s \in 1..(i - 1) : rep[s] \in 1..(i - 1)
    <2> SUFFICES ASSUME NEW s \in 1..(i - 1) PROVE rep[s] \in 1..(i - 1)
      OBVIOUS
    <2>1. s \in Ids /\ s \in Nat /\ rep[s] \in Nat /\ 1 <= rep[s]
      BY <1>1
    <2>2. rep[s] <= s
      BY <2>1 DEF Ordered
    <2> QED BY <2>1, <2>2
  <1> QED BY <1>2, CanonShape DEF Canon

\* A new e-node comes last, imported or not.
LEMMA AddOrdered ==
  ASSUME Struct, Ordered, NEW e \in ENodes(Ids), NEW imp \in BOOLEAN, Add(e, imp),
         phase' = phase, phase \in {"import", "apply"}, imp <=> phase = "import"
  PROVE  Ordered'
  <1> DEFINE N == Len(nodes)
  <1>1. /\ N \in Nat /\ Ids = 1..N /\ Ids' = 1..(N + 1)
        /\ \A i \in Ids : nodes'[i] = nodes[i] /\ rep'[i] = rep[i]
        /\ nodes'[N + 1] = Canon(e) /\ rep'[N + 1] = N + 1
    BY AddStruct DEF Struct, TypeOK, Ids
  <1>2. /\ \A i \in Ids : imported'[i] = imported[i]
        /\ imported'[N + 1] = imp
    <2>1. imported \in [1..N -> BOOLEAN] /\ imported' = Append(imported, imp)
      BY DEF Struct, TypeOK, Add
    <2>2. N \in Nat /\ Ids = 1..N
      BY <1>1
    <2> HIDE DEF N
    <2> QED BY <2>1, <2>2, Extended
  <1>3. Canon(e) \in ENodes(1..((N + 1) - 1))
    <2>1. N + 1 \in Nat /\ (N + 1) - 1 = N /\ e \in ENodes(1..((N + 1) - 1))
      BY <1>1
    <2> QED BY <2>1, CanonBelow
  <1> HIDE DEF N
  <1>4. \A i \in Ids' : i \in Ids \/ i = N + 1
    BY <1>1
  <1>5. \A i \in Ids' : nodes'[i] \in ENodes(1..(i - 1)) /\ rep'[i] <= i
    BY <1>1, <1>3, <1>4 DEF Ordered
  <1>6. \A i, j \in Ids' : imported'[i] /\ j < i => imported'[j]
    <2> SUFFICES ASSUME NEW i \in Ids', NEW j \in Ids', imported'[i], j < i PROVE imported'[j]
      OBVIOUS
    <2>1. j \in Ids
      BY <1>1
    <2>2. CASE i \in Ids
      BY <1>2, <2>1, <2>2 DEF Ordered
    <2>3. CASE i = N + 1
      BY <1>2, <2>1, <2>3 DEF Ordered
    <2> QED BY <1>4, <2>2, <2>3
  <1>7. phase' = "import" => \A i \in Ids' : imported'[i]
    BY <1>2, <1>4 DEF Ordered
  <1> QED BY <1>5, <1>6, <1>7 DEF Ordered

\* Classes are united under the lower id, and a repaired e-node keeps its place.
LEMMA ReorderedKeeps ==
  ASSUME Struct, Ordered, NEW p \in Ids, NEW a \in Ids, NEW b \in Ids,
         nodes' \in {nodes, [nodes EXCEPT ![p] = Canon(nodes[p])]},
         rep' \in {rep, RepAfter(a, b, rep)},
         imported' = imported, phase' = "import" => phase = "import"
  PROVE  Ordered'
  <1>1. Len(nodes) \in Nat /\ Ids = 1..Len(nodes) /\ Roots(rep, Len(nodes)) /\ Ids' = Ids
    BY DEF Struct, TypeOK, Ids
  <1>2. Canon(nodes[p]) \in ENodes(1..(p - 1))
    BY <1>1, CanonBelow DEF Ordered
  <1>3. \A i \in Ids : nodes'[i] \in ENodes(1..(i - 1))
    <2>1. ASSUME NEW i \in Ids PROVE nodes'[i] = nodes[i] \/ (i = p /\ nodes'[i] = Canon(nodes[p]))
      BY DEF Ids
    <2> QED BY <1>2, <2>1 DEF Ordered
  <1>4. \A i \in Ids : rep'[i] <= i
    <2>1. \A i \in Ids : RepAfter(a, b, rep)[i] <= rep[i] /\ RepAfter(a, b, rep)[i] \in Int
      <3>1. \A i \in Ids : RepAfter(a, b, rep)[i] <= rep[i]
        <4> DEFINE N == Len(nodes)
        <4>1. N \in Nat /\ Roots(rep, N) /\ a \in 1..N /\ b \in 1..N /\ Ids = 1..N
          BY <1>1
        <4> HIDE DEF N
        <4> QED BY <4>1, UnionLowers
      <3>2. \A i \in Ids : RepAfter(a, b, rep)[i] \in Int
        BY <1>1 DEF RepAfter, Lower, Roots
      <3> QED BY <3>1, <3>2
    <2>2. \A i \in Ids : rep[i] \in Int /\ i \in Int
      BY <1>1 DEF Roots
    <2>3. \A i \in Ids : rep[i] <= i
      BY DEF Ordered
    <2>4. \A i \in Ids : rep'[i] = rep[i] \/ rep'[i] = RepAfter(a, b, rep)[i]
      OBVIOUS
    <2> QED BY <2>1, <2>2, <2>3, <2>4
  <1> QED BY <1>1, <1>3, <1>4 DEF Ordered

\* Every step keeps the order.
LEMMA OrderKept ==
  ASSUME Struct, Ordered, [Next]_vars
  PROVE  Ordered'
  <1>1. Len(nodes) \in Nat /\ Ids = 1..Len(nodes)
    BY DEF Struct, TypeOK, Ids
  <1>2. CASE Import
    <2>1. PICK root \in Imports :
            /\ Len(nodes) < Len(root)
            /\ Add(root[Len(nodes) + 1], TRUE)
      BY <1>2 DEF Import
    <2>2. Len(nodes) + 1 \in 1..Len(root) /\ (Len(nodes) + 1) - 1 = Len(nodes)
      BY <1>1, <2>1, ImportsAssumption
    <2>3. root[Len(nodes) + 1] \in ENodes(Ids)
      BY <1>1, <2>2, ImportsAssumption
    <2>4. phase' = "import" /\ phase = "import"
      BY <1>2 DEF Import
    <2> QED BY <2>1, <2>3, <2>4, AddOrdered
  <1>3. CASE Instantiate
    <2>1. PICK n \in ENodes(Ids) : Add(n, FALSE)
      BY <1>3 DEF Instantiate
    <2>2. phase' = "apply" /\ phase = "apply"
      BY <1>3 DEF Instantiate
    <2> QED BY <2>1, <2>2, AddOrdered
  <1>4. CASE Unite
    <2>1. PICK a \in Ids, b \in Ids : UniteClasses(a, b)
      BY <1>4 DEF Unite
    <2>2. /\ nodes' = nodes /\ imported' = imported /\ phase = "apply"
          /\ rep' \in {rep, RepAfter(a, b, rep)} /\ phase' # "import"
      BY <1>4, <2>1 DEF UniteClasses, Abandon, Unite
    <2> QED BY <2>2, ReorderedKeeps
  <1>5. CASE Repair
    <2>1. PICK p \in todo : RepairParent(p)
      BY <1>5 DEF Repair
    <2>2. p \in Ids /\ phase = "rebuild"
      BY <1>1, <1>5, <2>1 DEF Repair, Struct, TypeOK
    <2> DEFINE old  == nodes[p]
               rest == IF old \in DOMAIN memo /\ memo[old] = p THEN Forget(memo, old) ELSE memo
               q    == Twin(p, Canon(old), rest)
    <2>3. q \in Ids
      <3>1. q = p \/ (Canon(old) \in DOMAIN rest /\ q = rest[Canon(old)])
        BY DEF Twin
      <3>2. DOMAIN rest \subseteq DOMAIN memo /\ \A x \in DOMAIN rest : rest[x] = memo[x]
        BY DEF Forget
      <3> QED BY <1>1, <2>2, <3>1, <3>2 DEF Struct, TypeOK
    <2>4. /\ imported' = imported /\ phase' # "import"
          /\ nodes' \in {nodes, [nodes EXCEPT ![p] = Canon(nodes[p])]}
          /\ rep' \in {rep, RepAfter(p, q, rep)}
      BY <2>1, <2>2 DEF RepairParent, Abandon
    <2> HIDE DEF q
    <2> QED BY <2>2, <2>3, <2>4, ReorderedKeeps
  <1>6. CASE Imported \/ StartRebuild \/ TakeClass \/ PutBack \/ Rebuilt \/ UNCHANGED vars
    <2>1. nodes' = nodes /\ rep' = rep /\ imported' = imported /\ (phase' = "import" => phase = "import")
      BY <1>6 DEF Imported, StartRebuild, TakeClass, PutBack, Rebuilt, vars
    <2> QED BY <2>1 DEF Ordered, Ids
  <1> QED BY <1>2, <1>3, <1>4, <1>5, <1>6 DEF Next, Rebuild

-----------------------------------------------------------------------------
(* Extraction. *)

\* What an e-node over the classes of some operands costs.
CostUnder(b, r, ks) == FoldLeft(LAMBDA sum, k : Saturating(sum, b[r[k]].cost), 1, ks)

\* The sum, operand by operand.
LEMMA CostUnderIs ==
  ASSUME NEW b, NEW r, NEW ks, NEW len \in 0..2, DOMAIN ks = 1..len
  PROVE  /\ len = 0 => CostUnder(b, r, ks) = 1
         /\ len = 1 => CostUnder(b, r, ks) = Saturating(1, b[r[ks[1]]].cost)
         /\ len = 2 => CostUnder(b, r, ks) = Saturating(Saturating(1, b[r[ks[1]]].cost), b[r[ks[2]]].cost)
  <1> DEFINE c(j) == b[r[ks[j]]].cost
             D == 1..len
             It(g) == [S \in SUBSET D |-> IF S = {} THEN 1 ELSE Saturating(g[S \ {Max(S)}], c(Max(S)))]
             it == CHOOSE g : g = It(g)
             one == Saturating(1, c(1))
             two == Saturating(1, c(2))
             both == Saturating(one, c(2))
             sum == [S \in SUBSET D |-> IF S = {} THEN 1 ELSE IF S = {1} THEN one ELSE IF S = {2} THEN two ELSE both]
  <1>1. CostUnder(b, r, ks) = it[D]
    BY DEF CostUnder, FoldLeft, MapThenFoldSet
  <1>2. \A S \in SUBSET D : S = {} \/ S = {1} \/ S = {2} \/ S = {1, 2}
    <2>1. D \subseteq {1, 2}
      OBVIOUS
    <2> HIDE DEF D
    <2> QED BY <2>1
  <1>3. Max({1}) = 1 /\ Max({2}) = 2 /\ Max({1, 2}) = 2
    BY DEF Max
  <1>4. {1} \ {1} = {} /\ {2} \ {2} = {} /\ {1, 2} \ {2} = {1}
    OBVIOUS
  <1> HIDE DEF c
  <1>5. ASSUME NEW S \in SUBSET D
        PROVE  sum[S] = IF S = {} THEN 1 ELSE Saturating(sum[S \ {Max(S)}], c(Max(S)))
    <2>1. CASE S = {}
      BY <2>1
    <2>2. CASE S = {1}
      BY <2>2, <1>3, <1>4
    <2>3. CASE S = {2}
      BY <2>3, <1>3, <1>4
    <2>4. CASE S = {1, 2}
      <3>1. {1} \in SUBSET D
        BY <2>4
      <3> QED BY <3>1, <2>4, <1>3, <1>4
    <2> QED BY <1>2, <2>1, <2>2, <2>3, <2>4
  <1>6. sum = It(sum)
    BY <1>5
  <1>7. it = It(it)
    <2> HIDE DEF sum
    <2> QED BY <1>6
  <1> HIDE DEF it, It, sum
  <1>8. \A S \in SUBSET D : it[S] = IF S = {} THEN 1 ELSE Saturating(it[S \ {Max(S)}], c(Max(S)))
    BY <1>7 DEF It
  <1>9. it[{}] = 1
    BY <1>8
  <1>10. len \in {1, 2} => it[{1}] = Saturating(1, c(1))
    <2> SUFFICES ASSUME len \in {1, 2} PROVE it[{1}] = Saturating(1, c(1))
      OBVIOUS
    <2>1. {1} \in SUBSET D /\ {1} # {}
      OBVIOUS
    <2> HIDE DEF D
    <2> QED BY <1>3, <1>4, <1>8, <1>9, <2>1
  <1>11. len = 2 => it[{1, 2}] = Saturating(Saturating(1, c(1)), c(2))
    <2> SUFFICES ASSUME len = 2 PROVE it[{1, 2}] = Saturating(Saturating(1, c(1)), c(2))
      OBVIOUS
    <2>1. {1, 2} \in SUBSET D /\ {1, 2} # {}
      OBVIOUS
    <2> HIDE DEF D
    <2> QED BY <1>3, <1>4, <1>8, <1>10, <2>1
  <1>12. (len = 0 => D = {}) /\ (len = 1 => D = {1}) /\ (len = 2 => D = {1, 2})
    OBVIOUS
  <1> HIDE DEF D
  <1> QED BY <1>1, <1>9, <1>10, <1>11, <1>12 DEF c

\* Where the operands have costs, the sum has one: above each of theirs, or where it saturates.
LEMMA CostUnderBounds ==
  ASSUME NEW b, NEW r, NEW ks, NEW len \in 0..2, DOMAIN ks = 1..len,
         \A j \in 1..len : b[r[ks[j]]].cost \in 1..MaxCost
  PROVE  /\ CostUnder(b, r, ks) \in 1..MaxCost
         /\ \A j \in 1..len : b[r[ks[j]]].cost < CostUnder(b, r, ks) \/ CostUnder(b, r, ks) = MaxCost
  <1> DEFINE c(j) == b[r[ks[j]]].cost
             sum == CostUnder(b, r, ks)
  <1>1. /\ len = 0 => sum = 1
        /\ len = 1 => sum = Saturating(1, c(1))
        /\ len = 2 => sum = Saturating(Saturating(1, c(1)), c(2))
    BY CostUnderIs
  <1>2. \A j \in 1..len : c(j) \in 1..MaxCost
    OBVIOUS
  <1> SUFFICES sum \in 1..MaxCost /\ \A j \in 1..len : c(j) < sum \/ sum = MaxCost
    OBVIOUS
  <1> HIDE DEF c, sum
  <1>3. CASE len = 0
    BY <1>1, <1>3, MaxCostAssumption
  <1>4. CASE len = 1
    <2>1. c(1) \in 1..MaxCost /\ \A j \in 1..len : j = 1
      BY <1>2, <1>4
    <2> QED BY <1>1, <1>4, <2>1, MaxCostAssumption DEF Saturating
  <1>5. CASE len = 2
    <2>1. c(1) \in 1..MaxCost /\ c(2) \in 1..MaxCost /\ \A j \in 1..len : j = 1 \/ j = 2
      BY <1>2, <1>5
    <2>2. sum = Saturating(Saturating(1, c(1)), c(2))
      BY <1>1, <1>5
    <2>3. sum \in 1..MaxCost /\ (c(1) < sum \/ sum = MaxCost) /\ (c(2) < sum \/ sum = MaxCost)
      BY <2>1, <2>2, MaxCostAssumption DEF Saturating
    <2> QED BY <2>1, <2>3
  <1> QED BY <1>3, <1>4, <1>5

\* Cheaper operands cost no more.
LEMMA CostUnderFalls ==
  ASSUME NEW b, NEW d, NEW r, NEW ks, NEW len \in 0..2, DOMAIN ks = 1..len,
         \A j \in 1..len : /\ b[r[ks[j]]].cost \in 1..MaxCost /\ d[r[ks[j]]].cost \in 1..MaxCost
                           /\ d[r[ks[j]]].cost <= b[r[ks[j]]].cost
  PROVE  CostUnder(d, r, ks) <= CostUnder(b, r, ks)
  <1> DEFINE c(j) == b[r[ks[j]]].cost
             e(j) == d[r[ks[j]]].cost
             old == CostUnder(b, r, ks)
             new == CostUnder(d, r, ks)
  <1>1. /\ len = 0 => old = 1
        /\ len = 1 => old = Saturating(1, c(1))
        /\ len = 2 => old = Saturating(Saturating(1, c(1)), c(2))
    BY CostUnderIs
  <1>2. /\ len = 0 => new = 1
        /\ len = 1 => new = Saturating(1, e(1))
        /\ len = 2 => new = Saturating(Saturating(1, e(1)), e(2))
    BY CostUnderIs
  <1>3. \A j \in 1..len : c(j) \in 1..MaxCost /\ e(j) \in 1..MaxCost /\ e(j) <= c(j)
    OBVIOUS
  <1> SUFFICES new <= old
    OBVIOUS
  <1> HIDE DEF c, e, old, new
  <1>4. CASE len = 0
    BY <1>1, <1>2, <1>4
  <1>5. CASE len = 1
    <2>1. c(1) \in 1..MaxCost /\ e(1) \in 1..MaxCost /\ e(1) <= c(1)
      BY <1>3, <1>5
    <2> QED BY <1>1, <1>2, <1>5, <2>1, MaxCostAssumption DEF Saturating
  <1>6. CASE len = 2
    <2>1. /\ c(1) \in 1..MaxCost /\ e(1) \in 1..MaxCost /\ e(1) <= c(1)
          /\ c(2) \in 1..MaxCost /\ e(2) \in 1..MaxCost /\ e(2) <= c(2)
      BY <1>3, <1>6
    <2> QED BY <1>1, <1>2, <1>6, <2>1, MaxCostAssumption DEF Saturating
  <1> QED BY <1>4, <1>5, <1>6

\* The operands of an e-node, at most two, come before it.
LEMMA KidsAre ==
  ASSUME Struct, Ordered, NEW i \in Ids
  PROVE  \E len \in 0..2 : /\ DOMAIN nodes[i].kids = 1..len
                           /\ \A j \in 1..len : nodes[i].kids[j] \in Ids /\ nodes[i].kids[j] < i
  <1>1. nodes[i] \in ENodes(1..(i - 1)) /\ i \in Nat /\ Ids = 1..Len(nodes) /\ Len(nodes) \in Nat
    BY DEF Ordered, Struct, TypeOK, Ids
  <1> DEFINE B == 1..(i - 1)
  <1>2. \A k \in B : k \in Ids /\ k < i
    BY <1>1
  <1> HIDE DEF B
  <1>3. \/ nodes[i].kids = <<>>
        \/ \E a \in B : nodes[i].kids = <<a>>
        \/ \E a, b \in B : nodes[i].kids = <<a, b>>
    BY <1>1 DEF ENodes, Const, Leaf, Un, Bin, B
  <1>4. CASE nodes[i].kids = <<>>
    <2>1. DOMAIN nodes[i].kids = 1..0
      BY <1>4
    <2> QED BY <2>1
  <1>5. ASSUME NEW a \in B, nodes[i].kids = <<a>>
        PROVE  DOMAIN nodes[i].kids = 1..1 /\ \A j \in 1..1 : nodes[i].kids[j] = a
    BY <1>5
  <1>6. ASSUME NEW a \in B, NEW b \in B, nodes[i].kids = <<a, b>>
        PROVE  DOMAIN nodes[i].kids = 1..2 /\ \A j \in 1..2 : nodes[i].kids[j] \in B
    BY <1>6
  <1>7. CASE \E a \in B : nodes[i].kids = <<a>>
    BY <1>2, <1>5, <1>7
  <1>8. CASE \E a, b \in B : nodes[i].kids = <<a, b>>
    BY <1>2, <1>6, <1>8
  <1> QED BY <1>3, <1>4, <1>7, <1>8

\* Every non-empty set of natural numbers has a least.
LEMMA LeastNat ==
  ASSUME NEW S \in SUBSET Nat, S # {}
  PROVE  \E n \in S : \A m \in S : n <= m
  <1> DEFINE R == {s \in Nat \X Nat : s[1] < s[2]}
  <1>1. IsWellFoundedOn(OpToRel(<, Nat), Nat)
    BY NatLessThanWellFounded
  <1>2. OpToRel(<, Nat) = R
    BY DEF OpToRel
  <1>3. IsWellFoundedOn(R, Nat)
    BY <1>1, <1>2
  <1>4. \E x \in S : \A y \in S : ~ (<<y, x>> \in R)
    BY <1>3, WFMin
  <1>5. PICK n \in S : \A m \in S : <<m, n>> \notin R
    BY <1>4
  <1>6. ASSUME NEW m \in S PROVE n <= m
    <2>1. <<m, n>> \in Nat \X Nat /\ <<m, n>>[1] = m /\ <<m, n>>[2] = n
      OBVIOUS
    <2>2. ~ (m < n)
      BY <1>5, <2>1
    <2> QED BY <2>2
  <1> QED BY <1>6

\* What was chosen costs, by present costs, at most what was noted; once a sweep has changed
\* nothing so far, no e-node it passed is better.
Noted(c) ==
  /\ best[c] = [cost |-> best[c].cost, node |-> best[c].node]
  /\ best[c].cost \in 1..MaxCost /\ best[c].node \in Ids /\ rep[best[c].node] = c
  /\ Costed(best[c].node) /\ CostOf(best[c].node) <= best[c].cost
Sweeps ==
  /\ at \in 0..(Len(nodes) + 1) /\ changed \in BOOLEAN /\ chosen \in BOOLEAN
  /\ \A c \in DOMAIN best : Noted(c)
  /\ at = 0 => DOMAIN best = {} /\ ~changed /\ ~chosen
  /\ ~changed /\ ~chosen => \A i \in Ids : i < at => ~Improves(i)
  /\ chosen => \A i \in Ids : ~Improves(i)

\* The cost of an e-node is that of its operands' classes.
LEMMA CostOfUnder ==
  \A i : /\ CostOf(i) = CostUnder(best, rep, nodes[i].kids)
         /\ CostOf(i)' = CostUnder(best', rep', nodes'[i].kids)
  BY DEF CostOf, CostUnder, FoldLeft, MapThenFoldSet

\* An e-node whose operands have costs has one.
LEMMA CostOfIs ==
  ASSUME Struct, Ordered, \A c \in DOMAIN best : best[c].cost \in 1..MaxCost,
         NEW i \in Ids, Costed(i)
  PROVE  /\ CostOf(i) \in 1..MaxCost
         /\ \A k \in DOMAIN nodes[i].kids :
              /\ nodes[i].kids[k] \in Ids /\ nodes[i].kids[k] < i
              /\ best[rep[nodes[i].kids[k]]].cost < CostOf(i) \/ CostOf(i) = MaxCost
  <1> DEFINE ks == nodes[i].kids
  <1>1. CostOf(i) = CostUnder(best, rep, ks)
    BY DEF CostOf, CostUnder
  <1>2. PICK len \in 0..2 : DOMAIN ks = 1..len /\ \A j \in 1..len : ks[j] \in Ids /\ ks[j] < i
    BY KidsAre
  <1>3. \A j \in 1..len : best[rep[ks[j]]].cost \in 1..MaxCost
    BY <1>2 DEF Costed
  <1>4. /\ CostUnder(best, rep, ks) \in 1..MaxCost
        /\ \A j \in 1..len : best[rep[ks[j]]].cost < CostUnder(best, rep, ks) \/ CostUnder(best, rep, ks) = MaxCost
    <2> HIDE DEF ks
    <2> QED BY <1>2, <1>3, CostUnderBounds
  <1> QED BY <1>1, <1>2, <1>4

\* Where more classes have a cost, and none a higher one, an e-node costs no more.
LEMMA CostOfFalls ==
  ASSUME Struct, Ordered, UNCHANGED <<nodes, rep>>,
         \A c \in DOMAIN best : /\ c \in DOMAIN best' /\ best[c].cost \in 1..MaxCost
                                /\ best'[c].cost \in 1..MaxCost /\ best'[c].cost <= best[c].cost,
         NEW i \in Ids, Costed(i)
  PROVE  Costed(i)' /\ CostOf(i)' <= CostOf(i)
  <1> DEFINE ks == nodes[i].kids
             d == best'
  <1>1. CostOf(i) = CostUnder(best, rep, ks) /\ CostOf(i)' = CostUnder(d, rep, ks)
    BY CostOfUnder
  <1>2. PICK len \in 0..2 : DOMAIN ks = 1..len
    BY KidsAre
  <1>3. Costed(i)'
    BY DEF Costed
  <1>4. \A j \in 1..len : /\ best[rep[ks[j]]].cost \in 1..MaxCost /\ d[rep[ks[j]]].cost \in 1..MaxCost
                          /\ d[rep[ks[j]]].cost <= best[rep[ks[j]]].cost
    BY <1>2 DEF Costed
  <1>5. CostUnder(d, rep, ks) <= CostUnder(best, rep, ks)
    <2> HIDE DEF ks, d
    <2> QED BY <1>2, <1>4, CostUnderFalls
  <1> QED BY <1>1, <1>3, <1>5

\* A better e-node makes its class cheaper, or as cheap, and a sweep is owed.
LEMMA WeighKeeps == Struct /\ Ordered /\ Sweeps /\ Weigh => Sweeps'
  <1> SUFFICES ASSUME Struct, Ordered, Sweeps, Weigh PROVE Sweeps'
    OBVIOUS
  <1>1. /\ Len(nodes) \in Nat /\ Ids = 1..Len(nodes) /\ Ids' = Ids /\ rep \in [Ids -> Ids]
        /\ at \in Ids /\ ~chosen /\ at' = at + 1 /\ chosen' = chosen
        /\ UNCHANGED <<nodes, rep, imported>>
    BY DEF Struct, TypeOK, Weigh, vars, Ids
  <1>2. CASE ~Improves(at)
    <2>1. best' = best /\ changed' = changed
      BY <1>2 DEF Weigh
    <2>2. \A i : /\ Costed(i)' = Costed(i) /\ CostOf(i)' = CostOf(i) /\ Improves(i)' = Improves(i)
      <3>1. \A i : CostOf(i)' = CostOf(i)
        BY <1>1, <2>1, CostOfUnder
      <3>2. \A i : Costed(i)' = Costed(i)
        BY <1>1, <2>1 DEF Costed
      <3> QED BY <1>1, <2>1, <3>1, <3>2 DEF Improves, Offer, Better, Prefer
    <2>3. \A c \in DOMAIN best : Noted(c)'
      BY <1>1, <2>1, <2>2 DEF Sweeps, Noted
    <2>4. ~changed => \A i \in Ids : i < at + 1 => ~Improves(i)
      <3>1. \A i \in Ids : i < at + 1 => i < at \/ i = at
        BY <1>1
      <3> QED BY <1>1, <1>2, <3>1 DEF Sweeps
    <2>5. at' \in 0..(Len(nodes) + 1) /\ at' # 0
      BY <1>1
    <2> QED BY <1>1, <2>1, <2>2, <2>3, <2>4, <2>5 DEF Sweeps
  <1>3. CASE Improves(at)
    <2> DEFINE c == rep[at]
               cost == CostOf(at)
    <2>1. /\ best' = [d \in DOMAIN best \cup {c} |-> IF d = c THEN [cost |-> cost, node |-> at] ELSE best[d]]
          /\ changed' = TRUE
      BY <1>3 DEF Weigh, Offer, Counts
    <2>2. Costed(at) /\ cost \in 1..MaxCost
      <3>1. Costed(at)
        BY <1>3 DEF Improves
      <3> QED BY <1>1, <3>1, CostOfIs DEF Sweeps, Noted
    <2>3. c \in DOMAIN best => cost <= best[c].cost
      <3>1. c \in DOMAIN best => Better(cost, at, best[c])
        BY <1>3 DEF Improves, Offer
      <3>2. c \in DOMAIN best => best[c].cost \in 1..MaxCost
        BY DEF Sweeps, Noted
      <3> HIDE DEF c, cost
      <3> QED BY <2>2, <3>1, <3>2 DEF Better
    <2>4. /\ DOMAIN best' = DOMAIN best \cup {c}
          /\ best'[c].cost = cost /\ best'[c].node = at /\ best'[c] = [cost |-> cost, node |-> at]
          /\ \A d \in DOMAIN best : d # c => best'[d] = best[d]
      <3> HIDE DEF c, cost
      <3> QED BY <2>1
    <2> HIDE DEF cost
    <2>5. \A d \in DOMAIN best : /\ d \in DOMAIN best' /\ best[d].cost \in 1..MaxCost
                                 /\ best'[d].cost \in 1..MaxCost /\ best'[d].cost <= best[d].cost
      <3> SUFFICES ASSUME NEW d \in DOMAIN best
                   PROVE  /\ d \in DOMAIN best' /\ best[d].cost \in 1..MaxCost
                          /\ best'[d].cost \in 1..MaxCost /\ best'[d].cost <= best[d].cost
        OBVIOUS
      <3>1. best[d].cost \in 1..MaxCost
        BY DEF Sweeps, Noted
      <3>2. CASE d = c
        BY <2>2, <2>3, <2>4, <3>1, <3>2
      <3>3. CASE d # c
        <4>1. best[d].cost <= best[d].cost
          BY <3>1, MaxCostAssumption
        <4> QED BY <2>4, <3>1, <3>3, <4>1
      <3> QED BY <3>2, <3>3
    <2>6. \A i \in Ids : Costed(i) => Costed(i)' /\ CostOf(i)' <= CostOf(i) /\ CostOf(i) \in 1..MaxCost
      <3> SUFFICES ASSUME NEW i \in Ids, Costed(i)
                   PROVE  Costed(i)' /\ CostOf(i)' <= CostOf(i) /\ CostOf(i) \in 1..MaxCost
        OBVIOUS
      <3>1. CostOf(i) \in 1..MaxCost
        BY CostOfIs DEF Sweeps, Noted
      <3> QED BY <1>1, <2>5, <3>1, CostOfFalls
    <2>7. \A i \in Ids : Costed(i)' => CostOf(i)' \in Int
      <3> SUFFICES ASSUME NEW i \in Ids, Costed(i)' PROVE CostOf(i)' \in Int
        OBVIOUS
      <3> DEFINE d == best'
                 ks == nodes[i].kids
      <3>1. CostOf(i)' = CostUnder(d, rep, ks)
        BY <1>1, CostOfUnder
      <3>2. PICK len \in 0..2 : DOMAIN ks = 1..len
        BY KidsAre
      <3>3. \A j \in 1..len : d[rep[ks[j]]].cost \in 1..MaxCost
        <4>1. \A e \in DOMAIN best' : best'[e].cost \in 1..MaxCost
          BY <2>2, <2>4, <2>5
        <4> QED BY <1>1, <3>2, <4>1 DEF Costed
      <3>4. CostUnder(d, rep, ks) \in 1..MaxCost
        <4> HIDE DEF d, ks
        <4> QED BY <3>2, <3>3, CostUnderBounds
      <3> QED BY <3>1, <3>4, MaxCostAssumption
    <2>8. ASSUME NEW d \in DOMAIN best' PROVE Noted(d)'
      <3>1. CASE d = c
        <4>1. PICK n : n = at
          OBVIOUS
        <4>2. n \in Ids /\ Costed(n)' /\ CostOf(n)' <= cost
          BY <1>1, <2>2, <2>6, <4>1 DEF cost
        <4>3. /\ best'[d].node = n /\ best'[d].cost = cost /\ rep'[n] = d
              /\ best'[d] = [cost |-> cost, node |-> n]
          BY <1>1, <2>4, <3>1, <4>1
        <4> QED BY <1>1, <2>2, <4>2, <4>3 DEF Noted
      <3>2. CASE d # c
        <4>1. d \in DOMAIN best /\ best'[d] = best[d]
          BY <2>4, <2>8, <3>2
        <4>2. Noted(d)
          BY <4>1 DEF Sweeps
        <4>7. PICK n : n = best[d].node
          OBVIOUS
        <4>3. n \in Ids /\ Costed(n) /\ CostOf(n) <= best[d].cost /\ best[d].cost \in 1..MaxCost
          BY <4>2, <4>7 DEF Noted
        <4>4. Costed(n)' /\ CostOf(n)' <= CostOf(n) /\ CostOf(n) \in 1..MaxCost /\ CostOf(n)' \in Int
          BY <4>3, <2>6, <2>7
        <4>5. CostOf(n)' <= best[d].cost
          BY <4>3, <4>4, MaxCostAssumption
        <4>6. /\ best'[d].node = n /\ best'[d].cost = best[d].cost /\ rep[n] = d
              /\ best'[d] = [cost |-> best[d].cost, node |-> n]
          BY <4>1, <4>2, <4>7 DEF Noted
        <4> QED BY <1>1, <4>2, <4>3, <4>4, <4>5, <4>6 DEF Noted
      <3> QED BY <3>1, <3>2
    <2>9. at' \in 0..(Len(nodes) + 1) /\ at' # 0
      BY <1>1
    <2> QED BY <1>1, <2>1, <2>8, <2>9 DEF Sweeps
  <1> QED BY <1>2, <1>3

\* The other steps of a search move to the next sweep, or leave the choice alone.
LEMMA SweepsKept == Struct /\ Struct' /\ Ordered /\ Sweeps /\ [NextX]_varsX => Sweeps'
  <1> SUFFICES ASSUME Struct, Struct', Ordered, Sweeps, [NextX]_varsX PROVE Sweeps'
    OBVIOUS
  <1>1. Len(nodes) \in Nat /\ Ids = 1..Len(nodes)
    BY DEF Struct, TypeOK, Ids
  <1>2. CASE Weigh
    BY <1>2, WeighKeeps
  <1>3. CASE StartExtract \/ EndSweep \/ UNCHANGED varsX
    <2>1. UNCHANGED <<nodes, rep, imported, best>> /\ Ids' = Ids
      BY <1>3 DEF StartExtract, EndSweep, varsX, vars, Ids
    <2>2. \A i : /\ Costed(i)' = Costed(i) /\ CostOf(i)' = CostOf(i) /\ Improves(i)' = Improves(i)
      <3>1. \A i : CostOf(i)' = CostOf(i)
        BY <2>1, CostOfUnder
      <3>2. \A i : Costed(i)' = Costed(i)
        BY <2>1 DEF Costed
      <3> QED BY <2>1, <3>1, <3>2 DEF Improves, Offer, Better, Prefer
    <2>3. \A c \in DOMAIN best' : Noted(c)'
      BY <2>1, <2>2 DEF Sweeps, Noted
    <2>4. CASE UNCHANGED varsX
      BY <2>1, <2>2, <2>3, <2>4 DEF Sweeps, varsX
    <2>5. CASE StartExtract
      <3>1. /\ at' = 1 /\ 1 \in 0..(Len(nodes) + 1) /\ \A i \in Ids : ~(i < 1)
            /\ changed' \in BOOLEAN /\ chosen' = FALSE /\ nodes' = nodes
        BY <1>1, <2>5 DEF StartExtract, Sweeps, vars
      <3>2. at' \in 0..(Len(nodes') + 1) /\ at' # 0
        BY <3>1
      <3>3. \A i \in Ids' : ~(i < at')
        BY <2>1, <3>1
      <3> QED BY <2>3, <3>1, <3>2, <3>3 DEF Sweeps
    <2>6. CASE EndSweep
      <3>1. /\ at' = 1 /\ 1 \in 0..(Len(nodes) + 1) /\ changed' = FALSE /\ chosen' = ~changed
            /\ nodes' = nodes /\ chosen' \in BOOLEAN
            /\ \A i \in Ids : i < at /\ ~(i < 1)
        BY <1>1, <2>6 DEF EndSweep, vars, Sweeps
      <3>2. chosen' => \A i \in Ids : ~Improves(i)'
        BY <2>2, <2>6, <3>1 DEF EndSweep, Sweeps
      <3>3. at' \in 0..(Len(nodes') + 1) /\ at' # 0
        BY <3>1
      <3>4. \A i \in Ids' : ~(i < at')
        BY <2>1, <3>1
      <3>5. chosen' => \A i \in Ids' : ~Improves(i)'
        BY <2>1, <3>2
      <3> QED BY <2>3, <3>1, <3>3, <3>4, <3>5 DEF Sweeps
    <2> QED BY <1>3, <2>4, <2>5, <2>6
  <1>4. CASE Search(Next)
    <2>1. at = 0 /\ UNCHANGED <<best, at, changed, chosen>>
      BY <1>4 DEF Search
    <2>2. DOMAIN best' = {} /\ changed' = FALSE /\ chosen' = FALSE /\ at' = 0
      BY <2>1 DEF Sweeps
    <2>3. Len(nodes') \in Nat /\ Ids' = 1..Len(nodes')
      BY DEF Struct, TypeOK, Ids
    <2>4. at' \in 0..(Len(nodes') + 1) /\ \A i \in Ids' : ~(i < at')
      BY <2>2, <2>3
    <2>5. \A c \in DOMAIN best' : Noted(c)'
      BY <2>2
    <2>6. changed' \in BOOLEAN /\ chosen' \in BOOLEAN
      BY <2>2
    <2> QED BY <2>2, <2>4, <2>5, <2>6 DEF Sweeps
  <1> QED BY <1>2, <1>3, <1>4 DEF NextX, Extraction

\* When the sweeps have ended no e-node is better than what its class has chosen.
LEMMA ChosenCheapest == Struct /\ Ordered /\ Sweeps => CheapestChosen
  <1> SUFFICES ASSUME Struct, Ordered, Sweeps, chosen PROVE CheapestChosen
    BY DEF CheapestChosen
  <1>1. /\ Len(nodes) \in Nat /\ Ids = 1..Len(nodes) /\ rep \in [Ids -> Ids]
        /\ \A i \in Ids : ~Improves(i)
        /\ \A c \in DOMAIN best : Noted(c)
    BY DEF Struct, TypeOK, Sweeps, Ids
  <1>2. \A i \in Ids : rep[i] \in DOMAIN best
    <2> SUFFICES ASSUME NEW i \in Ids, rep[i] \notin DOMAIN best PROVE FALSE
      OBVIOUS
    <2> DEFINE without == {j \in Ids : rep[j] \notin DOMAIN best}
    <2>1. without \in SUBSET Nat /\ i \in without
      BY <1>1
    <2>2. PICK j \in without : \A k \in without : j <= k
      BY <2>1, LeastNat
    <2>3. j \in Ids /\ j \in Nat
      BY <1>1, <2>2
    <2>4. PICK len \in 0..2 :
            /\ DOMAIN nodes[j].kids = 1..len
            /\ \A m \in 1..len : nodes[j].kids[m] \in Ids /\ nodes[j].kids[m] < j
      BY <2>3, KidsAre
    <2>5. Costed(j)
      <3> SUFFICES ASSUME NEW m \in 1..len PROVE rep[nodes[j].kids[m]] \in DOMAIN best
        BY <2>4 DEF Costed
      <3>1. nodes[j].kids[m] \in Ids /\ nodes[j].kids[m] < j /\ nodes[j].kids[m] \in Nat
        BY <1>1, <2>4
      <3>2. nodes[j].kids[m] \notin without
        BY <2>2, <2>3, <3>1
      <3> QED BY <3>1, <3>2
    <2> QED BY <1>1, <2>2, <2>5 DEF Improves
  <1>3. DOMAIN best = Classes
    <2>1. \A c \in DOMAIN best : best[c].node \in Ids /\ rep[best[c].node] = c
      BY <1>1 DEF Noted
    <2> QED BY <1>2, <2>1 DEF Classes
  <1>4. \A i \in Ids : Costed(i) /\ ~Better(Offer(i).cost, i, best[rep[i]])
    <2> SUFFICES ASSUME NEW i \in Ids PROVE Costed(i) /\ ~Better(Offer(i).cost, i, best[rep[i]])
      OBVIOUS
    <2>1. Costed(i)
      <3>1. PICK len \in 0..2 :
              /\ DOMAIN nodes[i].kids = 1..len
              /\ \A m \in 1..len : nodes[i].kids[m] \in Ids
        BY KidsAre
      <3> QED BY <1>2, <3>1 DEF Costed
    <2> QED BY <1>1, <1>2, <2>1 DEF Improves
  <1>5. ASSUME NEW c \in Classes PROVE rep[best[c].node] = c /\ Offer(best[c].node) = best[c]
    <2> DEFINE n == best[c].node
    <2>1. /\ best[c].cost \in 1..MaxCost /\ n \in Ids /\ rep[n] = c
          /\ Costed(n) /\ CostOf(n) <= best[c].cost
          /\ best[c] = [cost |-> best[c].cost, node |-> n]
      BY <1>1, <1>3, <1>5 DEF Noted
    <2>2. CostOf(n) \in 1..MaxCost
      BY <1>1, <2>1, CostOfIs DEF Noted
    <2>3. ~Better(CostOf(n), n, best[c])
      BY <1>4, <2>1 DEF Offer
    <2> HIDE DEF n
    <2>4. CostOf(n) = best[c].cost
      BY <2>1, <2>2, <2>3, MaxCostAssumption DEF Better
    <2> QED BY <2>1, <2>4 DEF Offer, n
  <1> QED BY <1>3, <1>4, <1>5 DEF CheapestChosen

\* A choice's rank: imported e-nodes first, then the order they were added in.
Rank(i) == IF imported[i] THEN i ELSE i + Len(nodes)

\* The operands of what was chosen were chosen at less cost, or, where costs saturate,
\* at lower rank.
LEMMA ChoiceDescends ==
  ASSUME Struct, Ordered, Sweeps, chosen, NEW c \in Classes, NEW d \in Operands(c)
  PROVE  /\ d \in Classes /\ best[c].cost \in Nat /\ best[d].cost \in Nat
         /\ Rank(best[c].node) \in Nat /\ Rank(best[d].node) \in Nat
         /\ \/ best[d].cost < best[c].cost
            \/ best[d].cost = best[c].cost /\ Rank(best[d].node) < Rank(best[c].node)
  <1>1. /\ Len(nodes) \in Nat /\ Ids = 1..Len(nodes) /\ rep \in [Ids -> Ids]
        /\ imported \in [Ids -> BOOLEAN]
        /\ \A e \in DOMAIN best : Noted(e)
    BY DEF Struct, TypeOK, Sweeps, Ids
  <1>2. /\ DOMAIN best = Classes
        /\ \A i \in Ids : ~Better(Offer(i).cost, i, best[rep[i]])
    BY ChosenCheapest DEF CheapestChosen
  <1> DEFINE n == best[c].node
  <1>3. PICK k \in DOMAIN nodes[n].kids : d = rep[nodes[n].kids[k]]
    BY DEF Operands
  <1> DEFINE kid == nodes[n].kids[k]
  <1>4. n \in Ids /\ rep[n] = c /\ Costed(n) /\ best[c].cost = CostOf(n) /\ CostOf(n) \in 1..MaxCost
    <2>1. n \in Ids /\ rep[n] = c /\ Costed(n)
      BY <1>1, <1>2 DEF Noted
    <2>2. CostOf(n) \in 1..MaxCost
      BY <1>1, <2>1, CostOfIs DEF Noted
    <2>3. Offer(n) = best[c]
      BY ChosenCheapest DEF CheapestChosen
    <2> QED BY <2>1, <2>2, <2>3 DEF Offer
  <1>5. kid \in Ids /\ kid < n /\ (best[d].cost < CostOf(n) \/ CostOf(n) = MaxCost)
    BY <1>1, <1>3, <1>4, CostOfIs DEF Noted
  <1>6. d \in Classes /\ best[d].cost \in 1..MaxCost /\ best[d].node \in Ids
    <2>1. d \in Classes
      BY <1>3, <1>5 DEF Classes
    <2> QED BY <1>1, <1>2, <2>1 DEF Noted
  <1> DEFINE b == best[d].node
  <1>7. \A i \in Ids : Rank(i) \in Nat
    BY <1>1 DEF Rank
  <1>8. ASSUME best[d].cost = MaxCost PROVE Rank(b) < Rank(n)
    <2>1. Costed(kid) /\ CostOf(kid) \in 1..MaxCost
      <3>1. \A m \in DOMAIN nodes[kid].kids : nodes[kid].kids[m] \in Ids
        BY <1>5, KidsAre
      <3>2. Costed(kid)
        BY <1>2, <3>1 DEF Costed, Classes
      <3> QED BY <1>1, <1>5, <3>2, CostOfIs DEF Noted
    <2>2. ~Better(CostOf(kid), kid, best[d])
      BY <1>2, <1>3, <1>5 DEF Offer
    <2>3. CostOf(kid) = MaxCost /\ ~Prefer(kid, b)
      BY <1>8, <2>1, <2>2, MaxCostAssumption DEF Better
    <2>4. imported[kid] \/ ~imported[n]
      BY <1>4, <1>5 DEF Ordered
    <2> HIDE DEF b, n, kid
    <2>5. b \in Ids /\ n \in Ids /\ kid \in Ids /\ kid < n
      BY <1>4, <1>5, <1>6 DEF b
    <2>6. b \in 1..Len(nodes) /\ n \in 1..Len(nodes) /\ kid \in 1..Len(nodes)
      BY <1>1, <2>5
    <2>7. CASE imported[kid]
      <3>1. imported[b]
        BY <2>3, <2>7 DEF Prefer
      <3>2. imported[kid] = imported[b]
        BY <1>1, <2>5, <2>7, <3>1
      <3>3. ~(kid < b)
        BY <2>3, <3>2 DEF Prefer
      <3> QED BY <1>1, <2>5, <2>6, <3>1, <3>3 DEF Rank
    <2>8. CASE ~imported[kid]
      <3>1. ~imported[n] /\ (imported[b] \/ b <= kid)
        BY <1>1, <2>3, <2>4, <2>5, <2>6, <2>8 DEF Prefer
      <3> QED BY <1>1, <2>5, <2>6, <3>1 DEF Rank
    <2> QED BY <2>7, <2>8
  <1>9. best[d].cost < best[c].cost \/ (best[d].cost = best[c].cost /\ best[d].cost = MaxCost)
    BY <1>4, <1>5, <1>6, MaxCostAssumption
  <1> QED BY <1>4, <1>6, <1>7, <1>8, <1>9, MaxCostAssumption

\* So among any classes one has no operand among them: the cheapest, of lowest rank.
LEMMA ChosenAcyclic == Struct /\ Ordered /\ Sweeps => SelectionAcyclic
  <1> SUFFICES ASSUME Struct, Ordered, Sweeps, chosen, NEW S \in SUBSET Classes, S # {},
                      \A c \in S : Operands(c) \cap S # {}
               PROVE  FALSE
    BY DEF SelectionAcyclic
  <1> DEFINE costs == {best[c].cost : c \in S}
  <1>1. \A c \in S : best[c].cost \in Nat /\ Rank(best[c].node) \in Nat
    BY ChoiceDescends
  <1>2. PICK least \in costs : \A m \in costs : least <= m
    <2>1. costs \in SUBSET Nat /\ costs # {}
      BY <1>1
    <2> QED BY <2>1, LeastNat
  <1> DEFINE T == {c \in S : best[c].cost = least}
             ranks == {Rank(best[c].node) : c \in T}
  <1>3. PICK low \in ranks : \A m \in ranks : low <= m
    <2>1. ranks \in SUBSET Nat /\ ranks # {}
      BY <1>1, <1>2
    <2> QED BY <2>1, LeastNat
  <1>4. PICK c \in T : low = Rank(best[c].node)
    BY <1>3
  <1>5. PICK d \in S : d \in Operands(c)
    BY <1>4
  <1>6. /\ best[c].cost \in Nat /\ best[d].cost \in Nat
        /\ Rank(best[c].node) \in Nat /\ Rank(best[d].node) \in Nat
        /\ \/ best[d].cost < best[c].cost
           \/ best[d].cost = best[c].cost /\ Rank(best[d].node) < Rank(best[c].node)
    BY <1>4, <1>5, ChoiceDescends
  <1>7. best[c].cost <= best[d].cost
    BY <1>2, <1>4, <1>5
  <1>8. d \in T
    BY <1>4, <1>5, <1>6, <1>7
  <1>9. Rank(best[c].node) <= Rank(best[d].node)
    BY <1>3, <1>4, <1>8
  <1> QED BY <1>6, <1>7, <1>9

-----------------------------------------------------------------------------
(* The theorems about a search that extracts. *)

\* The e-graph keeps its invariant before and while a term is extracted.
LEMMA SearchInvariance == SpecX => [](Struct /\ Sound /\ Owing /\ Ordered /\ Sweeps)
  <1>1. InitX => Struct /\ Sound /\ Owing /\ Ordered /\ Sweeps
    <2> SUFFICES ASSUME InitX PROVE Struct /\ Sound /\ Owing /\ Ordered /\ Sweeps
      OBVIOUS
    <2>1. Init
      BY DEF InitX
    <2>2. Ids = {} /\ Len(nodes) = 0
      BY <2>1 DEF Init, Ids
    <2>3. Ordered
      BY <2>2 DEF Ordered
    <2>4. DOMAIN best = {} /\ at = 0 /\ changed = FALSE /\ chosen = FALSE
      BY DEF InitX
    <2>5. Sweeps
      <3>1. at \in 0..(Len(nodes) + 1) /\ Len(nodes) + 1 \in Nat
        BY <2>2, <2>4
      <3>2. changed \in BOOLEAN /\ chosen \in BOOLEAN
        BY <2>4
      <3> QED BY <2>2, <2>4, <3>1, <3>2 DEF Sweeps
    <2> QED BY <2>1, <2>3, <2>5, StructInit, SoundInit, OwingInit
  <1>2. Struct /\ Sound /\ Owing /\ Ordered /\ Sweeps /\ [NextX]_varsX =>
           Struct' /\ Sound' /\ Owing' /\ Ordered' /\ Sweeps'
    <2> SUFFICES ASSUME Struct, Sound, Owing, Ordered, Sweeps, [NextX]_varsX
                 PROVE  Struct' /\ Sound' /\ Owing' /\ Ordered' /\ Sweeps'
      OBVIOUS
    <2>1. [Next]_vars
      BY DEF NextX, Search, StartExtract, Extraction, Weigh, EndSweep, varsX
    <2>2. Struct' /\ Sound' /\ Owing' /\ Ordered'
      BY <2>1, StepKeeps, OwingKept, OrderKept
    <2> QED BY <2>2, SweepsKept
  <1> QED BY <1>1, <1>2, PTL DEF SpecX

\* The choice of a term (extract.rs, the sweeps until one changes nothing) is right for every
\* graph a search can reach, cyclic classes included, and wherever costs saturate: each class has
\* its cheapest e-node at present costs, and following the choices ends.
THEOREM SelectionAlwaysRight == SpecX => []SelectionRight
  <1>1. Struct /\ Ordered /\ Sweeps => SelectionRight
    BY ChosenCheapest, ChosenAcyclic DEF SelectionRight
  <1> QED BY <1>1, SearchInvariance, PTL

\* Classes stay sound in a search that ends in extraction, as the run checks.
THEOREM SoundMergesInSearch == SpecX => []SoundMerges
  <1>1. Struct /\ Sound => SoundMerges
    BY SoundIs
  <1> QED BY <1>1, SearchInvariance, PTL

\* So does a graph that is rebuilt stay closed.
THEOREM RebuiltClosedInSearch == SpecX => []RebuiltClosed
  <1>1. Struct /\ Owing => RebuiltClosed
    BY OwingCloses
  <1> QED BY <1>1, SearchInvariance, PTL
=============================================================================
