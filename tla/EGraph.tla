------------------------------- MODULE EGraph -------------------------------
(* The e-graph of equality saturation (eqsat/egraph.rs).                      *)
(*                                                                            *)
(* A class is born with its first e-node and keeps that node's index: the     *)
(* code pushes to `nodes', `node_class', `uf' and `classes' together, so      *)
(* node_class[i] = i always and one set of ids serves for both.               *)
(*                                                                            *)
(* What is abstracted: `uf' is kept as rep, the answer of `find' (path        *)
(* compression changes no answer); the parents of a class and the worklist    *)
(* are sets, taken in any order (the code's vectors take one of them; an      *)
(* e-node entered twice is repaired twice there, which the repairs of its     *)
(* operands' classes do anyway when the first left anything to do); a class's *)
(* constant is the set of at most one value.                                  *)
EXTENDS Integers, Sequences, FiniteSets

CONSTANTS
    Leaves,      \* symbols and opaque atoms
    Values,      \* bit vectors
    UnOps,
    BinOps,
    Commutative, \* operators whose operands are sorted
    UnTable,     \* what a unary operator does to a value
    BinTable,    \* what a binary operator does to two values
    Imports,     \* the roots to import: sequences of e-nodes, operands first
    MaxENodes,   \* bound: e-nodes of a graph identities add to
    MaxChanges   \* bound: e-nodes they add and unions they ask for

ASSUME OperatorsAssumption ==
    /\ Commutative \subseteq BinOps
    /\ UnTable \in [UnOps -> [Values -> Values]]
    /\ BinTable \in [BinOps -> [Values \X Values -> Values]]
    /\ \A o \in Commutative, x, y \in Values :
          BinTable[o][<<x, y>>] = BinTable[o][<<y, x>>]

(* An e-node: an operator over classes. *)
Const(v)   == [kind |-> "const", op |-> v, kids |-> <<>>]
Leaf(x)    == [kind |-> "leaf", op |-> x, kids |-> <<>>]
Un(o, a)   == [kind |-> "un", op |-> o, kids |-> <<a>>]
Bin(o, a, b) == [kind |-> "bin", op |-> o, kids |-> <<a, b>>]

ENodes(S) ==
    {Const(v) : v \in Values} \cup {Leaf(x) : x \in Leaves}
        \cup {Un(o, a) : o \in UnOps, a \in S}
        \cup {Bin(o, a, b) : o \in BinOps, a, b \in S}

\* A root is imported operands first.
ASSUME ImportsAssumption ==
    \A root \in Imports :
        /\ Len(root) \in Nat
        /\ \A i \in 1..Len(root) : root[i] \in ENodes(1..(i - 1))

VARIABLES
    nodes,    \* the e-nodes, as last made canonical
    imported, \* whether an e-node came from the expression
    rep,      \* the canonical class of a class
    parents,  \* e-nodes with an operand in the class
    konst,    \* the constant of a class, if known
    memo,     \* canonical e-nodes to their index
    pending,  \* classes whose parents are to be repaired
    todo,     \* parents of `cur' not repaired yet
    kept,     \* parents of `cur' repaired
    cur,      \* the class being repaired; 0 for none
    phase,    \* "import", "apply", "rebuild" or "contract" (two constants met)
    added,    \* history: each e-node as it was added
    asked     \* history: the unions identities asked for

vars == <<nodes, imported, rep, parents, konst, memo, pending, todo, kept, cur,
          phase, added, asked>>

Ids == DOMAIN nodes

\* (Operators said to be an error are plausible mistakes in the definition after
\* them; each shows that a property notices it.)

\* An error: the operands of every operator sorted.
SortedCanon(n, r) ==
    CASE n.kind = "un"  -> Un(n.op, r[n.kids[1]])
      [] n.kind = "bin" ->
            IF r[n.kids[2]] < r[n.kids[1]]
            THEN Bin(n.op, r[n.kids[2]], r[n.kids[1]])
            ELSE Bin(n.op, r[n.kids[1]], r[n.kids[2]])
      [] OTHER          -> n

\* Operands replaced by their canonical classes, a commutative operator's sorted.
CanonUnder(n, r) ==
    CASE n.kind = "un"  -> Un(n.op, r[n.kids[1]])
      [] n.kind = "bin" ->
            IF n.op \in Commutative /\ r[n.kids[2]] < r[n.kids[1]]
            THEN Bin(n.op, r[n.kids[2]], r[n.kids[1]])
            ELSE Bin(n.op, r[n.kids[1]], r[n.kids[2]])
      [] OTHER          -> n
Canon(n) == CanonUnder(n, rep)

\* The value an e-node folds to when its operands' constants are known.
Fold(n, r, k) ==
    CASE n.kind = "const" -> {n.op}
      [] n.kind = "leaf"  -> {}
      [] n.kind = "un"    -> {UnTable[n.op][x] : x \in k[r[n.kids[1]]]}
      [] n.kind = "bin"   -> {BinTable[n.op][p] : p \in k[r[n.kids[1]]]
                                                      \X k[r[n.kids[2]]]}

Init ==
    /\ nodes = <<>> /\ imported = <<>> /\ rep = <<>>
    /\ parents = <<>> /\ konst = <<>>
    /\ memo = [n \in {} |-> 0]
    /\ pending = {} /\ todo = {} /\ kept = {} /\ cur = 0
    /\ phase = "import"
    /\ added = <<>> /\ asked = {}

\* An error: the old key of an e-node is left in the hash-cons.
ForgetNothing(m, n) == m
Forget(m, n) == [x \in DOMAIN m \ {n} |-> m[x]]
Recall(m, n, i) == [x \in DOMAIN m \cup {n} |-> IF x = n THEN i ELSE m[x]]

\* The code's `add' of an e-node nobody has: a new class with its constant, known
\* to its operands as a parent.
Add(e, imp) ==
    LET n  == Canon(e)
        id == Len(nodes) + 1
    IN  /\ n \notin DOMAIN memo
        /\ nodes' = Append(nodes, n)
        /\ imported' = Append(imported, imp)
        /\ rep' = Append(rep, id)
        /\ konst' = Append(konst, Fold(n, rep, konst))
        /\ parents' = Append([c \in Ids |-> IF \E i \in DOMAIN n.kids : n.kids[i] = c
                                            THEN parents[c] \cup {id}
                                            ELSE parents[c]], {})
        /\ memo' = Recall(memo, n, id)
        /\ added' = Append(added, e)
        /\ UNCHANGED <<pending, todo, kept, cur, asked>>

\* Importing a root, operands first: Imports gives the e-nodes over the ids the
\* earlier ones received.
Import ==
    /\ phase = "import"
    /\ \E root \in Imports :
          /\ Len(nodes) < Len(root)
          /\ added = SubSeq(root, 1, Len(nodes))
          /\ Add(root[Len(nodes) + 1], TRUE)
    /\ UNCHANGED phase

Imported ==
    /\ phase = "import"
    /\ added \in Imports
    /\ phase' = "apply"
    /\ UNCHANGED <<nodes, imported, rep, parents, konst, memo, pending, todo, kept,
                   cur, added, asked>>

MoreChanges == Cardinality(asked) + Cardinality({i \in Ids : ~imported[i]}) < MaxChanges

\* An identity's other side is built while earlier unions wait for their rebuild.
Instantiate ==
    /\ phase = "apply"
    /\ Len(nodes) < MaxENodes /\ MoreChanges
    /\ \E n \in ENodes(Ids) : n.kind # "leaf" /\ Add(n, FALSE)
    /\ UNCHANGED phase

\* Two classes become one, kept under the lower id, as the code's `union' does; r
\* and k are the classes and constants before it.
Lower(a, b, r) == IF r[a] < r[b] THEN r[a] ELSE r[b]
Higher(a, b, r) == IF r[a] < r[b] THEN r[b] ELSE r[a]
RepAfter(a, b, r) ==
    [i \in DOMAIN r |-> IF r[i] = Higher(a, b, r) THEN Lower(a, b, r) ELSE r[i]]
KonstAfter(a, b, r, k) ==
    [k EXCEPT ![Lower(a, b, r)] = @ \cup k[Higher(a, b, r)],
              ![Higher(a, b, r)] = {}]
ParentsAfter(a, b, r, p) ==
    [p EXCEPT ![Lower(a, b, r)] = @ \cup p[Higher(a, b, r)],
              ![Higher(a, b, r)] = {}]
Conflict(a, b, r, k) == \E v \in k[r[a]], w \in k[r[b]] : v # w

\* Two different constants met: the search reports a contract violation and drops
\* the graph.
Abandon ==
    /\ phase' = "contract"
    /\ UNCHANGED <<nodes, imported, rep, parents, konst, memo, pending, todo, kept,
                   cur, added>>

UniteClasses(a, b) ==
    IF Conflict(a, b, rep, konst)
    THEN Abandon
    ELSE /\ rep' = RepAfter(a, b, rep)
         /\ konst' = KonstAfter(a, b, rep, konst)
         /\ parents' = ParentsAfter(a, b, rep, parents)
         /\ pending' = pending \cup {Lower(a, b, rep)}
         /\ UNCHANGED <<nodes, imported, memo, todo, kept, cur, phase, added>>

\* An identity's two sides are united (the order they are given in does not matter).
Unite ==
    /\ phase = "apply"
    /\ MoreChanges
    /\ \E a, b \in Ids :
          /\ a < b /\ rep[a] # rep[b]
          /\ asked' = asked \cup {<<a, b>>}
          /\ UniteClasses(a, b)

StartRebuild ==
    /\ phase = "apply"
    /\ pending # {}
    /\ phase' = "rebuild"
    /\ UNCHANGED <<nodes, imported, rep, parents, konst, memo, pending, todo, kept,
                   cur, added, asked>>

\* The next class of the worklist; its parents are taken out while they are repaired.
TakeClass ==
    /\ phase = "rebuild" /\ cur = 0
    /\ \E c \in pending :
          /\ pending' = pending \ {c}
          /\ cur' = rep[c]
          /\ todo' = parents[rep[c]]
          /\ parents' = [parents EXCEPT ![rep[c]] = {}]
    /\ kept' = {}
    /\ UNCHANGED <<nodes, imported, rep, konst, memo, phase, added, asked>>

\* A constant p folds to that its class did not know, and the class whose parents
\* are to be visited for it.
\* An error: revisited whenever its constant is folded again.
FoldedAgain(p, n, r, k) == Fold(n, r, k)
Folded(p, n, r, k) == Fold(n, r, k) \ k[r[p]]
\* An error: a class that learnt its constant does not tell its parents.
RequeueNothing(c, new) == {}
Requeue(c, new) == IF new # {} THEN {c} ELSE {}

\* The e-node the hash-cons has under p's new canonical form, if not p.
\* An error: p takes its place.
NoTwin(p, n, m) == p
Twin(p, n, m) == IF n \in DOMAIN m THEN m[n] ELSE p

\* One parent is made canonical: its old key forgotten, a congruent e-node's class
\* united with its own, its constant folded.
RepairParent(p) ==
    LET old  == nodes[p]
        rest == IF old \in DOMAIN memo /\ memo[old] = p THEN Forget(memo, old) ELSE memo
        n    == Canon(old)
        q    == Twin(p, n, rest)
        differ == rep[p] # rep[q]
        r1   == IF differ THEN RepAfter(p, q, rep) ELSE rep
        k1   == IF differ THEN KonstAfter(p, q, rep, konst) ELSE konst
        new  == Folded(p, n, r1, k1)
    IN  IF \/ differ /\ Conflict(p, q, rep, konst)
           \/ \E v \in k1[r1[p]], w \in new : v # w
        THEN Abandon
        ELSE /\ nodes' = [nodes EXCEPT ![p] = n]
             /\ memo' = Recall(rest, n, q)
             /\ rep' = r1
             /\ konst' = [k1 EXCEPT ![r1[p]] = @ \cup new]
             /\ parents' = IF differ THEN ParentsAfter(p, q, rep, parents) ELSE parents
             /\ pending' = pending
                   \cup (IF differ THEN {Lower(p, q, rep)} ELSE {})
                   \cup Requeue(r1[p], new)
             /\ todo' = todo \ {p}
             /\ kept' = kept \cup {p}
             /\ UNCHANGED <<imported, cur, phase, added>>
Repair ==
    /\ phase = "rebuild" /\ cur # 0
    /\ \E p \in todo : RepairParent(p)
    /\ UNCHANGED asked

\* The repaired parents go to the class that holds them now.
PutBack ==
    /\ phase = "rebuild" /\ cur # 0 /\ todo = {}
    /\ parents' = [parents EXCEPT ![rep[cur]] = @ \cup kept]
    /\ cur' = 0
    /\ kept' = {}
    /\ UNCHANGED <<nodes, imported, rep, konst, memo, pending, todo, phase, added, asked>>

Rebuilt ==
    /\ phase = "rebuild" /\ cur = 0 /\ pending = {}
    /\ phase' = "apply"
    /\ UNCHANGED <<nodes, imported, rep, parents, konst, memo, pending, todo, kept,
                   cur, added, asked>>

Rebuild == TakeClass \/ Repair \/ PutBack \/ Rebuilt

Next ==
    \/ Import \/ Imported \/ Instantiate \/ Unite \/ StartRebuild
    \/ Rebuild

Spec == Init /\ [][Next]_vars /\ WF_vars(Rebuild)

(* Properties. *)

Classes == {rep[i] : i \in Ids}
\* Nothing waits for repair: as matching and extraction see the graph.
Clean == phase = "apply" /\ pending = {}

TypeOK ==
    LET N == Len(nodes)
    IN  /\ nodes \in [1..N -> ENodes(1..N)] /\ added \in [1..N -> ENodes(1..N)]
        /\ imported \in [1..N -> BOOLEAN]
        /\ rep \in [1..N -> 1..N]
        /\ parents \in [1..N -> SUBSET (1..N)]
        /\ konst \in [1..N -> SUBSET Values]
        /\ \A c \in 1..N : \A v, w \in konst[c] : v = w /\ rep[c] = c
        /\ DOMAIN memo \subseteq ENodes(1..N) /\ \A n \in DOMAIN memo : memo[n] \in 1..N
        /\ pending \subseteq 1..N /\ todo \subseteq 1..N /\ kept \subseteq 1..N
        /\ cur \in 0..N
        /\ phase \in {"import", "apply", "rebuild", "contract"}
        /\ asked \subseteq (1..N) \X (1..N)

\* What an e-node is worth when its operands are worth val.
Worth(n, val) ==
    CASE n.kind = "const" -> n.op
      [] n.kind = "un"    -> UnTable[n.op][val[n.kids[1]]]
      [] n.kind = "bin"   -> BinTable[n.op][<<val[n.kids[1]], val[n.kids[2]]>>]

\* val gives every e-node a value that respects the operators (a leaf's is free) and
\* every equation the identities asked for.
Models(val) ==
    /\ \A i \in Ids : added[i].kind # "leaf" => val[i] = Worth(added[i], val)
    /\ \A e \in asked : val[e[1]] = val[e[2]]

\* Classes only ever hold equal terms: at any moment, rebuilding or not, where the
\* asked equations hold, the members of a class are equal, its constant is their
\* value, and a contract violation (two constants in a class) is reported only if
\* the asked equations hold nowhere: only an unsound identity causes it.
SoundMerges ==
    \A val \in [Ids -> Values] :
        Models(val) =>
            /\ phase # "contract"
            /\ \A i \in Ids : /\ val[rep[i]] = val[i]
                              /\ \A v \in konst[rep[i]] : val[i] = v

\* After a rebuild no two classes hold the same operator over the same operands, and
\* what was asked to be equal is: the deferred repairs reach everything.
CongruenceClosed ==
    Clean =>
        /\ \A i, j \in Ids : Canon(added[i]) = Canon(added[j]) => rep[i] = rep[j]
        /\ \A e \in asked : rep[e[1]] = rep[e[2]]

\* After a rebuild the hash-cons finds every e-node under its canonical form, in its
\* class, and holds no other key: adding a known term never makes a second class.
HashConsExact ==
    Clean =>
        /\ DOMAIN memo = {Canon(added[i]) : i \in Ids}
        /\ \A i \in Ids : /\ nodes[i] = Canon(added[i])
                          /\ rep[memo[nodes[i]]] = rep[i]

\* After a rebuild a class knows the constant every one of its e-nodes folds to, the
\* constants learnt by the rebuild itself included.
ConstantsFolded ==
    Clean => \A i \in Ids : Fold(nodes[i], rep, konst) \subseteq konst[rep[i]]

\* What rebuilding promises to matching and to extraction: the deferred repairs
\* are all done.
RebuiltClosed == CongruenceClosed /\ ConstantsFolded /\ HashConsExact

\* A rebuild that started ends, repaired or with a contract violation: the constants
\* and unions it adds to its own worklist run out.
RebuildEnds == phase = "rebuild" ~> phase # "rebuild"
=============================================================================
