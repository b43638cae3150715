---------------------------- MODULE Constraints ----------------------------
(* Facts about expressions, and the constraints a host assumes of them         *)
(* (facts/mod.rs, facts/constraint.rs, Context::declare_known): the cache of   *)
(* facts per node, the sets of assumptions with what propagating them derived, *)
(* the overlay of facts under the set asked about last, and the declarations   *)
(* all of it rests on. Whatever is derived is recorded with the constraints it *)
(* relies on.                                                                  *)
(*                                                                             *)
(* A fact is a set of values; `Shapes' are those the code's facts (known bits, *)
(* ranges) can tell apart. Transfer and backward functions are the best ones   *)
(* for these shapes; where a transfer reads base facts of other nodes than its *)
(* operands, it does so here too, if these are cached when it runs.            *)
EXTENDS Integers, FiniteSets, SequencesExt

CONSTANTS
    Graphs,         \* what a context may hold: nodes in order, operands first
    Apply(_, _),    \* the value of an operator that is no comparison
    Shapes,         \* sets of values facts describe, and their intersections
    Known,          \* what can be declared of a symbol, besides nothing
    Premises(_),    \* the constraints a host may assume over a graph
    Questions(_),   \* the nodes of a graph it asks about
    Hosts,          \* the host's names for its sets of assumptions
    FactWork,       \* transfers a query may run
    Caps,           \* what a caller may allow instead
    Steps,          \* requirements a propagation may look at
    Rounds,         \* sweeps of a propagation
    MaxCalls        \* calls of the host, in this model

ASSUME CapsAssumption ==
    /\ FactWork \in Nat \ {0} /\ Caps \subseteq Nat
    /\ Steps \in Nat /\ Rounds \in Nat /\ MaxCalls \in Nat

VARIABLES
    graph,      \* the nodes of the context
    tag,        \* its generation: handles of an earlier one are refused
    declared,   \* the values each declared symbol may have
    revision,   \* how often a declaration changed
    facts,      \* the cache: base facts, what is left of a capped query, the overlay and its key
    sets,       \* the host's sets of assumptions
    call,       \* the call in progress
    store,      \* the set it works on
    todo,       \* the constraints still to add to that set
    work,       \* the requirements of the propagation, the next one last
    mine,       \* its own overlay
    changed,    \* nodes changed since the last sweep began
    swept,      \* those the present sweep goes by
    queue,      \* the entries it has still to visit
    running,    \* whether a propagation runs
    steps, rounds, learned,
    answer,     \* of the last question under assumptions
    calls

contextVars == <<graph, tag, declared, revision>>
runVars == <<work, mine, changed, swept, queue, running, steps, rounds, learned>>
vars == <<contextVars, facts, sets, call, store, todo, runVars, answer, calls>>

-----------------------------------------------------------------------------
(* Nodes and values. *)

Sym(s, w)      == [op |-> "sym", sym |-> s, val |-> 0, kids |-> <<>>, width |-> w]
Con(v, w)      == [op |-> "const", sym |-> "", val |-> v, kids |-> <<>>, width |-> w]
Oper(o, ks, w) == [op |-> o, sym |-> "", val |-> 0, kids |-> ks, width |-> w]

Nodes    == DOMAIN graph
Top(n)   == 0 .. 2 ^ graph[n].width - 1
Kids(n)  == ToSet(graph[n].kids)
Lesser(m, n) == IF m < n THEN m ELSE n
Empty    == [i \in {} |-> 0]
Put(f, i, v) == [j \in DOMAIN f \cup {i} |-> IF j = i THEN v ELSE f[j]]
Only(f, S)   == [j \in DOMAIN f \cap S |-> f[j]]
Ascending(S) == SelectSeq([i \in Nodes |-> i], LAMBDA i : i \in S)

\* A walk from n by way of operands in S: what it goes past, operands first, after the
\* nodes it has been at already.
RECURSIVE PostOrder(_, _, _)
PostOrder(before, n, S) ==
    IF n \in ToSet(before) THEN before
    ELSE Append(FoldLeft(LAMBDA acc, k : IF k \in S THEN PostOrder(acc, k, S) ELSE acc,
                         before, graph[n].kids), n)
\* The nodes n is made of.
Below(n) == ToSet(PostOrder(<<>>, n, Nodes))

\* How two values can be ordered: unsigned, then signed.
Orders == {"ltlt", "ltgt", "gtlt", "gtgt", "eq"}
CmpOps == {"eq", "ne", "ult", "ule", "slt", "sle"}
Holding(op) ==
    CASE op = "eq"  -> {"eq"}
      [] op = "ne"  -> Orders \ {"eq"}
      [] op = "ult" -> {"ltlt", "ltgt"}
      [] op = "ule" -> {"ltlt", "ltgt", "eq"}
      [] op = "slt" -> {"ltlt", "gtlt"}
      [] op = "sle" -> {"ltlt", "gtlt", "eq"}
Swap(o) ==
    CASE o = "ltlt" -> "gtgt" [] o = "gtgt" -> "ltlt"
      [] o = "ltgt" -> "gtlt" [] o = "gtlt" -> "ltgt" [] OTHER -> "eq"
Swapped(m) == {Swap(o) : o \in m}

Signed(v, w) == IF 2 * v < 2 ^ w THEN v ELSE v - 2 ^ w
Order(a, b, w) ==
    CASE a = b -> "eq"
      [] a < b /\ Signed(a, w) < Signed(b, w) -> "ltlt"
      [] a < b /\ Signed(a, w) > Signed(b, w) -> "ltgt"
      [] a > b /\ Signed(a, w) < Signed(b, w) -> "gtlt"
      [] OTHER -> "gtgt"

\* The value of node n of graph g whose operands have the values v.
ValueIn(g, n, v) ==
    CASE g[n].op = "const" -> g[n].val
      [] g[n].op \in CmpOps ->
           IF Order(v[1], v[2], g[g[n].kids[1]].width) \in Holding(g[n].op) THEN 1 ELSE 0
      [] OTHER -> Apply(g[n].op, v)
ValueOf(n, v) == ValueIn(graph, n, v)

\* The least fact that allows all values of S.
Hull(n, S) == {v \in Top(n) : \A F \in Shapes : S \subseteq F => v \in F}

\* The operands' values the facts fs allow.
Operands(fs) == {v \in [DOMAIN fs -> UNION {fs[k] : k \in DOMAIN fs}] :
                    \A k \in DOMAIN fs : v[k] \in fs[k]}

\* What is declared of symbol n.
Declared(n) == IF graph[n].sym \in DOMAIN declared THEN declared[graph[n].sym] ELSE Top(n)

\* What operand k may be, given that the node has a value in r.
Narrowed(n, r, fs, k) ==
    fs[k] \cap Hull(graph[n].kids[k], {v[k] : v \in {u \in Operands(fs) : ValueOf(n, u) \in r}})
Possible(n, r, fs) == \E v \in Operands(fs) : ValueOf(n, v) \in r

-----------------------------------------------------------------------------
(* Transfers. Three of them look past the operands, at what these are made of; *)
(* for the facts of that they take base facts (cached), and only those cached  *)
(* already. What others gain from one operand being part of another (a sum of  *)
(* a value and itself, a square, a minimum) is left out: it reads no facts but *)
(* the operands'.                                                              *)

IsCon(n) == graph[n].op = "const"
\* Node n as an operation on a constant and something else (two would be folded).
WithConstant(n, op) ==
    IF graph[n].op # op THEN {}
    ELSE {[raw |-> graph[n].kids[3 - k], con |-> graph[graph[n].kids[k]].val] :
              k \in {j \in 1 .. 2 : IsCon(graph[n].kids[j])}}
ByConstant(n) == graph[n].op = "lshr" /\ IsCon(graph[n].kids[2])
By(n) == graph[graph[n].kids[2]].val
\* Adding con to n, a shift by a constant, does not wrap.
Fits(n, con) == ByConstant(n) /\ Max(Top(n)) \div 2 ^ By(n) + con \in Top(n)

\* Count n is positive in every world.
Positive(n, cached) ==
    \/ IsCon(n) /\ graph[n].val # 0
    \/ n \in DOMAIN cached /\ 0 \notin cached[n]
    \/ \E sum \in WithConstant(n, "add") : sum.con # 0 /\ Fits(sum.raw, sum.con)
\* Node n is source after at most that many right shifts, one of them by a positive count.
RECURSIVE ShiftOf(_, _, _, _, _)
ShiftOf(n, source, positive, cached, most) ==
    /\ most > 0 /\ graph[n].op = "lshr"
    /\ LET further == positive \/ Positive(graph[n].kids[2], cached)
       IN  IF graph[n].kids[1] = source THEN further
           ELSE ShiftOf(graph[n].kids[1], source, further, cached, most - 1)
\* A value and its shift differ in the highest bit the value has.
KeepsABit(n, fs, cached) ==
    \E k \in 1 .. 2 : /\ 0 \notin fs[k]
                      /\ ShiftOf(graph[n].kids[3 - k], graph[n].kids[k], FALSE, cached, 4)

\* The node below fewer than that many masks that change nothing; none if one may.
RECURSIVE Unmasked(_, _, _)
Unmasked(n, cached, most) ==
    CASE most = 0 -> {}
      [] most > 0 /\ graph[n].op # "and" -> {n}
      [] OTHER -> UNION {Unmasked(m.raw, cached, most - 1) :
                            m \in {p \in WithConstant(n, "and") :
                                      /\ p.raw \in DOMAIN cached
                                      /\ \A v \in cached[p.raw] : Apply("and", <<v, p.con>>) = v}}
\* Count n as a shift by a constant, plus an offset.
Counts(n, cached) ==
    LET inner == Unmasked(n, cached, 4)
        sums == UNION {WithConstant(c, "add") : c \in inner}
    IN  {[shift |-> c, offset |-> 0] : c \in {d \in inner : ByConstant(d)}}
        \cup UNION {{[shift |-> c, offset |-> s.con] : c \in {d \in Unmasked(s.raw, cached, 4) : Fits(d, s.con)}} :
                        s \in sums}
\* How far node n is shifted from source, by a constant.
ShiftsFrom(n, source) ==
    CASE n = source -> {0}
      [] n # source /\ ByConstant(n) -> IF graph[n].kids[1] = source THEN {By(n)} ELSE {}
      [] OTHER -> {}
\* What a value shifted by its own top bits can be.
SelfShifted(n, fs, cached) ==
    UNION {UNION {{v[1] \div 2 ^ v[2] :
                      v \in {u \in Operands(fs) : u[2] = u[1] \div 2 ^ (By(c.shift) - j) + c.offset}} :
                    j \in {i \in ShiftsFrom(graph[n].kids[1], graph[c.shift].kids[1]) :
                              i <= By(c.shift) /\ By(c.shift) < graph[n].width}} :
              c \in Counts(graph[n].kids[2], cached)}

\* The halves of a product put together are the product.
Products(n, cached) ==
    LET hi == graph[graph[n].kids[1]]  lo == graph[graph[n].kids[2]]
        Times(u, v) == IF hi.op = "umulhi" THEN u * v
                       ELSE (Signed(u, lo.width) * Signed(v, lo.width)) % 2 ^ graph[n].width
    IN  IF lo.op = "mul" /\ hi.kids = lo.kids /\ hi.op \in {"umulhi", "smulhi"} /\ ToSet(lo.kids) \subseteq DOMAIN cached
        THEN {Times(u, v) : u \in cached[lo.kids[1]], v \in cached[lo.kids[2]]} ELSE {}

\* The values that leaves node n; none if there is nothing to say.
Further(n, fs, cached) ==
    CASE graph[n].op = "xor" -> IF KeepsABit(n, fs, cached) THEN Top(n) \ {0} ELSE {}
      [] graph[n].op = "lshr" -> SelfShifted(n, fs, cached)
      [] graph[n].op = "concat" -> Products(n, cached)
      [] OTHER -> {}

\* The facts of node n from its operands' facts fs and the base facts cached.
Transfer(n, fs, cached) ==
    IF graph[n].op = "sym" THEN Declared(n)
    ELSE LET fact == Hull(n, {ValueOf(n, v) : v \in Operands(fs)})
             further == Further(n, fs, cached)
             both == fact \cap Hull(n, further)
         IN  IF further = {} \/ both = {} THEN fact ELSE both

-----------------------------------------------------------------------------
(* Base facts: computed bottom-up, at most cap of them; the rest waits to be   *)
(* resumed by the next query of the same root.                                 *)

Uncached(f, root) ==
    LET kept == {p \in f.pending : p.root = root}
        order == IF kept = {} THEN PostOrder(<<>>, root, Nodes \ DOMAIN f.base) ELSE (CHOOSE p \in kept : TRUE).rest
    IN  SelectSeq(order, LAMBDA i : i \notin DOMAIN f.base)

Computed(base, i) == Put(base, i, Transfer(i, [k \in DOMAIN graph[i].kids |-> base[graph[i].kids[k]]], base))

\* The cache after a query of root, and the transfers it ran.
Computing(f, root, order, n) ==
    [f |-> [f EXCEPT !.base = FoldLeft(Computed, @, SubSeq(order, 1, n)),
                     !.pending = IF n = Len(order) THEN {}
                                 ELSE {[root |-> root, rest |-> SubSeq(order, n + 1, Len(order))]}],
     ran |-> n]
Within(f, root, order, cap) == Computing(f, root, order, Lesser(cap, Len(order)))
BaseQuery(f, root, cap) ==
    IF root \in DOMAIN f.base \/ cap = 0 THEN [f |-> f, ran |-> 0]
    ELSE Within(f, root, Uncached(f, root), cap)

-----------------------------------------------------------------------------
(* A set of assumptions. Constraints are named by their position.              *)

NoNode == 1000  \* above every node

NoAssumptions ==
    [tag |-> 0, revision |-> 0, seeds |-> <<>>,
     order |-> <<>>, assumed |-> Empty,     \* entries, in the order first recorded
     relations |-> Empty, root |-> Empty,   \* orderings between classes, classes of equals
     conflict |-> {}, truncated |-> FALSE, min |-> NoNode]

Find(s, a) == IF a \in DOMAIN s.root THEN s.root[a] ELSE [to |-> a, rel |-> {}]
\* An error: the others of the class are forgotten.
Itself(s, a) == {a}
Members(s, a) == {a} \cup {x \in DOMAIN s.root : s.root[x].to = a}

\* The orderings assumed between a and b; all of them if none is.
Relation(s, a, b) ==
    LET fa == Find(s, a)  fb == Find(s, b)
        lo == Lesser(fa.to, fb.to)  hi == fa.to + fb.to - lo
    IN  CASE fa.to = fb.to ->
               [orders |-> IF a = b THEN Orders ELSE {"eq"}, rel |-> fa.rel \cup fb.rel]
          [] fa.to # fb.to /\ <<lo, hi>> \in DOMAIN s.relations ->
               LET known == s.relations[<<lo, hi>>]
               IN  [orders |-> IF lo = fa.to THEN known.orders ELSE Swapped(known.orders),
                    rel |-> known.rel \cup fa.rel \cup fb.rel]
          [] OTHER -> [orders |-> Orders, rel |-> {}]

\* The values of a comparison in those orderings.
Decided(op, orders) ==
    {v \in {0, 1} : \E o \in orders : v = 1 <=> o \in Holding(op)}

\* What is assumed of the operands of node n, if it compares them.
Assumed(s, n) ==
    IF graph[n].op \in CmpOps THEN Relation(s, graph[n].kids[1], graph[n].kids[2])
    ELSE [orders |-> Orders, rel |-> {}]

\* Facts of node i under the set, from its operands' facts with what they rely on;
\* no values at all is a contradiction.
Compared(own, below, ordered, decided) ==
    IF ordered.orders = Orders \/ Cardinality(decided) = 2 THEN [values |-> own, rel |-> below]
    ELSE [values |-> own \cap decided,
          rel |-> IF decided \subseteq own THEN ordered.rel ELSE below \cup ordered.rel]
Met(s, i, found) ==
    IF i \notin DOMAIN s.assumed \/ found.values = {} THEN found
    ELSE [values |-> found.values \cap s.assumed[i].values, rel |-> found.rel \cup s.assumed[i].rel]
Under(s, i, kids, cached) ==
    Met(s, i, Compared(Transfer(i, [k \in DOMAIN kids |-> kids[k].values], cached),
                       UNION {kids[k].rel : k \in DOMAIN kids},
                       Assumed(s, i), Decided(graph[i].op, Assumed(s, i).orders)))

\* Whether the set bears on node i.
Tainted(s, i, kids) ==
    \/ i \in DOMAIN s.assumed
    \/ Assumed(s, i).orders # Orders
    \/ \E k \in DOMAIN kids : kids[k].rel # {}

\* A walk over the nodes the set can bear on: w is the cache, the overlay, the
\* transfers run, and how the walk goes.
After(w, i, q) ==
    [w EXCEPT !.f = q.f, !.ran = @ + q.ran, !.end = IF i \in DOMAIN q.f.base THEN "on" ELSE "capped"]
NeedBase(w, i, cap) == IF w.end # "on" THEN w ELSE After(w, i, BaseQuery(w.f, i, cap - w.ran))
Based(w, i) == [values |-> w.f.base[i], rel |-> {}]

Keep(w, i, fact) == [w EXCEPT !.overlay = Put(@, i, fact)]
KeepBased(w, i) == IF w.end = "on" THEN Keep(w, i, Based(w, i)) ELSE w
KeepFound(w, i, found) ==
    IF found.values = {} THEN [w EXCEPT !.end = "conflict", !.rel = found.rel]
    ELSE [Keep(w, i, found) EXCEPT !.ran = @ + 1]
Decide(w, s, i, kids, cap) ==
    CASE ~Tainted(s, i, kids) -> KeepBased(NeedBase(w, i, cap), i)
      [] Tainted(s, i, kids) /\ w.ran >= cap -> [w EXCEPT !.end = "capped"]
      [] OTHER -> KeepFound(w, i, Under(s, i, kids, w.f.base))
KidOf(w, c) == IF c \in DOMAIN w.overlay THEN w.overlay[c] ELSE Based(w, c)
Visit(w, s, i, cap) ==
    IF w.end # "on" THEN w
    ELSE Decide(w, s, i, [k \in DOMAIN graph[i].kids |-> KidOf(w, graph[i].kids[k])], cap)
Look(w, s, i, cap) ==
    Visit(FoldLeft(LAMBDA acc, k : NeedBase(acc, k, cap), w,
                   SelectSeq(graph[i].kids, LAMBDA k : k \notin DOMAIN w.overlay)), s, i, cap)

\* Facts of root under the set, at most cap transfers: the answer, the cache and the
\* overlay after it. A walk cut short answers that anything is possible, and keeps none of that.
Answering(w, root, fact) ==
    w @@ [known |-> IF w.end = "on" THEN fact ELSE [values |-> Top(root), rel |-> {}]]
FromBase(w, root) == Answering(w, root, Based(w, root))
FromOverlay(w, root) == Answering(w, root, w.overlay[root])
Walk(f, overlay, s, root, cap) ==
    LET start == [f |-> f, overlay |-> overlay, ran |-> 0, end |-> "on", rel |-> {}]
        above == PostOrder(<<>>, root, (s.min .. root) \ DOMAIN overlay)
        bears == s.assumed # Empty \/ s.relations # Empty
    IN  CASE s.conflict # {} -> FromBase([start EXCEPT !.end = "conflict", !.rel = UNION s.conflict], root)
          [] s.conflict = {} /\ root \in DOMAIN overlay -> FromOverlay(start, root)
          [] s.conflict = {} /\ root \notin DOMAIN overlay /\ (~bears \/ root < s.min) ->
               FromBase(NeedBase(start, root, cap), root)
          [] OTHER -> FromOverlay(FoldLeft(LAMBDA acc, i : IF acc.end = "on" THEN Look(acc, s, i, cap) ELSE acc,
                                           start, above), root)

-----------------------------------------------------------------------------
(* Propagation of one constraint. x is what it works on: the cache, the set,   *)
(* its own overlay, the requirements waiting and the nodes changed.            *)

X == [f |-> facts, s |-> store, overlay |-> mine, work |-> work, changed |-> changed]
Become(x) == /\ facts' = x.f /\ store' = x.s /\ mine' = x.overlay
             /\ work' = x.work /\ changed' = x.changed

Failed(x) == x.s.conflict # {}
Fail(x, rel) == [x EXCEPT !.s.conflict = {rel \cup UNION @}, !.work = <<>>]

\* Facts of n under what is known so far.
Learnt(x, w) == IF w.end = "conflict" THEN Fail([x EXCEPT !.f = w.f, !.overlay = w.overlay], w.rel)
                ELSE [x EXCEPT !.f = w.f, !.overlay = w.overlay]
Fact(x, w) == [x |-> Learnt(x, w), values |-> w.known.values, rel |-> w.known.rel]
Current(x, n) ==
    IF graph[n].op = "const" THEN [x |-> x, values |-> {graph[n].val}, rel |-> {}]
    ELSE Fact(x, Walk(x.f, x.overlay, x.s, n, FactWork))

\* An error: the facts of n itself stay.
InvalidatedAbove(overlay, n) == Only(overlay, 1 .. n)
\* Facts of n and of what is made of it are out of date.
Invalidated(overlay, n) == Only(overlay, 1 .. n - 1)

Record(x, n, values, rel) ==
    [x EXCEPT !.s.order = IF n \in DOMAIN x.s.assumed THEN @ ELSE Append(@, n),
              !.s.assumed = Put(@, n, [values |-> values, rel |-> rel]),
              !.s.min = Lesser(@, n),
              !.overlay = Invalidated(@, n),
              !.changed = @ \cup {n}]

\* The classes of hi become one with those of lo, and the orderings of hi those of
\* lo. A merge this causes may move either class again: each ordering is placed by the
\* classes of the moment.
RECURSIVE Narrow(_, _, _, _, _)
Merge(x, lo, hi, rel) ==
    LET s == x.s
        moved == Members(s, hi)
        others == Ascending({k[1] + k[2] - hi : k \in {j \in DOMAIN s.relations : hi \in ToSet(j)}})
        key(other) == <<Lesser(hi, other), hi + other - Lesser(hi, other)>>
        merged == [x EXCEPT !.s.root = [n \in DOMAIN @ \cup moved |->
                                           IF n \in moved THEN [to |-> lo, rel |-> Find(s, n).rel \cup rel] ELSE @[n]],
                            !.s.relations = Only(@, {k \in DOMAIN @ : hi \notin ToSet(k)})]
        Place(y, other) ==
            LET known == s.relations[key(other)]
                seen == IF hi < other THEN known.orders ELSE Swapped(known.orders)
                a == Find(y.s, hi)  b == Find(y.s, other)
                why == known.rel \cup rel \cup a.rel \cup b.rel
            IN  CASE Failed(y) -> y
                  [] ~Failed(y) /\ a.to = b.to -> IF "eq" \in seen THEN y ELSE Fail(y, why)
                  [] ~Failed(y) /\ a.to < b.to -> Narrow(y, a.to, b.to, seen, why)
                  [] OTHER -> Narrow(y, b.to, a.to, Swapped(seen), why)
    IN  FoldLeft(Place, merged, others)

\* The orderings between the classes lo < hi are among m.
Narrow(x, lo, hi, m, rel) ==
    LET old == IF <<lo, hi>> \in DOMAIN x.s.relations THEN x.s.relations[<<lo, hi>>]
               ELSE [orders |-> Orders, rel |-> {}]
        new == old.orders \cap m
        why == rel \cup old.rel
        y == [x EXCEPT !.overlay = Invalidated(@, lo),
                       !.changed = @ \cup Members(x.s, lo) \cup Members(x.s, hi)]
    IN  CASE new = {} -> Fail(x, why)
          [] new = old.orders -> x
          [] new = {"eq"} /\ new # old.orders ->
               Merge([y EXCEPT !.s.relations = Only(@, DOMAIN @ \ {<<lo, hi>>})], lo, hi, why)
          [] OTHER -> [y EXCEPT !.s.relations = Put(@, <<lo, hi>>, [orders |-> new, rel |-> why])]

\* The comparison n has the value v.
Relate(x, n, v, rel) ==
    LET a == graph[n].kids[1]  b == graph[n].kids[2]
        fa == Find(x.s, a)  fb == Find(x.s, b)
        why == rel \cup fa.rel \cup fb.rel
        m == IF v = 1 THEN Holding(graph[n].op) ELSE Orders \ Holding(graph[n].op)
        y == [x EXCEPT !.s.min = Lesser(@, Lesser(a, b))]
    IN  CASE fa.to = fb.to -> IF "eq" \in m THEN x ELSE Fail(x, why)
          [] fa.to < fb.to -> Narrow(y, fa.to, fb.to, m, why)
          [] OTHER -> Narrow(y, fb.to, fa.to, Swapped(m), why)

\* What n's operands must satisfy, n having values in r; known is their facts.
WithFact(acc, now) ==
    [x |-> now.x, fs |-> Append(acc.fs, now.values), rel |-> acc.rel \cup now.rel]
Asks(n, r, known) ==
    LET narrower == SelectSeq([k \in DOMAIN graph[n].kids |-> k],
                              LAMBDA k : Narrowed(n, r, known.fs, k) # known.fs[k])
    IN  [j \in DOMAIN narrower |->
            [node |-> graph[n].kids[narrower[j]], values |-> Narrowed(n, r, known.fs, narrower[j]),
             rel |-> known.rel]]
Asked(x, asks) == IF Failed(x) THEN x ELSE [x EXCEPT !.work = @ \o asks]
Related(n, r, known) ==
    IF graph[n].op \in CmpOps /\ Cardinality(r) = 1
    THEN Relate(known.x, n, CHOOSE v \in r : TRUE, known.rel) ELSE known.x
Required(n, r, known) ==
    IF Failed(known.x) \/ ~Possible(n, r, known.fs) THEN Fail(known.x, known.rel)
    ELSE Asked(Related(n, r, known), Asks(n, r, known))
Backward(x, n, r, rel) ==
    IF graph[n].kids = <<>> THEN x
    ELSE Required(n, r, FoldLeft(LAMBDA acc, k : IF Failed(acc.x) THEN acc ELSE WithFact(acc, Current(acc.x, k)),
                                 [x |-> x, fs |-> <<>>, rel |-> rel], graph[n].kids))

-----------------------------------------------------------------------------
(* The context and the host. Everything runs on the caller's thread: a call in *)
(* progress ends before the next begins.                                       *)

NoCall == [kind |-> "none"]
NoFacts == [base |-> Empty, pending |-> {}, overlay |-> Empty, key |-> {}]

Init ==
    /\ graph \in Graphs /\ tag = 1 /\ declared = Empty /\ revision = 0
    /\ facts = NoFacts
    /\ sets = [h \in Hosts |-> NoAssumptions]
    /\ call = NoCall /\ store = NoAssumptions /\ todo = <<>>
    /\ work = <<>> /\ mine = Empty /\ changed = {} /\ swept = {} /\ queue = <<>>
    /\ running = FALSE /\ steps = 0 /\ rounds = 0 /\ learned = FALSE
    /\ answer = {} /\ calls = 0

Host ==
    /\ call = NoCall /\ calls < MaxCalls
    /\ calls' = calls + 1
    /\ answer' = {}
    /\ UNCHANGED runVars

\* An error: the overlay stays, its key looks as before.
DroppedBase(f) == [f EXCEPT !.base = Empty, !.pending = {}]
\* What declaring drops: every fact may rest on the old declaration.
Dropped(f) == NoFacts

\* known is the set of values declared; all of them withdraws the declaration.
Declare ==
    /\ Host
    /\ \E n \in Nodes, known \in Known \cup {{}} :
         /\ graph[n].op = "sym"
         /\ known \subseteq Top(n) /\ known # Top(n)
         /\ LET s == graph[n].sym
            IN  /\ declared' = IF known = {} THEN Only(declared, DOMAIN declared \ {s})
                               ELSE Put(declared, s, known)
                /\ declared' # declared
    /\ revision' = revision + 1
    /\ facts' = Dropped(facts)
    /\ UNCHANGED <<graph, tag, sets, call, store, todo>>

\* The context is emptied and built anew.
Clear ==
    /\ Host
    /\ graph' \in Graphs /\ tag' = tag + 1 /\ declared' = Empty /\ revision' = 0
    /\ facts' = NoFacts
    /\ UNCHANGED <<sets, call, store, todo>>

AskBase ==
    /\ Host
    /\ \E n \in Questions(graph), cap \in Caps \cup {FactWork} :
         facts' = BaseQuery(facts, n, Lesser(cap, FactWork)).f
    /\ UNCHANGED <<contextVars, sets, call, store, todo>>

Copy ==
    /\ Host
    /\ \E g, h \in Hosts : g # h /\ sets[g] # sets[h] /\ sets' = [sets EXCEPT ![h] = sets[g]]
    /\ UNCHANGED <<contextVars, facts, call, store, todo>>

\* A set of another generation is refused.
Belongs(s) == s.seeds = <<>> \/ s.tag = tag

\* Whether a set was propagated under the present declarations.
Fresh(s) == s.seeds = <<>> \/ s.revision = revision

\* The call takes the set as it is; or as the overlay's key has it; or propagates its
\* constraints anew.
Begin(c) ==
    LET s == sets[c.set]
        kept == {k \in facts.key : k.revision = revision /\ k.seeds = s.seeds}
    IN  /\ Host /\ Belongs(s)
        /\ \/ /\ Fresh(s)
              /\ store' = s /\ todo' = <<>> /\ call' = c @@ [from |-> "itself"]
           \/ /\ ~Fresh(s) /\ kept # {}
              /\ store' = (CHOOSE k \in kept : TRUE) /\ todo' = <<>> /\ call' = c @@ [from |-> "key"]
           \/ /\ ~Fresh(s) /\ kept = {}
              /\ store' = NoAssumptions /\ todo' = s.seeds /\ call' = c @@ [from |-> "seeds"]
        /\ UNCHANGED <<contextVars, facts, sets>>

BeginAssume == \E h \in Hosts : \E p \in Premises(graph) : Begin([kind |-> "assume", set |-> h, seed |-> p])
BeginRefresh == \E h \in Hosts : ~Fresh(sets[h]) /\ Begin([kind |-> "refresh", set |-> h])
BeginAsk == \E h \in Hosts, n \in Questions(graph), cap \in Caps \cup {FactWork} :
                Begin([kind |-> "ask", set |-> h, node |-> n, cap |-> Lesser(cap, FactWork)])

Ready == call # NoCall /\ ~running

\* The next constraint of the set. One that is contradictory already only notes it.
AddSeed ==
    /\ Ready /\ todo # <<>>
    /\ todo' = Tail(todo)
    /\ LET id == Len(store.seeds) + 1
           seed == Head(todo)
       IN  /\ store' = [store EXCEPT !.tag = tag, !.revision = revision, !.seeds = Append(@, seed)]
           /\ \/ /\ store.conflict = {}
                 /\ work' = <<seed @@ [rel |-> {id}]>>
                 /\ running' = TRUE /\ steps' = Steps /\ rounds' = Rounds
              \/ /\ store.conflict # {}
                 /\ UNCHANGED <<work, running, steps, rounds>>
    /\ UNCHANGED <<contextVars, facts, sets, call, mine, changed, swept, queue, learned, answer, calls>>

\* The next requirement.
Require ==
    /\ work # <<>> /\ steps > 0
    /\ steps' = steps - 1
    /\ \E q \in {Last(work)} : \E now \in {Current([X EXCEPT !.work = Front(@)], q.node)} :
       LET values == now.values \cap q.values
           rel == q.rel \cup now.rel
       IN  \/ /\ Failed(now.x)
              /\ Become(Fail(now.x, q.rel)) /\ UNCHANGED learned
           \/ /\ ~Failed(now.x) /\ values = {}
              /\ Become(Fail(now.x, rel)) /\ learned' = TRUE
           \/ /\ ~Failed(now.x) /\ values # {} /\ values = now.values
              /\ Become(now.x) /\ UNCHANGED learned
           \/ /\ ~Failed(now.x) /\ values # {} /\ values # now.values
              /\ \E x \in {Backward(Record(now.x, q.node, values, rel), q.node, values, rel)} : Become(x)
              /\ learned' = TRUE
    /\ UNCHANGED <<contextVars, sets, call, todo, swept, queue, running, rounds, answer, calls>>

\* Something was learnt: every entry is to be looked at again, if it is made of what changed.
Sweep ==
    /\ work = <<>> /\ queue = <<>> /\ learned
    /\ rounds > 0 /\ changed # {} /\ store.conflict = {}
    /\ queue' = store.order /\ swept' = changed /\ changed' = {}
    /\ rounds' = rounds - 1 /\ learned' = FALSE
    /\ UNCHANGED <<contextVars, facts, sets, call, store, todo, work, mine, running, steps, answer, calls>>

Concerned(n) == \E k \in Kids(n) : Below(k) \cap swept # {}

Revisit ==
    /\ work = <<>> /\ queue # <<>> /\ steps > 0 /\ store.conflict = {}
    /\ queue' = Tail(queue)
    /\ LET n == Head(queue)
       IN  \/ /\ ~Concerned(n)
              /\ UNCHANGED <<facts, store, mine, work, changed, steps>>
           \/ /\ Concerned(n)
              /\ steps' = steps - 1
              /\ \E now \in {Current(X, n)} :
                   \E x \in {IF Failed(now.x) THEN now.x ELSE Backward(now.x, n, now.values, now.rel)} :
                      Become(x)
    /\ UNCHANGED <<contextVars, sets, call, todo, swept, running, rounds, learned, answer, calls>>

\* The propagation ends: nothing is left, or it contradicts itself, or its steps are used up.
Settle ==
    /\ running
    /\ \/ store.conflict # {}
       \/ steps = 0 /\ (work # <<>> \/ queue # <<>>)
       \/ work = <<>> /\ queue = <<>> /\ (~learned \/ rounds = 0 \/ changed = {})
    /\ store' = [store EXCEPT !.truncated = @ \/ (store.conflict = {} /\ (work # <<>> \/ queue # <<>>))]
    /\ running' = FALSE /\ work' = <<>> /\ queue' = <<>> /\ learned' = FALSE
    /\ mine' = Empty /\ changed' = {} /\ swept' = {} /\ steps' = 0 /\ rounds' = 0
    /\ UNCHANGED <<contextVars, facts, sets, call, todo, answer, calls>>

Done == Ready /\ todo = <<>>
Finish(f) == /\ facts' = f /\ call' = NoCall /\ store' = NoAssumptions
             /\ UNCHANGED <<contextVars, todo, runVars, calls>>

Unkeyed(f) == [f EXCEPT !.overlay = Empty, !.key = {}]
KeyedBy(f, s) == [f EXCEPT !.overlay = Empty, !.key = {s}]

\* Sets are the same whatever declarations they were propagated under: what these led to
\* is compared.
Same(s, t) == [s EXCEPT !.revision = 0, !.min = 0] = [t EXCEPT !.revision = 0, !.min = 0]

\* A set propagated anew keys the overlay.
Refreshed(f) == IF call.from = "seeds" THEN KeyedBy(f, store) ELSE f

\* The set is about to change: an overlay keyed by this very copy is dropped. Which copies
\* are shared is the host's doing.
Refresh ==
    /\ Done /\ call.kind = "assume"
    /\ \/ facts' = Unkeyed(facts) /\ (call.from # "itself" \/ \E k \in facts.key : Same(k, store))
       \/ facts' = facts /\ call.from = "itself"
    /\ todo' = <<call.seed>> /\ call' = [kind |-> "add", set |-> call.set]
    /\ UNCHANGED <<contextVars, sets, store, runVars, answer, calls>>

Added ==
    /\ Done /\ call.kind = "add"
    /\ sets' = [sets EXCEPT ![call.set] = store]
    /\ Finish(facts) /\ UNCHANGED answer

ReturnRefreshed ==
    /\ Done /\ call.kind = "refresh"
    /\ sets' = [sets EXCEPT ![call.set] = store]
    /\ Finish(Refreshed(facts)) /\ UNCHANGED answer

\* The overlay follows the set asked about.
Follow(f) == IF \E k \in f.key : Same(k, store) THEN f ELSE KeyedBy(f, store)
Answer ==
    /\ Done /\ call.kind = "ask"
    /\ \E f \in {Follow(Refreshed(facts))} : \E w \in {Walk(f, f.overlay, store, call.node, call.cap)} :
         /\ Finish([w.f EXCEPT !.overlay = w.overlay])
         /\ answer' = {[node |-> call.node, seeds |-> store.seeds, conflict |-> w.end = "conflict",
                        values |-> w.known.values, rel |-> w.known.rel \cup w.rel]}
    /\ UNCHANGED sets

Next ==
    \/ Declare \/ Clear \/ AskBase \/ Copy
    \/ BeginAssume \/ BeginRefresh \/ BeginAsk
    \/ AddSeed \/ Require \/ Sweep \/ Revisit \/ Settle
    \/ Refresh \/ Added \/ ReturnRefreshed \/ Answer

Spec == Init /\ [][Next]_vars

-----------------------------------------------------------------------------
(* Properties. *)

\* The values the nodes of a graph can have together.
InputsOf(g) == {n \in DOMAIN g : g[n].op = "sym"}
Together ==
    [g \in Graphs |->
        {FoldLeft(LAMBDA v, n : Append(v, IF n \in InputsOf(g) THEN w[n]
                                          ELSE ValueIn(g, n, [k \in DOMAIN g[n].kids |-> v[g[n].kids[k]]])),
                  <<>>, [n \in DOMAIN g |-> n]) :
            w \in {u \in [InputsOf(g) -> 0 .. 3] : \A n \in InputsOf(g) : u[n] < 2 ^ g[n].width}}]
\* Those the declarations allow: the worlds.
Worlds == {v \in Together[graph] : \A n \in InputsOf(graph) : v[n] \in Declared(n)}

\* Worlds where the constraints named hold.
Where(all, seeds, rel) == {v \in all : \A c \in rel : v[seeds[c].node] \in seeds[c].values}

OverlayHolds(overlay, s, all) ==
    \A n \in DOMAIN overlay : \A v \in Where(all, s.seeds, overlay[n].rel) : v[n] \in overlay[n].values
SetHolds(s, all) ==
    /\ OverlayHolds(s.assumed, s, all)
    /\ \A k \in DOMAIN s.relations : \A v \in Where(all, s.seeds, s.relations[k].rel) :
         Order(v[k[1]], v[k[2]], graph[k[1]].width) \in s.relations[k].orders
    /\ \A n \in DOMAIN s.root : \A v \in Where(all, s.seeds, s.root[n].rel) : v[n] = v[s.root[n].to]
    /\ \A rel \in s.conflict : Where(all, s.seeds, rel) = {}

\* Whatever is cached, derived or answered holds in every world the present declarations
\* and the constraints it says it relies on allow, no other constraint needed: after
\* declarations changed, after a clear, for copies that went different ways.
FactsHold ==
    LET all == Worlds
    IN  /\ \A n \in DOMAIN facts.base : \A v \in all : v[n] \in facts.base[n]
        /\ \A k \in facts.key : SetHolds(k, all) /\ OverlayHolds(facts.overlay, k, all)
        /\ SetHolds(store, all) /\ OverlayHolds(mine, store, all)
        /\ \A h \in Hosts : Belongs(sets[h]) /\ Fresh(sets[h]) => SetHolds(sets[h], all)
        /\ \A a \in answer : \A v \in Where(all, a.seeds, a.rel) : ~a.conflict /\ v[a.node] \in a.values

\* Nothing in the caches is out of date, or weakened by a query cut short. A base fact is
\* what computing everything anew would give. A fact under a set is what the set, the
\* operands' facts as they are now and the base facts cached by some earlier moment give:
\* computed before other base facts were cached it may lack what these would add, and no more than
\* that. What is left of a query cut short finds its operands when it is resumed.
CachesCurrent ==
    LET BottomUp(Of(_, _), most) ==
            FoldLeft(LAMBDA acc, n : Append(acc, Of(n, acc)), <<>>, [n \in 1 .. most |-> n])
        Highest(f) == Max(DOMAIN f \cup {0})
        KidsIn(all, n) == [k \in DOMAIN graph[n].kids |-> all[graph[n].kids[k]]]
        base == BottomUp(LAMBDA n, all : Transfer(n, KidsIn(all, n), all),
                         Max({Highest(facts.base), Highest(facts.overlay), Highest(mine)}))
        Over(s, n, kids, cached) ==
            IF Tainted(s, n, kids) THEN Under(s, n, kids, cached) ELSE [values |-> base[n], rel |-> {}]
        UpToDate(overlay, s) ==
            LET now == BottomUp(LAMBDA n, all : IF n \in DOMAIN overlay THEN overlay[n]
                                                ELSE Over(s, n, KidsIn(all, n), facts.base),
                                Highest(overlay))
            IN  \A n \in DOMAIN overlay : \E cached \in {Empty, facts.base} :
                   overlay[n] = Over(s, n, KidsIn(now, n), cached)
    IN  /\ \A n \in DOMAIN facts.base : facts.base[n] = base[n]
        /\ \A k \in facts.key : k.conflict = {} => UpToDate(facts.overlay, k)
        /\ store.conflict = {} => UpToDate(mine, store)
        /\ \A p \in facts.pending : \A i \in DOMAIN p.rest :
             Kids(p.rest[i]) \subseteq DOMAIN facts.base \cup {p.rest[j] : j \in 1 .. i - 1}

\* The classes and orderings fit together after every merge: a member names its
\* representative, the lowest of the class, and orderings are kept between two
\* representatives, once, while more than equality is left.
ClassesFit ==
    \A s \in {store} \cup {sets[h] : h \in Hosts} :
        /\ \A n \in DOMAIN s.root : s.root[n].to < n /\ s.root[n].to \notin DOMAIN s.root
        /\ s.conflict = {} =>
             \A k \in DOMAIN s.relations :
                /\ k[1] < k[2] /\ {k[1], k[2]} \cap DOMAIN s.root = {}
                /\ s.relations[k].orders \notin {{}, {"eq"}, Orders}
=============================================================================
