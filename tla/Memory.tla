------------------------------- MODULE Memory -------------------------------
(* Memory as expressions (memory.rs): loads resolved, when they are built,     *)
(* through the stores of a version, known regions and earlier reads of unknown *)
(* cells. A memory may be cloned, and its clones go their own ways; its base   *)
(* may change between loads; any call may fail in the middle, when the context *)
(* has no room for a node. Calls run on the host's thread, one at a time.      *)
(*                                                                             *)
(* A cell is one bit, and as many cells as an address has bits make a value    *)
(* that can be an address. Of an expression its form is kept as far as the     *)
(* code looks at it: an address is a base and an offset. Facts decide whether  *)
(* addresses are equal when the values they can have under the declarations    *)
(* do.                                                                         *)
EXTENDS Integers, FiniteSets, SequencesExt

CONSTANTS
    Bits,          \* of an address
    Symbols,       \* the host's symbols, of the width of an address
    Settings,      \* [declared, endian]: the values declared of each symbol, and "little" or "big"
    Writes,        \* what a host may store: [addr, cells]
    Loads,         \* what it may load: [addr, cells], the address a term
    Regions,       \* known contents: [start, cells]
    MaxNames,      \* bound: symbols named after the memory
    MaxMemories,   \* bound: memories, clones included
    MaxFailures,   \* bound: calls that fail
    MaxCalls       \* bound: calls of the host

ASSUME BitsAssumption == Bits \in Nat \ {0}

Values == 0 .. 2 ^ Bits - 1

VARIABLES
    declared, endian,
    mems,      \* the memories
    stamp,     \* of the newest version of any memory
    named,     \* symbols of the memories' name that the host made itself
    truth,     \* what was stored in each version given out, first to last
    answers,   \* per memory: the loads it answered
    failures, calls  \* bounds

vars == <<declared, endian, mems, stamp, named, truth, answers, failures, calls>>

-----------------------------------------------------------------------------
(* Expressions: addresses, and cells.                                          *)

NoBase       == [sym |-> "", cells |-> <<>>]
Constant(v)  == [base |-> NoBase, off |-> v]
Symbol(s)    == [base |-> [sym |-> s, cells |-> <<>>], off |-> 0]
Offset(a, k) == [a EXCEPT !.off = (@ + k) % 2 ^ Bits]

Given(v)       == [op |-> "given", val |-> v]
Read(k)        == [op |-> "read", name |-> k]
Entry(cs, off) == [op |-> "entry", cells |-> cs, off |-> off]
Equal(a, b)    == [op |-> "equal", left |-> a, right |-> b]
Lower(a, n)    == [op |-> "lower", left |-> a, right |-> n]
Select(t, x, y) == IF x = y THEN x ELSE [op |-> "select", test |-> t, then |-> x, other |-> y]

Bit(v, k) == (v \div 2 ^ k) % 2
Number(bits) == CHOOSE v \in Values : \A k \in DOMAIN bits : Bit(v, k - 1) = bits[k]

\* The bits of an address, least first; and an address made of cells: pieces of one value
\* become that value again.
BitOf(a, k) ==
    CASE a.base = NoBase -> Given(Bit(a.off, k))
      [] a.base.cells # <<>> /\ a.off = 0 -> a.base.cells[k + 1]
      [] OTHER -> [op |-> "bit", src |-> a, bit |-> k]
Whole(a) == [k \in 1 .. Bits |-> BitOf(a, k - 1)]
Joined(cs) ==
    CASE \A k \in DOMAIN cs : cs[k].op = "given" -> Constant(Number([k \in DOMAIN cs |-> cs[k].val]))
      [] cs[1].op = "bit" /\ cs = Whole(cs[1].src) -> cs[1].src
      [] OTHER -> [base |-> [sym |-> "", cells |-> cs], off |-> 0]

\* Their values, where the symbols have the values e.host and e.read.
RECURSIVE AddrVal(_, _), CellVal(_, _)
AddrVal(a, e) ==
    LET base == CASE a.base = NoBase -> 0
                  [] a.base.sym # "" -> e.host[a.base.sym]
                  [] OTHER -> Number([k \in DOMAIN a.base.cells |-> CellVal(a.base.cells[k], e)])
    IN  (base + a.off) % 2 ^ Bits
Holds(t, e) ==
    IF t.op = "equal" THEN AddrVal(t.left, e) = AddrVal(t.right, e) ELSE AddrVal(t.left, e) < t.right
CellVal(c, e) ==
    CASE c.op = "given"  -> c.val
      [] c.op = "read"   -> e.read[c.name]
      [] c.op = "bit"    -> Bit(AddrVal(c.src, e), c.bit)
      [] c.op = "entry"  -> LET k == AddrVal(c.off, e) IN IF k < Len(c.cells) THEN c.cells[k + 1] ELSE 0
      [] c.op = "select" -> IF Holds(c.test, e) THEN CellVal(c.then, e) ELSE CellVal(c.other, e)

\* The values facts allow an address.
Allowed(a) ==
    CASE a.base = NoBase -> {a.off}
      [] a.base.sym # "" -> {(v + a.off) % 2 ^ Bits : v \in declared[a.base.sym]}
      [] OTHER -> Values

\* Whether two addresses are equal: offsets from one base decide, else facts may.
Same(a, b) ==
    CASE a.base = b.base -> IF a.off = b.off THEN "yes" ELSE "no"
      [] a.base # b.base /\ Allowed(a) \cap Allowed(b) = {} -> "no"
      [] a.base # b.base /\ \E v \in Values : Allowed(a) = {v} /\ Allowed(b) = {v} -> "yes"
      [] OTHER -> "open"

-----------------------------------------------------------------------------
(* A memory.                                                                   *)

Version(i, s) == [index |-> i, stamp |-> s]
New(s) ==
    [initial |-> Version(0, s), zeroed |-> FALSE, regions |-> <<>>,
     stores |-> <<>>,   \* [version, parent, addr, cell]
     reads |-> <<>>,    \* of unknown cells: [addr, cell], the cell a symbol
     next |-> 0,        \* the next name to try
     cache |-> [k \in {} |-> 0]]   \* the cells loaded, by version and address

\* An error: versions of another branch may have the number.
AcceptsNumber(m, v) == v.index \in 0 .. Len(m.stores)
\* A memory takes its own versions, and those from before it was cloned.
Accepts(m, v) ==
    IF v.index = 0 THEN v = m.initial
    ELSE v.index <= Len(m.stores) /\ m.stores[v.index].version = v

\* The stores of a version, newest first.
Path(m, v) ==
    LET From[i \in 0 .. Len(m.stores)] ==
            IF i = 0 THEN <<>> ELSE <<m.stores[i]>> \o From[m.stores[i].parent.index]
    IN  From[v.index]

\* What entries say of address a: the first with an equal address; those before it whose
\* address may be equal are selected on.
Found(a, entries) == {k \in DOMAIN entries : Same(a, entries[k].addr) = "yes"}
First(a, entries) == Min(Found(a, entries))
Before(a, entries) == IF Found(a, entries) = {} THEN entries ELSE SubSeq(entries, 1, First(a, entries) - 1)
\* An error: the last that may be equal is asked first.
SelectedLast(a, entries, cell) ==
    FoldLeft(LAMBDA c, e : IF Same(a, e.addr) = "open" THEN Select(Equal(a, e.addr), e.cell, c) ELSE c,
             cell, entries)
Selected(a, entries, cell) ==
    FoldRight(LAMBDA e, c : IF Same(a, e.addr) = "open" THEN Select(Equal(a, e.addr), e.cell, c) ELSE c,
              entries, cell)

\* The symbols of the memories' name in the context.
Names(m) == {m.reads[k].cell.name : k \in DOMAIN m.reads}
Taken == named \cup UNION {Names(mems[h]) : h \in DOMAIN mems}

\* An error: a name the host took is not skipped.
NextName(m) == m.next
\* The first name from the next to try on that the context does not have. One load may
\* make several: those m made itself count.
FreeName(m) ==
    LET free == {k \in m.next .. m.next + Cardinality(Taken \cup Names(m)) : k \notin Taken \cup Names(m)}
    IN  Min(free)

\* An unknown cell: zero, or what an earlier read at an equal address got, or a new symbol.
Unknown(m, a) ==
    LET known == Found(a, m.reads)
        name == FreeName(m)
    IN  CASE m.zeroed -> [m |-> m, cell |-> Given(0)]
          [] ~m.zeroed /\ known # {} ->
               [m |-> m, cell |-> Selected(a, Before(a, m.reads), m.reads[First(a, m.reads)].cell)]
          [] OTHER ->
               [m |-> [m EXCEPT !.next = name + 1, !.reads = Append(@, [addr |-> a, cell |-> Read(name)])],
                cell |-> Selected(a, m.reads, Read(name))]

\* The cell before any store: a region's, if the address is or may be in one.
Into(a, r) == Offset(a, 2 ^ Bits - r.start)
Inside(a, r) ==
    CASE \A v \in Allowed(Into(a, r)) : v < Len(r.cells)  -> "yes"
      [] \A v \in Allowed(Into(a, r)) : v >= Len(r.cells) -> "no"
      [] OTHER -> "open"
Table(a, r) ==
    LET off == Into(a, r)
    IN  IF off.base = NoBase THEN Given(r.cells[off.off + 1]) ELSE Entry(r.cells, off)
Base(m, a) ==
    LET sure == {k \in DOMAIN m.regions : Inside(a, m.regions[k]) = "yes"}
        rest == Unknown(m, a)
    IN  IF sure # {}
        THEN [m |-> m, cell |-> Table(a, m.regions[Min(sure)])]
        ELSE [rest EXCEPT !.cell =
                 FoldRight(LAMBDA r, c : IF Inside(a, r) = "open"
                                         THEN Select(Lower(Into(a, r), Len(r.cells)), Entry(r.cells, Into(a, r)), c)
                                         ELSE c,
                           m.regions, @)]

\* The memory and the cell after a cell is looked up.
CellAt(m, v, a) ==
    LET path == Path(m, v)
        below == IF Found(a, path) = {} THEN Base(m, a) ELSE [m |-> m, cell |-> path[First(a, path)].cell]
        cell == Selected(a, Before(a, path), below.cell)
    IN  IF <<v, a>> \in DOMAIN m.cache
        THEN [m |-> m, cell |-> m.cache[<<v, a>>]]
        ELSE [m |-> [below.m EXCEPT !.cache = (<<v, a>> :> cell) @@ @], cell |-> cell]

\* The first n cells of a load, in the order of addresses.
Looked(m, v, a, n) ==
    FoldLeft(LAMBDA acc, k : LET one == CellAt(acc.m, v, Offset(a, k - 1))
                             IN  [m |-> one.m, cells |-> Append(acc.cells, one.cell)],
             [m |-> m, cells |-> <<>>], [k \in 1 .. n |-> k])
\* What a cell's look-up leaves when it fails: nothing; the name it passed over; the read
\* it made.
Broken(m, now) == {m, [m EXCEPT !.next = now.next], [now EXCEPT !.cache = m.cache]}

Ordered(cs) == IF endian = "big" THEN Reverse(cs) ELSE cs

\* The memory with the first n cells stored over version v.
Put(m, v, a, cs, n) ==
    FoldLeft(LAMBDA acc, k :
                 [acc EXCEPT !.stores = Append(@, [version |-> Version(Len(@) + 1, stamp + k),
                                                   parent |-> IF k = 1 THEN v ELSE Last(@).version,
                                                   addr |-> Offset(a, k - 1), cell |-> cs[k]])],
             m, [k \in 1 .. n |-> k])

-----------------------------------------------------------------------------
(* The host's calls.                                                           *)

Init ==
    /\ \E s \in Settings : declared = s.declared /\ endian = s.endian
    /\ mems = <<New(1)>> /\ stamp = 1 /\ named = {}
    /\ truth = (Version(0, 1) :> <<>>) /\ answers = <<{}>>
    /\ failures = 0 /\ calls = 0

\* The last call of the model is a load: nothing else shows what came before.
Asks == calls < MaxCalls /\ calls' = calls + 1 /\ UNCHANGED <<declared, endian, failures>>
Call == Asks /\ calls' < MaxCalls
Fails ==
    /\ calls + 1 < MaxCalls /\ calls' = calls + 1
    /\ failures < MaxFailures /\ failures' = failures + 1
    /\ UNCHANGED <<declared, endian>>

Another == Call /\ Len(mems) < MaxMemories

\* A memory of the same name, with versions of its own.
Create ==
    /\ Another
    /\ stamp' = stamp + 1
    /\ mems' = Append(mems, New(stamp'))
    /\ truth' = (Version(0, stamp') :> <<>>) @@ truth
    /\ answers' = Append(answers, {})
    /\ UNCHANGED named

Clone ==
    /\ Another
    /\ \E h \in DOMAIN mems : mems' = Append(mems, mems[h]) /\ answers' = Append(answers, answers[h])
    /\ UNCHANGED <<stamp, named, truth>>

\* The addresses a host may use: those given and those it loaded.
Loaded(h) == {Joined(l.cells) : l \in {x \in answers[h] : Len(x.cells) = Bits}}

\* A store ends with the version of its last cell.
Stored(h, v, a, cs, n) ==
    /\ Accepts(mems[h], v)
    /\ mems' = [mems EXCEPT ![h] = Put(@, v, a, cs, n)] /\ stamp' = stamp + n
    /\ UNCHANGED <<named, answers>>

Store ==
    /\ Call
    /\ \E h \in DOMAIN mems, v \in DOMAIN truth, w \in Writes : \E a \in {w.addr} \cup Loaded(h) :
         LET cs == Ordered(w.cells)
             new == [k \in DOMAIN cs |-> [addr |-> Offset(a, k - 1), cell |-> cs[k]]]
         IN  /\ Stored(h, v, a, cs, Len(cs))
             /\ truth' = (Last(mems'[h].stores).version :> truth[v] \o new) @@ truth

\* One that fails leaves some of its cells stored, in versions nobody has.
StoreFails ==
    /\ Fails
    /\ \E h \in DOMAIN mems, v \in DOMAIN truth, w \in Writes :
       \E a \in {w.addr} \cup Loaded(h), n \in 1 .. Len(w.cells) - 1 : Stored(h, v, a, Ordered(w.cells), n)
    /\ UNCHANGED truth

Load ==
    /\ Asks
    /\ \E h \in DOMAIN mems, v \in DOMAIN truth, l \in Loads :
       \E a \in {l.addr} \cup Loaded(h) :
         LET all == Looked(mems[h], v, a, l.cells)
         IN  /\ Accepts(mems[h], v)
             /\ mems' = [mems EXCEPT ![h] = all.m]
             /\ answers' = [answers EXCEPT ![h] = @ \cup
                               {[at |-> v, addr |-> a, cells |-> Ordered(all.cells),
                                 zeroed |-> mems[h].zeroed, regions |-> mems[h].regions]}]
    /\ UNCHANGED <<stamp, named, truth>>

LoadFails ==
    /\ Fails
    /\ \E h \in DOMAIN mems, v \in DOMAIN truth, l \in Loads :
       \E a \in {l.addr} \cup Loaded(h), n \in 0 .. l.cells - 1 :
         LET some == Looked(mems[h], v, a, n)
             now == CellAt(some.m, v, Offset(a, n)).m
         IN  /\ Accepts(mems[h], v)
             /\ \E m \in Broken(some.m, now) \cup {x \in {now} : l.cells > 1} : m # mems[h] /\ mems' = [mems EXCEPT ![h] = m]
    /\ UNCHANGED <<stamp, named, truth, answers>>

\* An error: what was loaded before is answered again.
Remembered(cache) == cache
\* The base changes: what was loaded is forgotten.
Forgotten(cache) == [k \in {} |-> 0]

Zeroed ==
    /\ Call
    /\ \E h \in DOMAIN mems :
         ~mems[h].zeroed /\ mems' = [mems EXCEPT ![h].zeroed = TRUE, ![h].cache = Forgotten(@)]
    /\ UNCHANGED <<stamp, named, truth, answers>>

\* Regions must not overlap: the host's duty.
Covers(r) == {(r.start + k - 1) % 2 ^ Bits : k \in DOMAIN r.cells}
WithRegion ==
    /\ Call
    /\ \E h \in DOMAIN mems, r \in Regions :
         /\ Len(r.cells) <= 2 ^ Bits
         /\ \A k \in DOMAIN mems[h].regions : Covers(r) \cap Covers(mems[h].regions[k]) = {}
         /\ mems' = [mems EXCEPT ![h].regions = Append(@, r), ![h].cache = Forgotten(@)]
    /\ UNCHANGED <<stamp, named, truth, answers>>

\* The host makes a symbol of the memories' name.
MakeSymbol ==
    /\ Call
    /\ \E k \in 0 .. MaxNames - 1 : k \notin Taken /\ named' = named \cup {k}
    /\ UNCHANGED <<mems, stamp, truth, answers>>

Next ==
    \/ Create \/ Clone \/ Store \/ StoreFails \/ Load \/ LoadFails \/ Zeroed \/ WithRegion \/ MakeSymbol

Spec == Init /\ [][Next]_vars

-----------------------------------------------------------------------------
(* Properties.                                                                 *)

\* The assignments of the host's symbols that agree with the declarations, and of some of
\* the memories' name.
Assignments(names) ==
    {[host |-> f, read |-> g] : f \in {x \in [Symbols -> Values] : \A s \in Symbols : x[s] \in declared[s]},
                                g \in [names -> {0, 1}]}

\* The cell at an address before any store, when load l was asked: an unknown one is as
\* the memory's reads have it, of which the first at an address answers.
Original(m, l, a, e) ==
    LET within == {k \in DOMAIN l.regions : a \in Covers(l.regions[k])}
        r == l.regions[Min(within)]
        at == {k \in DOMAIN m.reads : AddrVal(m.reads[k].addr, e) = a}
    IN  CASE within # {}                     -> r.cells[((a - r.start) % 2 ^ Bits) + 1]
          [] within = {} /\ ~l.zeroed /\ at # {} -> CellVal(m.reads[Min(at)].cell, e)
          [] OTHER                           -> 0

\* The cell at an address in a version: the last one stored there.
Content(m, l, a, e) ==
    LET at == {k \in DOMAIN truth[l.at] : AddrVal(truth[l.at][k].addr, e) = a}
    IN  IF at = {} THEN Original(m, l, a, e) ELSE CellVal(truth[l.at][Max(at)].cell, e)

\* Whatever values the symbols have, some contents of the unknown memory explain every load
\* a memory ever answered, of any version, cached or not: each is what its version has at
\* its address, the base being what it was when it was asked.
LoadsRight ==
    \A h \in {g \in DOMAIN mems : answers[g] # {}} : \A e \in Assignments(Names(mems[h])) :
        \A l \in answers[h] : \A k \in DOMAIN l.cells :
            CellVal(Ordered(l.cells)[k], e) = Content(mems[h], l, AddrVal(Offset(l.addr, k - 1), e), e)

\* The values bind gives the symbols of the reads, in turn, for an image and the values of
\* the host's symbols; of two values for one symbol the first counts.
Bound(m, e, image) ==
    LET after[k \in 0 .. Len(m.reads)] ==
            IF k = 0 THEN e
            ELSE LET b == after[k - 1]
                     r == m.reads[k]
                 IN  [b EXCEPT !.read = @ @@ (r.cell.name :> image[AddrVal(r.addr, b)])]
    IN  after[Len(m.reads)]

\* For every image, and whatever the host's own symbols are, bind makes each read the
\* image's cell at its address: a read's symbol is its own.
BindsImage ==
    \A h \in {g \in DOMAIN mems : mems[g].reads # <<>>} :
        \A e \in Assignments(named), image \in [Values -> {0, 1}] :
            LET b == Bound(mems[h], e, image)
            IN  \A k \in DOMAIN mems[h].reads :
                  CellVal(mems[h].reads[k].cell, b) = image[AddrVal(mems[h].reads[k].addr, b)]
=============================================================================
