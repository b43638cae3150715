# bitwright: verification project

bitwright simplifies bit-vector expressions. Its answers are meant to be
right under every budget, deadline, hook and set of assumptions, and
independent of thread counts; the code that makes them so is stateful: memos
that outlive calls, work that is stopped half way, an e-graph repaired lazily,
threads that race a deadline. This directory holds TLA+ models of that code, the
TLC configurations that check them on small instances and TLAPS proofs for
instances of any size. Paths below are in `bitwright/src/` unless they start
otherwise.

Run, in this directory: `tlc -config X.cfg M` for a run (the table under
[Runs](#runs)), `tlapm M.tla` for a module of proofs.

## 1. The system

| Part | State | Operations | Interacts with |
|---|---|---|---|
| Expression store (`expr/`) | append-only arena of hash-consed nodes, symbols with declared known bits, handle tag, the caches below | constructors (which fold and share), evaluation, `declare_known`, `clear`, import | everything; declaring known bits clears facts, memo and search memo |
| Facts (`facts/`) | per context: known bits and ranges of nodes; per assumption set: constraints and what propagates from them | transfer per operator, `assume*`, refresh when declarations changed | store, engine (rules and passes ask) |
| Engine (`engine/`) | in the context: memo of final results per phase; per call: meter, quarantine, provisional results, walk stack, use counts | `run` (roots in turn, settled together), strategy of rounds and phases, walk, postconditions, salvage; `run_each` (a root per thread) | rules, passes, host rewrites, MBA service, equality search, allowance shared by calls |
| Passes (`engine/pass/`) | use counts of the live DAG, cursors | rewrite a node to another form, if use counts or cost allow | engine walk |
| Rules (`rules/`) | compiled rule sets, term order, ledger | match, instantiate, admit | engine |
| MBA (`mba/`) | cache of answers; the deadline wrapper's counter and per-question state | lower, ask solvers, certify, lift | engine MBA phase; worker threads |
| Equality search (`eqsat/`) | e-graph (union-find, hash-cons, parents, constants, worklist); context's search memo | import, match, instantiate, unite, rebuild, extract, publish a batch | engine, store |
| Prover (`prove/`) | SAT solver, circuits, certificates; shared counters of the exhaustive enumeration | blast, decide, certify, enumerate on threads | `check/`, MBA certificates |
| Memory model (`memory.rs`) | per memory and its clones: stores by version, reads of unknown cells, known regions, loads built | store, load, clone, change the base, bind an image | store, facts; lifting and SMT-LIB arrays use it |
| Input and output (`smtlib/ text/ lift/ transform/ translate.rs`) | translation caches | parse, print, import, export, instantiate templates | store |
| `value/`, `fp/` | none | arithmetic | store |
| `check/`, `invert/`, `synth.rs`, bindings, command line, benches, fuzzers | none beyond a call | | |

What makes each part correct, and what is hard about it:

- **MBA deadline.** Every call is answered within its timeout, to the caller's
  side and the worker's alike; the threads left behind stay under a cap whose
  counter must neither leak nor wrap. Hard: the answer that arrives as the
  deadline passes.
- **Engine, one root.** Equal result under the reported constraints; nothing
  provisional remembered as final; no cycle of passes; no budget passed; every
  call returns. Hard: several reasons for a result to be provisional (a work
  cap, a quarantine, sharing, a cut cycle, a stop) propagate through operands,
  memo hits and rebuilt nodes, and the memo outlives the call that filled it.
- **Engine, several roots.** A rewrite one root's sharing kept back is made once
  the other root no longer shares; statistics and constraints of a root done
  twice stay right; the allowance pays for all work, failed calls included.
- **E-graph.** Only equal terms are merged, at every moment; after a rebuild the
  graph is closed under congruence and constants are known; extraction chooses
  the cheapest, acyclic term. Hard: adding while unions wait, unions during
  repair, constants learnt during repair, cyclic classes, saturated costs.
- **Exhaustive enumeration.** The verdict never depends on the threads; the
  failure reported is the first. Hard: stripes finish in any order, threads may
  not start.
- **Facts and assumptions.** A fact never excludes a value the expression can have
  under the declarations and the constraints it is said to rely on. Hard: no cache
  may survive the declaration or the set it rests on, while sets of assumptions are
  copied, kept over changed declarations and propagated again in the middle of a
  question, queries stop half way and resume, and merging two classes of equals may
  merge others.
- **Equality search.** Saturation claimed only when nothing was left out; a batch
  published whole or not at all.
- **Use counts.** The counted base plus changes equals a count from scratch. Hard:
  nodes are replaced, used again and built between the operations, counting stops
  with the budget, and the base outlives the phase runs over it.
- **Memory model.** One memory image explains all loads ever answered, through every
  version and clone, and every image can be bound. Hard: addresses that may be equal,
  loads remembered over a changed base, versions of branches with the same number,
  calls that fail in the middle.
- **SAT solver.** Answers hold for the clauses of the moment, and the logged proof
  can be checked. Hard: what a call leaves behind (watches, a trail, learnt clauses)
  meets clauses that come later; watches repaired lazily; clauses renumbered under
  the reasons that name them.

## 2. The modules

Names follow the code. In the modules, an operator said to be "an error" is a
plausible mistake in the definition after it; it is used nowhere, and shows that
some property notices the mistake.

### ThreadedSolver (`mba/threaded.rs`)

One instance, its callers and the questions they ask. `state` is the atomic
state of each question, `channel` what its worker sent, `abandoned` the counter
(arithmetic modulo `UsizeMod`, for `usize`), `callStep`/`workStep` how far the
two threads of a question are. Each access to an atomic or the channel is a step:
`Ask` (the cap, read once), `Spawn`/`SpawnFails`, `Receive`/`Expire` (the two ends
of `recv_timeout`; the count goes up before the compare-exchange), `Abandon`,
`TakeBack`, `Drain` (the receive without a timeout), and the worker's `Solve`,
`Send`, `Decide`, `Uncount`. The solver inside answers, panics, or never returns.
Memory order: the code uses acquire/release on the state and the counter is only
ever added to; interleaved steps show all its outcomes.

### Simplifier (`engine/mod.rs`, `engine/host.rs`, `engine/pass/mod.rs`, `engine/budget.rs`)

One root at a time, over calls that share a context. The context keeps the
`arena` and the `memo` (per phase the final results, under the setting that keys
it); a call keeps its meter `spent`, the `quarantined` rewriters, pairs
`rewritten` by passes, and the `partial` (provisional) results. The walk has its
frame `stack`, with `Visit` and `Finish` frames, and `pending` counts what waits.
Actions, one per step of the loop: `BeginCall`, `EnterWalk`/`RootKnown`,
`VisitKnown`, `VisitCharged`, `VisitOpaque`, `VisitFirst` (MBA questions before
operands), `VisitDescend`, `VisitRebuild`, `VisitTry`/`VisitUnasked`, then for a
candidate `SkipQuarantined`, `ChargeCandidate`, `Decline`, `Build`, `NoChange`,
`Reject` (postconditions), `Veto`, `Accept`, `AllTried`; `Finish`; `LeaveWalk`,
`NextPhase`, `Complete`; `OutOf*` for each counter and the deadline, after which
`Salvage*` puts the pieces together; `Return`.

Abstractions: a node stands for its term; what is tried at a node is a constant
sequence of candidates (`Attempts`), each with who offers it, the node offered,
constraints relied on, what postconditions make of it, and whether a hook, use
counts or a work cap may decline it. Use counts answer as they like. Values of
constructors (`Rebuild`) are assumed right, and a candidate that passes the
postconditions is assumed right: the sampled points stand for all assignments.

### EGraph and Extract (`eqsat/egraph.rs`, `eqsat/extract.rs`)

`EGraph` has `Import` (operands first), `Instantiate` (an e-node an identity
adds), `Unite`, `StartRebuild`, and the rebuild loop `TakeClass`, `Repair` (one
parent: canonical form, hash-cons, constant), `PutBack`, `Rebuilt`. Identities are
unrestricted: any two classes may be united. `rep` is the answer of `find`;
parents and worklist are sets, in any order, which covers the code's order. The
history variables `added` and `asked` record what was added and which equations
identities asked for; `SoundMerges` is stated against them.

`Extract` extends it by the sweeps over the e-nodes (`Weigh`, `EndSweep`), with
costs that saturate at `MaxCost` (the code's `u64::MAX`, reached by a chain of
shared squares).

### Stripes (`prove/sample_words/exhaust.rs`, `prove/exhaustion.rs`)

Threads claim stripes of assignments from an atomic counter and record the
smallest failure with `fetch_min`. `user` says which of the two users enumerates:
`exhaust` skips a stripe above the recorded failure, a certificate's check skips
all after any failure. Looking through a stripe is one step: between reading the
recorded failure and recording its own a thread reads nothing shared.

### EngineRun (`engine/mod.rs`, `run`)

The loop over the roots: deduplication, admission, the strategy per root,
provisional roots and the rounds that do them again, the statistics, the meter
and allowance, the deadline (latched once a charge has seen it pass), errors.
The strategy is a chain of rewrites, each kept back while other roots' forms are
live. `Simplifier` has the strategy itself; the bound `max_rounds` and roots that
were never started being a count of their own are left out (they are counted with
those stopped).

### SearchBatch (`eqsat/mod.rs`, `search`)

Calls of several saturators on one context: the budget the roots of a batch share,
the deadline, what each root is answered from (the batch itself, the memo, a
search, nothing), the cause that withholds the batch, the report, what is paid
to the allowance and on errors, and when the memo is filled, handed to another
saturator and cleared. How a root's search ends with enough budget, and what it
charges, are constants of saturator and root: admission, import, saturation and
extraction are in them. One of the two counters is kept.

### SatSolver (`prove/sat.rs`)

The clause-learning solver between and during calls. `clauses` and `watches` (two
watched literals, each entry with its blocker), the `trail` with a reason per literal,
`lims` per decision, `qhead`; values, levels and reasons are read off the trail.
Actions: `AddClause` (simplified by the trail at level 0, hinted watches),
`OfferLemma`, `TryLemma`, `AcceptLemma`, `RejectLemma` (preprocessing tries a lemma
and logs it if propagation refutes its negation), `Solve`, `Propagate` and `Look`
(one watch per step: blocker, deleted, binary, new watch, unit, conflict), `Learn`
(first unique implication point, minimisation, backjump, watches of the learnt
clause, and perhaps a reduction that drops learnt clauses and renumbers the others),
`Contradiction`, `UnitDone`, `Restart` (keeping a prefix of the trail), `Decide`, `Pause`
at a limit, `AnswerSat`. `db` is what a checker of the logged proof holds: it accepts a
clause only if unit propagation over what it holds refutes it. Which variable is
decided, when learning is followed by a reduction and what it drops are left open: activities and
averages decide them in the code.

### PlainUses and UseCounts (`engine/pass/mod.rs`, `Live` and `Others`)

`PlainUses` is what use counts promise: one set of nodes whose edges count and one
count per node, from scratch over all roots when a phase run first asks.
`UseCounts` is how the code keeps them: what the roots other than the active one
use (`reach`, `othersUses`) is counted once per active root and stands below the counts as
long as nothing it reaches was replaced; `plus`, `minus` and `delta` are the
changes on top. `Plain == INSTANCE PlainUses WITH counted <- .., uses <- ..` maps
the layers to the one count, and the run checks `Plain!PlainSpec`. Actions:
`StartPhase`, `Create`, `Retire`/`RetireNext` (a replaced node gives its uses back,
and so do operands nobody uses then), `Refresh`, `ScratchNext`, `ScratchDone`,
`RefreshMore`, `CountNext`; counting may stop at each step, as the deadline does.

### Constraints (`facts/mod.rs`, `facts/constraint.rs`, `expr/mod.rs`)

A context with its cache of `facts` (base facts per node, what is left of a query
that was capped, the overlay under the set asked about last, and that set as its key), the
host's `sets` of assumptions, and one call at a time. Actions: `Declare`, `Clear`,
`AskBase`, `Copy`; `BeginAssume`, `BeginRefresh`, `BeginAsk` (which take the set as it is, or
from the overlay's key, or anew from its constraints when declarations changed);
`AddSeed`, `Require`, `Sweep`, `Revisit`, `Settle` (propagation: requirements,
orderings between classes, merges, sweeps over what changed, its own overlay);
`Refresh`, `Added`, `ReturnRefreshed`, `Answer`. A fact is a set of values, and
`Shapes` are the sets that known bits and ranges can tell apart; transfer and backward
functions are the best ones for these shapes, so that what the code's functions lose
is lost nowhere here: what is checked is the caching and the bookkeeping around them. A
constraint is named by its position. Not modelled: sets of more than 63 constraints, whose
names share one bit.

Three transfers read more than their operands' facts (`Further`: an xor with a positive
shift of its other operand, a shift by bits of the value shifted, the halves of a product).
They take base facts of the nodes the operands are made of, and only those cached when the
transfer runs; walks go in the code's order, which decides what is cached by then. A base
query has all of them. A fact under a set has those that earlier queries, capped ones
included, left in the base cache, and it is kept as it is when more are cached later: what
it says depends on the context's history, and nothing in the code or its docs promises
otherwise. So `CachesCurrent` does not say that a fact under a set is the best one: it is the one
the set, its operands' facts as they are now and the base facts of some earlier moment
give (each of the three applies as a whole or not at all, so this is the fact with none of
them or the one with the base facts cached now). `FactsHold` says that it holds in every
case, resting on no constraint it does not name. A sum of a value and itself, a square and
a minimum gain from what two operands have in common, and read no facts but the operands';
that precision is not modelled.

### Memory (`memory.rs`)

Memories and their clones (`mems`), each with its stores by version, the reads of
unknown cells, regions, the next name to try and the `cache` of loads; `stamp` numbers
versions. Actions: `Create`, `Clone`, `Store`, `Load`, `Zeroed`, `WithRegion`;
`StoreFails` and `LoadFails` (the context is full: what was stored, read or passed over so
far stays); `MakeSymbol` (the host takes a name the memory would). Of an expression its form
is kept as far as the code looks at it: an address is a base and an offset, a cell
is a constant, a bit of an address, a read, a select or a region's entry; pieces of one value
become that value again. `Same` decides equality of addresses by offsets from one base,
else if the values declared decide it, as the facts would at best. `truth` (what was
stored in each version) and `answers` (the loads, with the base as it was) are history
variables; the properties evaluate the loads for every assignment of the symbols. Only whole
values are loaded as addresses; a cell is one bit. Declarations are made before the memory
is used: one replaced later leaves loads remembered that rest on it, see `hazards`.

## 3. Runs

| Run | Module, cfg | Shows | Bounds |
|---|---|---|---|
| threaded | ThreadedSolver | `CountIsExact`, `ThreadsBounded`, `OutcomesAgree`, `DrainNeverBlocks`, `EveryCallReturns` | 2 callers, 3 questions, cap 1 |
| simplifier_rules | MCSimplifier, SimplifierRules | `MemoTrue`, `WithinBudget`, `RepeatIsLookup`, `EveryCallEnds` | terms over x, y; 3 settings sharing the memo; ample budget and each counter tight |
| simplifier_passes | MCSimplifier, SimplifierPasses | `TypeOK`, `MemoTrue`, `WaitsRight`, `NeverWaitsTwice` | two roots over an operand rewritten in a cycle by a pass or the MBA service |
| simplifier_quarantine | MCSimplifier, SimplifierQuarantine | a violation: see [Finding](#5-finding) | one root |
| extract | MCExtract, Extract | `SoundMerges`, `RebuiltClosed`, `SelectionRight`, `LoopsEnd` | 4 roots of up to 7 e-nodes, 3 unions or added e-nodes (to graphs of fewer than 5), costs to 4 |
| stripes | Stripes | `ReportRight`, `Ends` | 3 threads, 5 assignments (every set of failures), stripes of 2 |
| engine_run | MCEngineRun, EngineRun | `SettledTogether`, `ReliesOnEnough`, `StatsAddUp`, `AllowancePaysForAll` | 6 batches of up to 5 roots, 2 calls on one allowance |
| search_batch | MCSearchBatch, SearchBatch | `MemoRight`, `AllOrNothing`, `CauseIsFirst`, `RetryPublishes`, `AllowancePaysForSearch` | 2 saturators, 4 batches of up to 4 roots, 3 budgets, 3 calls |
| sat_solver | MCSatSolver, SatSolver | `ReasonsHold`, `NothingMissed`, `AnswersRight`, `ProofChecks`, `CallsEnd` | 5 variables, 7 clauses of which some come after a call, 3 lemmas, 2 calls, a tight limit and none |
| use_counts | MCUseCounts, UseCounts | `CountsExact`, `ImplementsPlainUses` | 2 pairs of roots, 4 nodes, 3 phase runs |
| constraints | MCConstraints, Constraints | `FactsHold`, `CachesCurrent`, `ClassesFit` | 4 contexts (2-bit masks and comparisons; 5 one-bit symbols made equal one after another; shifts of a symbol by its own bits; halves of a 4-bit product), 2 sets, 4 calls |
| memory | MCMemory, Memory | `LoadsRight`, `BindsImage` | 2-bit addresses and values of 2 cells, pointers p and q, 2 memories, 4 calls of which 1 may fail and the last is a load |

Where a property joins parts: `MemoTrue` (results equal, operands of a remembered
result remembered), `WaitsRight` (`PendingExact`: the record
of waits is the stack's, which the code asserts only of an ended walk; `FinishFindsResult`:
what is waited for is there), `RebuiltClosed`
(closed under congruence, constants folded, the hash-cons exact), `SelectionRight` (cheapest
and acyclic), `LoopsEnd` (rebuild and extraction),
`ReportRight` (the verdict, and that the failure is the first).

Why the bounds are enough to be interesting: in `threaded` a third question lets a
caller ask again while an abandoned one still runs, so the cap, the counter and a
late answer meet; the modulus 8 makes a counter below zero visible. In the
simplifier runs each counter is exhausted at every place it is charged, the memo
is met by a call with another setting and by a richer budget, and the cycle needs
two passes' rewrites and a rebuilt node. In the e-graph three unions suffice for
a union in the middle of a repair, a cyclic class and a constant learnt while
repairing; a cost bound of 4 is reached by terms of the instance. In `stripes` the
last stripe is short and two stripes can be in flight below and above a failure.
In `search_batch` no budget but the largest covers two searches of one batch, so a
batch is withheld, half remembered, and published by a later call; the two
saturators differ on every kind of ending.
In `sat_solver` the first clauses lead to conflicts that learn clauses of three
levels, the hinted clause has its watches chosen, units that come after a call meet the
watches it left, and the reduction drops and renumbers clauses that are reasons. In
`use_counts` one start has a shared operand used twice, the other a root below another;
three phase runs let a base be counted, kept and given up. In `constraints` the
chain of orderings makes one merge cause another whose classes then move again; the cap of 1
leaves a query to resume; two sets and four calls suffice to propagate, copy, declare, and ask
of a set of which another copy is the overlay's key. Its shifts and products are asked about
under a set before and after base facts that refine them are cached: for each, both facts
are reached, the weaker one also beside base facts cached later. In `memory` four calls make two
aliasing reads around a store, a load with a pointer that was loaded, a clone whose
branches both store, and a base changed between loads; one setting has addresses the facts
tell apart, the other has not; one region wraps around, one is the whole address space.

`CHECK_DEADLOCK FALSE` where the system stops: when all questions were asked, all
calls made, the enumeration reported, the bounded unions spent.

Bounds in guards: `MaxENodes`, `MaxChanges` (what identities add and unite), `MaxCalls`
(EngineRun, SearchBatch, SatSolver, Constraints, Memory), `MaxMemories`, `MaxFailures`,
`MaxNames` (Memory), `CallsBefore`, `MaxReductions` (SatSolver), `MaxNodes`, `MaxRuns`
(UseCounts). `MaxRounds` (Simplifier), `Steps`, `Rounds`, `FactWork` (Constraints) and
`RestartAfter` (SatSolver) stand for constants of the code.

## 4. Fairness

- ThreadedSolver: a caller with a call in progress runs, and so does a worker once
  the solver returned (weak fairness of each); the solver itself may run for ever,
  and callers need not ask. `recv_timeout` expires: waiting is bounded by it.
- Simplifier: the call runs on its caller's thread; weak fairness of its steps
  as one action. Nothing else is assumed: which step comes next is the code's.
- EGraph and Extract: the rebuild and the sweeps are loops of one thread.
- SatSolver: a call runs on its caller's thread, so weak fairness of `Work`. Busy states
  always have a step of it, so the formula says the same without `ENABLED`:
  `[]<>(task = "idle") \/ []<><<task # "idle">>_vars`.
- EngineRun, SearchBatch, UseCounts, Constraints and Memory: no liveness is claimed, no
  fairness assumed.
- Stripes: the calling thread and each thread it started run; spawning may fail.

## 5. Finding

`simplifier_quarantine`: `docs/design.md:720` says that a rule or pass which
fails a width, verification or tripwire check is quarantined for the call.
`engine/pass/mod.rs:1008` records the pass in `quarantined_passes`
(`engine/mod.rs:1217`: "Passes quarantined for the call after a postcondition
failure"), but only the MBA step and `invert` read that list; every other pass is
tried again, and charged, at the next node. Results stay right (each commit is
verified): the run's counterexample shows the second try.

## 6. What is proved, from what

TLAPS proves, for all values of the constants that satisfy the named assumptions:

| Theorem | Statement |
|---|---|
| ThreadedSolverProofs | type correctness; `CountIsExact`; `ThreadsBounded`; `OutcomesAgree`; `DrainNeverBlocks` |
| EGraphProofs!TypeCorrect, SoundMergesAlways, RebuiltAlwaysClosed | types; `SoundMerges`; `RebuiltClosed`, for any operators, roots and identities |
| EGraphProofs!SelectionAlwaysRight, SoundMergesInSearch, RebuiltClosedInSearch | of `Extract`: `SelectionRight`; the other two as the run checks them |
| StripesProofs!TypeCorrect, VerdictAlwaysRight, FirstFailureAlways, ReportAlwaysRight | types; `VerdictRight`; `FirstFailureReported`; both as `ReportRight` |
| SimplifierProofs!TypeCorrect, AlwaysSound, AlwaysWithinBudget | `TypeOK`; `Sound` (a part of `MemoTrue`); `WithinBudget` |
| SimplifierProofs!AlwaysClosed, TrueWithoutMba | `ClosedIn(p)` (the other part) for every phase but the MBA service's; `MemoTrue` where no phase is |
| SimplifierProofs!AlwaysFindsResult, PendingAlwaysExact, WaitsAlwaysRight, RepeatAlwaysLookup | `FinishFindsResult`; `PendingExact`; both (`WaitsRight`); `RepeatIsLookup` |
| EngineRunProofs!TypeCorrect, AlwaysSettledTogether, AlwaysReliesOnEnough, StatsAlwaysAddUp, AllowanceAlwaysPaysForAll | types; `SettledTogether`; `ReliesOnEnough`; `StatsAddUp`; `AllowancePaysForAll` |
| SearchBatchProofs!TypeCorrect, MemoAlwaysRight, AlwaysAllOrNothing, AllowanceAlwaysPays, CauseAlwaysFirst, RetryAlwaysPublishes | types and the limit of a call; `MemoRight`; `AllOrNothing`; `AllowancePaysForSearch`; `CauseIsFirst`; `RetryPublishes` |
| UseCountsProofs!CountsAlwaysExact, CountsAreAsPlain | `CountsExact`; the refinement `ImplementsPlainUses` |
| SatSolverProofs!TypeCorrect, ReasonsAreKept, PropagationIsComplete, AnswersAreRight, ProofAlwaysChecks | types; `ReasonsHold`; `NothingMissed`; `AnswersRight`; `ProofChecks` |

- **ThreadedSolver.** `CountIsExact` alone is not inductive. The invariant adds
  `Protocol` (which steps of caller, worker, channel and atomic state go
  together), `Ownership` (a question in progress is one caller's) and the bound on
  counted questions. Each step then moves the counter exactly when it adds a
  question to the counted set or removes one. Assumed: finitely many callers and
  questions, fewer questions than the counter's modulus.
- **EGraph.** Fix any valuation of the e-nodes that respects the operators and
  the equations asked for. The invariant (`Respects`) says that each e-node as it
  is kept now, each entry of the hash-cons, and each constant agrees with the value
  of its class; `Struct` gives the shape needed to speak of it. Every step,
  those in the middle of a rebuild included, keeps it, so members of a class
  are equal at all times. Closure is inductive as what is still owed (`Owing`): every
  e-node is in order (canonical, found by its key, folded), or the rebuild comes to
  it, as a parent to be repaired or as a parent of a class on the worklist (`Due`); a class knows its
  parents, or they are those taken out for it. A step that changes a class puts it on the worklist
  (`Advances`), so who uses it is due, and a repair forgets no key but one that is
  no longer canonical. With the worklist empty nothing is due. Assumed: tables of the
  operators, commutative ones commute, roots imported operands first.
- **Extract.** A choice noted is never below what its e-node costs now, costs only fall, and in a
  sweep that changed nothing no e-node passed offers better (`Sweeps`). Operands, and the e-node a
  class is named by, come before, imported ones first (`Ordered`), so among all the choices of
  a set of classes the one of least cost, or where costs saturate the one imported or earliest
  (`Rank`), has no operand in the set (`ChoiceDescends`). Assumed: costs saturate somewhere above 0.
- **Stripes.** Every failing assignment already claimed is accounted for by the
  recorded failure, or lies in the stripe of a thread that is still to record it
  or a smaller one (`Covered`). When all threads ended nobody is left to record.
- **Simplifier.** Layers, each inductive on top of the ones before.
  `Inv`: types, the meter, that what is left to try is among what the phase offers,
  and that every pair the engine holds (final and provisional results, frames,
  salvaged nodes, the call's current node) is equal under the constraints recorded
  for it. `Links2`: the result a waiting frame wants is known, or being tried, or given
  by the frame just above it (`Linking`); what is kept for the call only is not final
  (`OpenPartials`); the current node is reached from where the round began by
  final results (`Leading`). `Closing`, for phases whose questions are asked after
  the operands: each final result is of an atom, or leads to a node with a final
  result by what its operands became or by the first candidate that suits the node, or nothing
  suits it (`Grounded`), and each frame and the trial will write such a result
  (`Waits`, `OnTrial`). A node has one such result, so a second frame of the same node
  writes the same. From these, a result in the memo is what a fresh call would find.
  `Counts`: in a phase of passes `pending` has for each node the number of its `Finish`
  frames (`Counted`), in a phase of rules it is empty, and outside a walk and its salvage
  both are. It needs `Linking`: the frame a question asked before the operands takes off is a visit.
  So `debug_assert!(pending.is_empty())` (`engine/mod.rs:1628`) holds for every walk.
  Assumed: the order of the phases; operands lie below a node (`Below`, finite); a rebuilt
  node, and a candidate past its postconditions, are equal to the node; the limits are
  natural numbers.
  Not provable so is `ClosedIn` in the MBA service's phases: a question answered before
  the operands can give a node two final results, unless no node waits twice, which
  rests on how the code orders the questions and not on anything in the model;
  there `QuarantineHolds` is violated too (section 5).
- **EngineRun.** The completed results that are not final wait in the queue or among
  the provisional ones, and share what keeps them back with another live root
  (`Owed`). Each waits with the version it was reached at; while that is the version,
  what kept it back is live (`StillKeptBack`). A round that changed nothing has left none of
  an earlier version (`RoundUnchanged`), so the end of the rounds settles all of
  them together. Positions wait in order (`WaitInOrder`), so a root is done again at most once a
  round, from a result the statistics count as completed, which is what they take back.
  Assumed: rewrites lead to equal forms, constraints named; budgets are natural numbers.
- **SearchBatch.** Between two roots, what was answered in full is what the root's
  search finds, and a batch with any other answer is already withheld
  (`DoneRight`); every root passed has an answer (`Passed`). What withheld a batch is the
  cause of the first root not answered in full, which the memo lacks when the call
  returns. Each try that can pay for it finds one root more or all are known
  (`TriesFound`), so as many tries as roots publish it. Assumed: what a search
  finds depends on saturator and root only, declarations apart, which clear the memo.
- **UseCounts.** A node's count in the base with what changed since is the number of edges
  from counted nodes (`Exact`), so no count is cut off at zero on the way. What a counted
  node uses is counted, was replaced, or waits to be looked at (`Reaching`). What is kept
  of the other roots is what they reach now (`OthersRight`); if nothing of it was
  replaced, each of its nodes is reached without the nodes replaced too, so the first
  count over that base ends with what every root reaches (`Scratching`), which is where
  `PlainUses` starts. Each later step does to the count with its base what the plain one
  does to a single function. Assumed: nodes use at most two nodes there before them.
- **SatSolver.** Three kinds of parts make `Inv`. Shape: clauses of two literals or more, each once, a
  trail that assigns a variable once, level by level, each reason with its other literals
  false before (`Because`), a watch for each of a clause's first two literals and none to
  spare (`Fits`, `Complete`). Propagation: of a clause with a false watch, once
  that literal's turn is over, some literal is true and was assigned no
  later level (`Caught`), and during a turn this holds of the entries looked at; so it
  survives any jump back, and with nothing left to propagate no clause is missed. Meaning:
  what was added is a clause of the arena that reductions leave alone, or true at level 0
  (`AllKept`), and every model of it satisfies the arena and level 0 (`Entailed`,
  `Agrees`). Learning keeps this because each step of the analysis resolves
  (`Met`), and a literal left out by minimisation is false, by descent along the trail,
  whenever the others are. A reduction thins the arena (`Thinner`) and renumbering it
  maps clauses one to one (`Compact`), reasons and watches with them. The logged proof has
  an invariant of its own, `ProofInv`, on top of `Inv`: until the formula is refuted the
  checker holds every clause of the arena that is not deleted, as often as it stands there
  (`Backs`; two clauses may come to have the same literals, so that a count is needed when
  one of them is dropped), and as a clause every assignment of level 0 that has no reason
  (`UnitsHeld`, which no reduction drops since it drops long clauses only). The checker's
  propagation is a least closed set (`Spread`, `RupIs`), so a clause follows when every
  closed set with its negation has some literal both ways (`Clashes`). For a lemma or the
  final contradiction that is the trail, in order (`ClashConflict`, `ClashTrue`); for a
  learned clause it is the analysis backwards: a closed set that denies what is left
  after minimisation denies what was left out, along the trail (`RedundantDenied`), and
  then each clause before a resolution, back to the one in conflict (`ResolventDenied`).
  Assumed: clauses and lemmas over finitely many variables, limits natural numbers.

Only model-checked: liveness; `NeverWaitsTwice`, which rests on what passes offer (a pass
checks itself that it makes the DAG smaller, while the model allows any candidate, and one
over the node it replaces would have that node wait again); the MBA phases' part of
`MemoTrue` (above); `Constraints` and `Memory`, whose definitions use `RECURSIVE`
operators, which the prover does not support.

## 7. Plan

In this order, each with its run, and proofs where stated:

1. `Constraints` and `Memory` with recursive functions in place of operators, and then
   proofs of their invariants.
2. `Saturate` (`eqsat/mod.rs`, `eqsat/pattern.rs`): matching windows and the claim
   of saturation over `EGraph`.
3. `RunEach` (`engine/mod.rs`): threads, slots, copying back.
4. `MbaGate` (`mba/solve.rs`, `mba/nf/mod.rs`): cache under a mutex, limits,
   certificates, over `ThreadedSolver`.
5. If time allows: the template cache.

## 8. What is not modelled

Rules, passes, normal forms and solvers as algorithms: they are sequential
functions of terms, tested in the repository against exhaustive and random
evaluation, and appear in the models as the candidates they offer. Parsers,
printers, lifters and encoders: functions of their input. `value/` and `fp/`:
machine arithmetic. The checking harness (`check/`) fans chunks out and joins
them in order, sharing nothing. Bindings and tools are thin layers. Also left
out: the layout of hash tables and stamps, logging, and the wording of errors.
