----------------------------- MODULE Simplifier -----------------------------
(***************************************************************************)
(* One root's simplification (engine/mod.rs): the strategy's rounds and    *)
(* phases, the walk of a phase over the hash-consed DAG with its explicit  *)
(* stack, the candidates tried at a node, the memo of final results kept   *)
(* in the context across calls, what is kept when a budget runs out, and   *)
(* the cycles a pass's phase cuts.                                         *)
(*                                                                         *)
(* A node stands for its term.  What the rules, passes and host rewrites   *)
(* are is abstracted to the candidates they offer at a node; what the use  *)
(* counts of the live DAG answer is abstracted to a choice.                *)
(***************************************************************************)
EXTENDS Integers, Sequences, FiniteSets

CONSTANTS
  Nodes,              \* every node the context can come to hold
  Roots,              \* the ones the host builds and asks about
  Kids(_),            \* a node's operands, in order
  Rebuild(_, _),      \* cx.rebuild: a node over other operands, as the constructors store it
  Below(_),           \* a node and every node under it
  Opaque(_),          \* whether a node is an opaque extension call
  NumPhases,          \* the strategy's phases are 1 .. NumPhases
  LocalPhases,        \* those that run rules
  MbaPhases,          \* those that run the MBA service; the others run a pass
  MaxRounds,          \* strategy.max_rounds
  Settings,           \* what keys the memo: engine, hook revision, assumptions
  Rewriters,          \* rules, host rewrites and passes
  Mba,                \* the MBA service among them
  Asks(_),            \* whether the MBA service's limits admit the question at a node
  Links(_, _),        \* whether a node and its user are in one chain of sums or of products
  Heeded,             \* those whose quarantine is looked at before they are tried
  Attempts(_, _, _),  \* what is tried at a node under a setting, in a phase, in order
  Constraints,        \* the constraints an assumption set can hold
  Limits,             \* the budgets a call can be given
  Worlds,             \* the assignments of the symbols
  Value(_, _),        \* what a node evaluates to in a world
  Holds(_, _),        \* whether a constraint holds in a world
  None                \* no setting, no outcome

Phases == 1 .. NumPhases

Counters == {"node_visits", "candidates", "rewrites", "new_nodes"}

Fins == [done : BOOLEAN, capped : BOOLEAN, rel : SUBSET Constraints]

\* What can be tried at a node: who makes it, the node it offers, the
\* constraints it relies on, what the postconditions make of it, whether the
\* host vetoes it, and whether use counts or a work cap can decline it.
Candidates ==
  [by : Rewriters, to : Nodes, rel : SUBSET Constraints, check : {"ok", "order", "wrong"},
   vetoed : BOOLEAN, sharing : BOOLEAN, costly : BOOLEAN]

\* n and r agree wherever the constraints in rel hold.
Equal(n, r, rel) ==
  \A w \in Worlds : (\A k \in rel : Holds(k, w)) => Value(n, w) = Value(r, w)

ASSUME PhasesAssumption ==
  NumPhases \in Nat \ {0} /\ MaxRounds \in Nat \ {0} /\ LocalPhases \cap MbaPhases = {}

ASSUME NodesAssumption ==
  /\ Roots \subseteq Nodes
  /\ \A n \in Nodes : /\ Kids(n) \in Seq(Nodes)
                      /\ n \in Below(n) /\ Below(n) \subseteq Nodes /\ IsFiniteSet(Below(n))

\* Constructors preserve meaning: equal operands give equal nodes.
ASSUME RebuildAssumption ==
  \A n \in Nodes : \A ks \in [DOMAIN Kids(n) -> Nodes] :
    /\ Rebuild(n, ks) \in Nodes
    /\ \A w \in Worlds :
         (\A i \in DOMAIN Kids(n) : Value(Kids(n)[i], w) = Value(ks[i], w))
           => Value(n, w) = Value(Rebuild(n, ks), w)

\* A candidate the postconditions let through is right: a proven rule is, and
\* the sampled points stand for every assignment.
ASSUME AttemptsAssumption ==
  \A s \in Settings, p \in Phases, n \in Nodes :
    /\ Attempts(s, p, n) \in Seq(Candidates)
    /\ \A i \in DOMAIN Attempts(s, p, n) :
         LET c == Attempts(s, p, n)[i] IN c.check = "ok" => Equal(n, c.to, c.rel)

Calls == [setting : Settings, root : Roots, limit : Limits, deadline : BOOLEAN]

ASSUME LimitsAssumption == Limits \subseteq [Counters -> Nat] /\ None \notin Settings \cup Calls

VARIABLES
  \* The context: it outlives the call.
  arena,        \* the nodes built so far
  memo,         \* the memo's key, and per phase the final result of nodes
  \* The call.
  mode,         \* what the call is doing
  call,         \* its setting, root, limit and whether it has a deadline
  spent,        \* the meter
  quarantined,  \* rewriters found wrong in this call
  rewritten,    \* what passes rewrote from, and to, in this call
  partial,      \* per phase, the call's results that are not final
  \* The strategy.
  phase, round, roundStart, cur, curFin,
  \* The walk of a phase.
  stack,        \* frames, the top first
  charged,      \* whether the visit at the top has been charged
  pending,      \* how many Finish frames wait for each node
  first,        \* MBA phase: the questions considered before their operands
  parent,       \* MBA phase: the user through which a node was first reached
  trying,       \* the node whose candidates are being tried
  \* The salvage of a phase a budget stopped.
  work, done, open,
  outcome       \* what the last call returned

contextVars  == <<arena, memo>>
strategyVars == <<phase, round, roundStart, cur, curFin>>
walkVars     == <<stack, charged, pending, first, parent, trying>>
salvageVars  == <<work, done, open>>
vars == <<contextVars, mode, call, spent, quarantined, rewritten, partial, strategyVars,
          walkVars, salvageVars, outcome>>

-----------------------------------------------------------------------------
(* Partial maps, finality, results. *)

Empty == [n \in {} |-> None]
Put(f, n, v) == [m \in DOMAIN f \cup {n} |-> IF m = n THEN v ELSE f[m]]
NoResults == [p \in Phases |-> Empty]

FINAL       == [done |-> TRUE,  capped |-> FALSE, rel |-> {}]
\* An error: what is kept back for this call only counts as final.
ProvisionalFinal == FINAL
PROVISIONAL == [done |-> FALSE, capped |-> FALSE, rel |-> {}]
\* An error: a cap's "no" counts as final.
CappedFinal == [done |-> TRUE,  capped |-> TRUE,  rel |-> {}]
CAPPED      == [done |-> FALSE, capped |-> TRUE,  rel |-> {}]
Relying(rel)   == [FINAL EXCEPT !.rel = rel]
WithoutRel(f)  == [f EXCEPT !.rel = {}]
\* An error: only the last constraints are kept.
BothForgetful(f, g) ==
  [done |-> f.done /\ g.done, capped |-> f.capped \/ g.capped, rel |-> f.rel]
Both(f, g) == [done |-> f.done /\ g.done, capped |-> f.capped \/ g.capped, rel |-> f.rel \cup g.rel]

Result(n, f) == [to |-> n, fin |-> f]

\* The result for n in the phase: final ones first.
Known(n) == n \in DOMAIN memo.result[phase] \cup DOMAIN partial[phase]
Lookup(n) ==
  IF n \in DOMAIN memo.result[phase]
  THEN Result(memo.result[phase][n].to, Relying(memo.result[phase][n].rel))
  ELSE partial[phase][n]
LookupOr(n, f) == IF Known(n) THEN Lookup(n) ELSE Result(n, f)

\* Remembers a result: across calls only when it is final.
Remember(n, r, f) ==
  \/ /\ f.done
     /\ memo' = [memo EXCEPT !.result[phase] = Put(@, n, [to |-> r, rel |-> f.rel])]
     /\ UNCHANGED partial
  \/ /\ ~f.done
     /\ partial' = [partial EXCEPT ![phase] = Put(@, n, Result(r, f))]
     /\ UNCHANGED memo

\* The results of n's operands, the operands they give and what they contribute.
KidResults(n) == [i \in DOMAIN Kids(n) |-> Lookup(Kids(n)[i])]
OverKids(rs)  == [i \in DOMAIN rs |-> rs[i].to]
KidsFin(rs) ==
  [done |-> \A i \in DOMAIN rs : rs[i].fin.done, capped |-> \E i \in DOMAIN rs : rs[i].fin.capped,
   rel |-> UNION {rs[i].fin.rel : i \in DOMAIN rs}]

\* Whether n, or the nodes of a candidate, can be charged; and the charge.
\* An error: only what was spent before is compared.
AffordsBefore(c, k) == spent[c] <= call.limit[c]
Affords(c, k) == spent[c] + k <= call.limit[c]
Charge(c, k)  == Affords(c, k) /\ spent' = [spent EXCEPT ![c] = @ + k]

\* The one sequence of a set of positions from the last to the first.
Descending(S) ==
  {f \in [1 .. Cardinality(S) -> S] : \A i, j \in DOMAIN f : i < j => f[i] > f[j]}

\* The nodes to build to hold n, each charged.
Missing(n) == Below(n) \ arena

-----------------------------------------------------------------------------
(* The call and its strategy. *)

Visit(n)          == [kind |-> "visit", node |-> n, to |-> n, own |-> FINAL]
FinishWith(n, t, f) == [kind |-> "finish", node |-> n, to |-> t, own |-> f]
\* An error: the order of the frames is swapped.
AwaitFirst(n, t, f) == <<FinishWith(n, t, f), Visit(t)>>
\* n's result is t's, once that is known.
Await(n, t, f) == <<Visit(t), FinishWith(n, t, f)>>

NotTrying ==
  [node |-> None, early |-> FALSE, own |-> FINAL, fin |-> FINAL, left |-> <<>>, step |-> "offered"]

Init ==
  /\ arena = {}
  /\ memo = [key |-> None, result |-> NoResults]
  /\ mode = "idle"
  /\ call = None
  /\ spent = [c \in Counters |-> 0]
  /\ quarantined = {}
  /\ rewritten = {}
  /\ partial = NoResults
  /\ phase = 1 /\ round = 1 /\ roundStart = None /\ cur = None /\ curFin = FINAL
  /\ stack = <<>> /\ charged = FALSE /\ pending = Empty /\ first = Empty /\ parent = Empty
  /\ trying = NotTrying
  /\ work = <<>> /\ done = Empty /\ open = {}
  /\ outcome = None

\* A call on one root; the memo is kept only if it was filled under the same
\* engine, hooks and assumptions.
BeginCall(s, root, l, deadline) ==
  /\ mode = "idle"
  /\ arena' = arena \cup Below(root)
  /\ memo'  = IF memo.key = s THEN memo ELSE [key |-> s, result |-> NoResults]
  /\ mode'  = "phase"
  /\ call'  = [setting |-> s, root |-> root, limit |-> l, deadline |-> deadline]
  /\ cur' = root /\ roundStart' = root
  /\ outcome' = None
  /\ UNCHANGED <<spent, quarantined, rewritten, partial, phase, round, curFin, walkVars,
                 salvageVars>>

\* The call returns r, and its runner is dropped.
Return(r, f, end) ==
  /\ outcome' = [root |-> call.root, setting |-> call.setting, to |-> r, end |-> end,
                 rel |-> IF r = call.root THEN {} ELSE f.rel, final |-> f.done]
  /\ mode' = "idle" /\ call' = None
  /\ spent' = [c \in Counters |-> 0]
  /\ quarantined' = {} /\ rewritten' = {} /\ partial' = NoResults
  /\ phase' = 1 /\ round' = 1 /\ roundStart' = None /\ cur' = None /\ curFin' = FINAL
  /\ stack' = <<>> /\ charged' = FALSE /\ pending' = Empty /\ first' = Empty /\ parent' = Empty
  /\ trying' = NotTrying
  /\ work' = <<>> /\ done' = Empty /\ open' = {}
  /\ UNCHANGED contextVars

\* A root with a final result needs no walk.
RootKnown ==
  /\ mode = "phase"
  /\ cur \in DOMAIN memo.result[phase]
  /\ cur' = Lookup(cur).to
  /\ curFin' = Both(curFin, Lookup(cur).fin)
  /\ mode' = "next"
  /\ UNCHANGED <<contextVars, call, spent, quarantined, rewritten, partial, phase, round,
                 roundStart, walkVars, salvageVars, outcome>>

\* A pass's decisions depend on sharing, which may have changed: its results
\* that are not final are forgotten.
EnterWalk ==
  /\ mode = "phase"
  /\ cur \notin DOMAIN memo.result[phase]
  /\ partial' = IF phase \in LocalPhases THEN partial ELSE [partial EXCEPT ![phase] = Empty]
  /\ mode' = "walk"
  /\ stack' = <<Visit(cur)>>
  /\ charged' = FALSE /\ pending' = Empty /\ first' = Empty /\ parent' = Empty
  /\ trying' = NotTrying
  /\ UNCHANGED <<contextVars, call, spent, quarantined, rewritten, strategyVars, salvageVars,
                 outcome>>

\* An error: the walk's finality is not passed on.
LeaveWalkFinal ==
  /\ mode = "walk"
  /\ stack = <<>>
  /\ cur' = LookupOr(cur, PROVISIONAL).to
  /\ curFin' = Both(curFin, Relying(LookupOr(cur, PROVISIONAL).fin.rel))
  /\ mode' = "next"
  /\ UNCHANGED <<contextVars, call, spent, quarantined, rewritten, partial, phase, round,
                 roundStart, walkVars, salvageVars, outcome>>

LeaveWalk ==
  /\ mode = "walk"
  /\ stack = <<>>
  /\ cur' = LookupOr(cur, PROVISIONAL).to
  /\ curFin' = Both(curFin, LookupOr(cur, PROVISIONAL).fin)
  /\ mode' = "next"
  /\ UNCHANGED <<contextVars, call, spent, quarantined, rewritten, partial, phase, round,
                 roundStart, walkVars, salvageVars, outcome>>

\* The next phase, the next round while the last one changed something, or the
\* end of the call.
NextPhase ==
  /\ mode = "next"
  /\ \/ /\ phase < NumPhases
        /\ phase' = phase + 1
        /\ UNCHANGED <<round, roundStart>>
     \/ /\ phase = NumPhases /\ cur # roundStart /\ round < MaxRounds
        /\ phase' = 1 /\ round' = round + 1 /\ roundStart' = cur
  /\ mode' = "phase"
  /\ UNCHANGED <<contextVars, call, spent, quarantined, rewritten, partial, cur, curFin,
                 walkVars, salvageVars, outcome>>

Complete ==
  /\ mode = "next"
  /\ phase = NumPhases /\ (cur = roundStart \/ round = MaxRounds)
  /\ Return(cur, curFin, IF curFin.capped /\ ~curFin.done THEN "terminated" ELSE "completed")

-----------------------------------------------------------------------------
(* The walk of a phase. *)

Top == Head(stack)
Local == phase \in LocalPhases

\* The phases of passes keep count of the results that wait on each node.
Waiting(n) == n \in DOMAIN pending
Wait(n) ==
  pending' = IF Local THEN pending ELSE Put(pending, n, IF Waiting(n) THEN pending[n] + 1 ELSE 1)
\* Errors: the count stays, or reaches zero and stays.
UnwaitNothing(n) == pending' = pending
UnwaitToZero(n)  == pending' = IF Waiting(n) THEN [pending EXCEPT ![n] = @ - 1] ELSE pending
Unwait(n) ==
  pending' = IF Waiting(n) /\ pending[n] = 1 THEN [m \in DOMAIN pending \ {n} |-> pending[m]]
             ELSE IF Waiting(n) THEN [pending EXCEPT ![n] = @ - 1] ELSE pending

\* A node rewritten (or rebuilt) into t has t's result.
Finish ==
  /\ mode = "walk" /\ stack # <<>> /\ Top.kind = "finish"
  /\ LET x == LookupOr(Top.to, PROVISIONAL)
     IN  Remember(Top.node, x.to, Both(Top.own, x.fin))
  /\ Unwait(Top.node)
  /\ stack' = Tail(stack)
  /\ UNCHANGED <<arena, mode, call, spent, quarantined, rewritten, strategyVars, charged, first,
                 parent, trying, salvageVars, outcome>>

Visiting(n) == mode = "walk" /\ stack # <<>> /\ Top.kind = "visit" /\ Top.node = n

VisitKnown(n) ==
  /\ Visiting(n) /\ Known(n)
  /\ stack' = Tail(stack)
  /\ UNCHANGED <<contextVars, mode, call, spent, quarantined, rewritten, partial, strategyVars,
                 charged, pending, first, parent, trying, salvageVars, outcome>>

VisitCharged(n) ==
  /\ Visiting(n) /\ ~Known(n) /\ ~charged
  /\ Charge("node_visits", 1)
  /\ charged' = TRUE
  /\ UNCHANGED <<contextVars, mode, call, quarantined, rewritten, partial, strategyVars, stack,
                 pending, first, parent, trying, salvageVars, outcome>>

\* An opaque extension call is an atom, arguments included.
VisitOpaque(n) ==
  /\ Visiting(n) /\ charged /\ Opaque(n)
  /\ Remember(n, n, FINAL)
  /\ stack' = Tail(stack)
  /\ charged' = FALSE
  /\ UNCHANGED <<arena, mode, call, spent, quarantined, rewritten, strategyVars, pending, first,
                 parent, trying, salvageVars, outcome>>

\* The MBA service is not asked once it is quarantined.
MbaQuarantined == phase \in MbaPhases /\ Mba \in quarantined

\* In the MBA phase the question at the top of a fragment (a node whose user is
\* not asked) is asked before the node's operands are walked.
TopQuestion(n) ==
  /\ Asks(n) /\ ~MbaQuarantined
  /\ n \in DOMAIN parent => ~Asks(parent[n])

VisitFirst(n) ==
  /\ Visiting(n) /\ charged /\ ~Opaque(n)
  /\ phase \in MbaPhases /\ n \notin DOMAIN first
  /\ \/ /\ ~TopQuestion(n)
        /\ first' = Put(first, n, [asked |-> FALSE, fin |-> FINAL])
        /\ UNCHANGED <<mode, trying>>
     \/ /\ TopQuestion(n)
        /\ trying' = [NotTrying EXCEPT !.node = n, !.early = TRUE,
                                        !.left = Attempts(call.setting, phase, n)]
        /\ mode' = "try"
        /\ UNCHANGED first
  /\ UNCHANGED <<contextVars, call, spent, quarantined, rewritten, partial, strategyVars, stack,
                 charged, pending, parent, salvageVars, outcome>>

Ready(n) ==
  /\ Visiting(n) /\ charged /\ ~Opaque(n)
  /\ phase \in MbaPhases => n \in DOMAIN first

KidsKnown(n) == \A i \in DOMAIN Kids(n) : Known(Kids(n)[i])

\* The operands without a result first, the last on top.
VisitDescend(n) ==
  /\ Ready(n) /\ ~KidsKnown(n)
  /\ \E order \in Descending({i \in DOMAIN Kids(n) : ~Known(Kids(n)[i])}) :
       stack' = [i \in DOMAIN order |-> Visit(Kids(n)[order[i]])] \o stack
  /\ charged' = FALSE
  /\ parent' = IF phase \in MbaPhases
               THEN [k \in DOMAIN parent \cup {Kids(n)[i] : i \in DOMAIN Kids(n)} |->
                      IF k \in DOMAIN parent THEN parent[k] ELSE n]
               ELSE parent
  /\ UNCHANGED <<contextVars, mode, call, spent, quarantined, rewritten, partial, strategyVars,
                 pending, first, trying, salvageVars, outcome>>

\* The node over its operands' results, and what they contribute to it.
Rebuilt(n) ==
  IF OverKids(KidResults(n)) = Kids(n) THEN n ELSE Rebuild(n, OverKids(KidResults(n)))

\* A replacement is reached through the user of the node it replaces.
Inherit(n, r) ==
  parent' = IF n \in DOMAIN parent /\ r \notin DOMAIN parent THEN Put(parent, r, parent[n])
            ELSE parent

\* m waits on n, or a pass rewrote m into n.
Cycles(m, n) == Waiting(m) \/ (~Local /\ <<m, n>> \in rewritten)

\* A node whose operands changed becomes the rebuilt one, unless that one waits
\* on it or a pass rewrote it from there: then it stays, not final.
VisitRebuild(n) ==
  /\ Ready(n) /\ KidsKnown(n) /\ Rebuilt(n) # n
  /\ Charge("new_nodes", Cardinality(Missing(Rebuilt(n))))
  /\ arena' = arena \cup Below(Rebuilt(n))
  /\ LET m == Rebuilt(n)
         own == KidsFin(KidResults(n))
     IN  \/ /\ Cycles(m, n)
            /\ Remember(n, n, Both(own, PROVISIONAL))
            /\ stack' = Tail(stack)
            /\ UNCHANGED <<pending, parent>>
         \/ /\ ~Cycles(m, n)
            /\ Wait(n)
            /\ Inherit(n, m)
            /\ stack' = Await(n, m, own) \o Tail(stack)
            /\ UNCHANGED <<memo, partial>>
  /\ charged' = FALSE
  /\ UNCHANGED <<mode, call, quarantined, rewritten, strategyVars, first, trying, salvageVars,
                 outcome>>

\* In the MBA phase a question asked before the operands keeps its answer, and
\* a link of a chain whose user is asked is not asked, which is not final.
Unasked(n) ==
  \/ MbaQuarantined
  \/ first[n].asked
  \/ n \in DOMAIN parent /\ Links(n, parent[n]) /\ Asks(parent[n])

\* A node over normal operands: what the phase tries at it.
VisitTry(n) ==
  /\ Ready(n) /\ KidsKnown(n) /\ Rebuilt(n) = n
  /\ phase \in MbaPhases => ~Unasked(n)
  /\ trying' = [NotTrying EXCEPT !.node = n, !.own = KidsFin(KidResults(n)),
                                 !.left = Attempts(call.setting, phase, n)]
  /\ mode' = "try"
  /\ stack' = Tail(stack)
  /\ charged' = FALSE
  /\ UNCHANGED <<contextVars, call, spent, quarantined, rewritten, partial, strategyVars,
                 pending, first, parent, salvageVars, outcome>>

VisitUnasked(n) ==
  /\ Ready(n) /\ KidsKnown(n) /\ Rebuilt(n) = n
  /\ phase \in MbaPhases /\ Unasked(n)
  /\ Remember(n, n, Both(KidsFin(KidResults(n)),
                         IF first[n].asked /\ ~MbaQuarantined THEN WithoutRel(first[n].fin)
                         ELSE PROVISIONAL))
  /\ stack' = Tail(stack)
  /\ charged' = FALSE
  /\ UNCHANGED <<arena, mode, call, spent, quarantined, rewritten, strategyVars, pending, first,
                 parent, trying, salvageVars, outcome>>

-----------------------------------------------------------------------------
(* The candidates at a node. *)

Trying(step) == mode = "try" /\ trying.left # <<>> /\ trying.step = step
Offer == Head(trying.left)
Advance(step) == trying' = [trying EXCEPT !.step = step]
\* The next candidate; this one leaves f.
PassOver(f) ==
  trying' = [trying EXCEPT !.left = Tail(@), !.fin = Both(@, f), !.step = "offered"]
Skipped == Offer.by \in quarantined \cap Heeded

\* An error: the same candidate is looked at again.
SkipNothing ==
  /\ Trying("offered") /\ Skipped
  /\ trying' = [trying EXCEPT !.fin = Both(@, PROVISIONAL)]
  /\ UNCHANGED <<contextVars, mode, call, spent, quarantined, rewritten, partial, strategyVars,
                 stack, charged, pending, first, parent, salvageVars, outcome>>

\* One quarantined is skipped for this call: the result is not final.
SkipQuarantined ==
  /\ Trying("offered") /\ Skipped
  /\ PassOver(PROVISIONAL)
  /\ UNCHANGED <<contextVars, mode, call, spent, quarantined, rewritten, partial, strategyVars,
                 stack, charged, pending, first, parent, salvageVars, outcome>>

ChargeCandidate ==
  /\ Trying("offered") /\ ~Skipped
  /\ Charge("candidates", 1)
  /\ Advance("matched")
  /\ UNCHANGED <<contextVars, mode, call, quarantined, rewritten, partial, strategyVars, stack,
                 charged, pending, first, parent, salvageVars, outcome>>

\* Sharing's "no" may be a "yes" later, and a cap's with more budget.
Decline ==
  /\ Trying("matched")
  /\ \/ Offer.sharing /\ PassOver(PROVISIONAL)
     \/ Offer.costly /\ PassOver(CAPPED)
  /\ UNCHANGED <<contextVars, mode, call, spent, quarantined, rewritten, partial, strategyVars,
                 stack, charged, pending, first, parent, salvageVars, outcome>>

Build ==
  /\ Trying("matched")
  /\ Charge("new_nodes", Cardinality(Missing(Offer.to)))
  /\ arena' = arena \cup Below(Offer.to)
  /\ Advance("built")
  /\ UNCHANGED <<memo, mode, call, quarantined, rewritten, partial, strategyVars, stack, charged,
                 pending, first, parent, salvageVars, outcome>>

NoChange ==
  /\ Trying("built") /\ Offer.to = trying.node
  /\ PassOver(FINAL)
  /\ UNCHANGED <<contextVars, mode, call, spent, quarantined, rewritten, partial, strategyVars,
                 stack, charged, pending, first, parent, salvageVars, outcome>>

\* The postconditions refuse it; a wrong one is quarantined for the call.
Reject ==
  /\ Trying("built") /\ Offer.to # trying.node
  /\ Offer.check # "ok"
  /\ quarantined' = IF Offer.check = "wrong" THEN quarantined \cup {Offer.by} ELSE quarantined
  /\ PassOver(FINAL)
  /\ UNCHANGED <<contextVars, mode, call, spent, rewritten, partial, strategyVars, stack, charged,
                 pending, first, parent, salvageVars, outcome>>

Veto ==
  /\ Trying("built") /\ Offer.to # trying.node
  /\ Offer.check = "ok" /\ Offer.vetoed
  /\ PassOver(FINAL)
  /\ UNCHANGED <<contextVars, mode, call, spent, quarantined, rewritten, partial, strategyVars,
                 stack, charged, pending, first, parent, salvageVars, outcome>>

\* An error: the postconditions are not looked at.
AdmittedUnchecked == Trying("built") /\ Offer.to # trying.node /\ ~Offer.vetoed
Admitted ==
  Trying("built") /\ Offer.to # trying.node /\ Offer.check = "ok" /\ ~Offer.vetoed

\* A question asked before the operands still has its visit on the stack.
BackToWalk == mode' = "walk" /\ charged' = FALSE /\ trying' = NotTrying
Base == IF trying.early THEN Tail(stack) ELSE stack
Taken ==
  first' = IF trying.early THEN Put(first, trying.node, [asked |-> FALSE, fin |-> FINAL]) ELSE first

\* A replacement whose result waits, which the rewrite would make wait on itself.
\* An error: only the node a rewrite came from is looked at.
ClosesOnNode(t) == t = trying.node
Closes(t) == Waiting(t)

\* The node is rewritten, and its result waits on the replacement's; into one
\* that waits on the node itself it settles there, not final.
Accept ==
  /\ Admitted
  /\ Charge("rewrites", 1)
  /\ LET n == trying.node
         t == Offer.to
         f == Both(trying.own, Both(trying.fin, Relying(Offer.rel)))
     IN  \/ /\ Closes(t)
            /\ Remember(n, t, Both(f, PROVISIONAL))
            /\ stack' = Base
            /\ UNCHANGED <<pending, parent, rewritten>>
         \/ /\ ~Closes(t)
            /\ rewritten' = IF Local THEN rewritten ELSE rewritten \cup {<<n, t>>}
            /\ Wait(n)
            /\ Inherit(n, t)
            /\ stack' = Await(n, t, f) \o Base
            /\ UNCHANGED <<memo, partial>>
  /\ Taken
  /\ BackToWalk
  /\ UNCHANGED <<arena, call, quarantined, strategyVars, salvageVars, outcome>>

\* None applies: the node is its own result, relying on nothing of its own.
AllTried ==
  /\ mode = "try" /\ trying.left = <<>> /\ ~trying.early
  /\ Remember(trying.node, trying.node, Both(trying.own, WithoutRel(trying.fin)))
  /\ BackToWalk
  /\ UNCHANGED <<arena, call, spent, quarantined, rewritten, strategyVars, stack, pending, first,
                 parent, salvageVars, outcome>>

\* Or its operands are walked, its own visit paid.
AskedEarly ==
  /\ mode = "try" /\ trying.left = <<>> /\ trying.early
  /\ first' = Put(first, trying.node, [asked |-> TRUE, fin |-> trying.fin])
  /\ mode' = "walk" /\ trying' = NotTrying
  /\ UNCHANGED <<contextVars, call, spent, quarantined, rewritten, partial, strategyVars, stack,
                 charged, pending, parent, salvageVars, outcome>>

-----------------------------------------------------------------------------
(* A budget that runs out, and what is kept of the phase it stopped. *)

\* The phase stops: what it did is salvaged from the root.
Salvaged ==
  /\ mode' = "salvage"
  /\ work' = <<[node |-> cur, expanded |-> FALSE]>>
  /\ done' = Empty /\ open' = {}
  /\ UNCHANGED <<memo, call, quarantined, rewritten, partial, strategyVars, walkVars, outcome>>

VisitDue == mode = "walk" /\ stack # <<>> /\ Top.kind = "visit" /\ ~Known(Top.node) /\ ~charged

OutOfVisits ==
  /\ VisitDue
  /\ ~Affords("node_visits", 1)
  /\ Salvaged
  /\ UNCHANGED <<arena, spent>>

OutOfCandidates ==
  /\ Trying("offered") /\ ~Skipped
  /\ ~Affords("candidates", 1)
  /\ Salvaged
  /\ UNCHANGED <<arena, spent>>

OutOfRewrites ==
  /\ Admitted
  /\ ~Affords("rewrites", 1)
  /\ Salvaged
  /\ UNCHANGED <<arena, spent>>

\* Nodes are refused before they would exceed the budget: as many are built as
\* are left, operands before their users.
Partly(n) ==
  /\ ~Affords("new_nodes", Cardinality(Missing(n)))
  /\ \E built \in SUBSET Missing(n) :
       /\ Cardinality(built) = call.limit["new_nodes"] - spent["new_nodes"]
       /\ \A m \in built : Below(m) \subseteq arena \cup built
       /\ arena' = arena \cup built
  /\ spent' = [spent EXCEPT !["new_nodes"] = call.limit["new_nodes"]]

OutOfNodes ==
  /\ \/ \E n \in Nodes : Ready(n) /\ KidsKnown(n) /\ Partly(Rebuilt(n))
     \/ Trying("matched") /\ Partly(Offer.to)
  /\ Salvaged

\* A deadline means stop now: nothing is salvaged.
OutOfTime ==
  /\ VisitDue \/ (Trying("offered") /\ ~Skipped) \/ Admitted
  /\ call.deadline
  /\ Return(cur, curFin, "terminated")

Item == Head(work)
Met(n) == n \in DOMAIN done
ValueOr(n) == IF Met(n) THEN done[n] ELSE Result(n, FINAL)
Salvaging(n) == mode = "salvage" /\ work # <<>> /\ Item.node = n

\* The rewrites that wait: for each node the one furthest down the stack.
FinishesOf(n) == {i \in DOMAIN stack : stack[i].kind = "finish" /\ stack[i].node = n}
Rewrote(n) == FinishesOf(n) # {}
Deepest(n) == stack[CHOOSE i \in FinishesOf(n) : \A j \in FinishesOf(n) : j <= i]

\* What n's value is worked out from: what it was rewritten into, or its operands.
Sources(n) == IF Rewrote(n) THEN <<Deepest(n).to>> ELSE Kids(n)

salvageKeeps == <<memo, call, quarantined, rewritten, partial, strategyVars, walkVars, outcome>>

SalvageMet(n) ==
  /\ Salvaging(n) /\ Met(n)
  /\ work' = Tail(work)
  /\ UNCHANGED <<salvageKeeps, arena, mode, spent, done, open>>

SalvageKnown(n) ==
  /\ Salvaging(n) /\ ~Met(n) /\ Known(n)
  /\ done' = Put(done, n, Lookup(n))
  /\ work' = Tail(work)
  /\ UNCHANGED <<salvageKeeps, arena, mode, spent, open>>

Unsettled(n) == Salvaging(n) /\ ~Met(n) /\ ~Known(n)
FirstMet(n) == ~Item.expanded /\ n \notin open

\* The sources that are neither worked out nor being worked out, then n again.
SalvageExpand(n) ==
  /\ Unsettled(n) /\ FirstMet(n)
  /\ open' = open \cup {n}
  /\ \E order \in Descending({i \in DOMAIN Sources(n) :
                                ~Met(Sources(n)[i]) /\ Sources(n)[i] \notin open \cup {n}}) :
       work' = [i \in DOMAIN order |-> [node |-> Sources(n)[order[i]], expanded |-> FALSE]]
               \o <<[node |-> n, expanded |-> TRUE]>> \o Tail(work)
  /\ UNCHANGED <<salvageKeeps, arena, mode, spent, done>>

Settle(n, r) ==
  /\ done' = Put(done, n, r)
  /\ open' = open \ {n}
  /\ work' = Tail(work)
  /\ UNCHANGED <<salvageKeeps, mode>>

\* A node that waits on a rewrite is what the rewrite has become so far.
SalvageFinish(n) ==
  /\ Unsettled(n) /\ ~FirstMet(n) /\ Rewrote(n)
  /\ LET v == ValueOr(Deepest(n).to)
     IN  Settle(n, Result(v.to, Both(Deepest(n).own, v.fin)))
  /\ UNCHANGED <<arena, spent>>

\* Any other is rebuilt over its operands, within the new nodes left; one that
\* cannot be stays as it was, operands included.
SalvageRebuild(n) ==
  /\ Unsettled(n) /\ ~FirstMet(n) /\ ~Rewrote(n)
  /\ LET values == [i \in DOMAIN Kids(n) |-> ValueOr(Kids(n)[i])]
         kids == OverKids(values)
         m == Rebuild(n, kids)
     IN  \/ /\ kids = Kids(n)
            /\ Settle(n, Result(n, FINAL))
            /\ UNCHANGED <<arena, spent>>
         \/ /\ kids # Kids(n)
            /\ Charge("new_nodes", Cardinality(Missing(m)))
            /\ arena' = arena \cup Below(m)
            /\ Settle(n, Result(m, KidsFin(values)))
         \/ /\ kids # Kids(n)
            /\ Partly(m)
            /\ Settle(n, Result(n, FINAL))

\* What was salvaged of the root is the call's result, not final.
SalvageEnd ==
  /\ mode = "salvage" /\ work = <<>>
  /\ LET r == ValueOr(cur)
     IN  Return(r.to, IF r.to = cur THEN curFin ELSE Both(curFin, Both(r.fin, PROVISIONAL)),
                "terminated")

-----------------------------------------------------------------------------
Begin == \E s \in Settings, root \in Roots, l \in Limits, d \in BOOLEAN : BeginCall(s, root, l, d)

Strategy == RootKnown \/ EnterWalk \/ LeaveWalk \/ NextPhase \/ Complete

Walk ==
  \/ Finish
  \/ \E n \in Nodes :
       \/ VisitKnown(n) \/ VisitCharged(n) \/ VisitOpaque(n) \/ VisitFirst(n)
       \/ VisitDescend(n) \/ VisitRebuild(n) \/ VisitTry(n) \/ VisitUnasked(n)

Try ==
  \/ SkipQuarantined \/ ChargeCandidate \/ Decline \/ Build \/ NoChange \/ Reject \/ Veto
  \/ Accept \/ AllTried \/ AskedEarly

RunOut == OutOfVisits \/ OutOfCandidates \/ OutOfRewrites \/ OutOfNodes \/ OutOfTime

Salvage ==
  \/ \E n \in Nodes :
       SalvageMet(n) \/ SalvageKnown(n) \/ SalvageExpand(n) \/ SalvageFinish(n)
         \/ SalvageRebuild(n)
  \/ SalvageEnd

Work == Strategy \/ Walk \/ Try \/ RunOut \/ Salvage
Next == Begin \/ Work

Spec == Init /\ [][Next]_vars
\* The call runs on its caller's thread: it does not stop between two steps.
FairSpec == Spec /\ WF_vars(Work)

-----------------------------------------------------------------------------
(* Properties. *)

\* A partial map from nodes into S.
IsPartial(f, S) == DOMAIN f \subseteq Nodes /\ \A n \in DOMAIN f : f[n] \in S

Results == [to : Nodes, fin : Fins]
Frames  == [kind : {"visit", "finish"}, node : Nodes, to : Nodes, own : Fins]

\* The types of the variables, with what each mode leaves unset.
TypeOK ==
  /\ arena \subseteq Nodes
  /\ memo.key \in Settings \cup {None}
  /\ \A p \in Phases :
       /\ IsPartial(memo.result[p], [to : Nodes, rel : SUBSET Constraints])
       /\ IsPartial(partial[p], Results)
  /\ mode \in {"idle", "phase", "next", "walk", "try", "salvage"}
  /\ mode = "idle" <=> call = None
  /\ mode # "idle" =>
       /\ call \in Calls
       /\ memo.key = call.setting
       /\ cur \in Nodes /\ roundStart \in Nodes
  /\ spent \in [Counters -> Nat]
  /\ quarantined \subseteq Rewriters
  /\ rewritten \subseteq Nodes \X Nodes
  /\ phase \in Phases /\ round \in 1 .. MaxRounds /\ curFin \in Fins
  /\ stack \in Seq(Frames) /\ charged \in BOOLEAN
  /\ IsPartial(pending, Nat \ {0})
  /\ IsPartial(parent, Nodes)
  /\ IsPartial(first, [asked : BOOLEAN, fin : Fins])
  /\ trying.left \in Seq(Candidates) /\ trying.own \in Fins /\ trying.fin \in Fins
  /\ mode = "try" => trying.node \in Nodes
  /\ work \in Seq([node : Nodes, expanded : BOOLEAN])
  /\ IsPartial(done, Results) /\ open \subseteq Nodes
  /\ outcome # None => outcome.root \in Roots /\ outcome.to \in Nodes

\* Whatever is remembered, waits or is returned equals the node it stands for
\* in every world where the constraints recorded with it hold: through
\* operands and rewrites, the cycles a phase cuts, memo hits of earlier calls
\* and what is salvaged when a budget stops a phase.
Agrees(n, r) == Equal(n, r.to, r.fin.rel)
Sound ==
  /\ \A p \in Phases :
       /\ \A n \in DOMAIN memo.result[p] : Equal(n, memo.result[p][n].to, memo.result[p][n].rel)
       /\ \A n \in DOMAIN partial[p] : Agrees(n, partial[p][n])
  /\ \A i \in DOMAIN stack : Equal(stack[i].node, stack[i].to, stack[i].own.rel)
  /\ \A n \in DOMAIN done : Agrees(n, done[n])
  /\ call # None => Equal(call.root, cur, curFin.rel)
  /\ outcome # None => Equal(outcome.root, outcome.to, outcome.rel)

\* The candidate a call with every budget, nothing quarantined and no sharing
\* in the way would take.
Applies(n, p) ==
  LET tried == Attempts(memo.key, p, n)
  IN  {i \in DOMAIN tried : tried[i].to # n /\ tried[i].check = "ok" /\ ~tried[i].vetoed}
Chosen(n, p) ==
  Attempts(memo.key, p, n)[CHOOSE i \in Applies(n, p) : \A j \in Applies(n, p) : i <= j]

\* What a final result stands on is final, and it is the result a call with
\* every budget would reach: nothing a cap, a quarantine, sharing or a cut
\* cycle kept back is remembered across calls.  A memo hit reports the
\* constraints of the run that filled it.
ClosedIn(p) ==
  LET final == memo.result[p]
      Agreed(n, t, rel) ==
        t \in DOMAIN final /\ final[n] = [to |-> final[t].to, rel |-> rel \cup final[t].rel]
      AsOffered(n, rel) ==
        Applies(n, p) # {} /\ Agreed(n, Chosen(n, p).to, rel \cup Chosen(n, p).rel)
      Operands(n) == {Kids(n)[i] : i \in DOMAIN Kids(n)}
      rels(n) == UNION {final[k].rel : k \in Operands(n)}
      kids(n) == [i \in DOMAIN Kids(n) |-> final[Kids(n)[i]].to]
      Over(n) == IF kids(n) = Kids(n) THEN n ELSE Rebuild(n, kids(n))
      Normal(n, rel) == Applies(n, p) = {} /\ final[n] = [to |-> n, rel |-> rel]
  IN  \A n \in DOMAIN final :
        \/ Opaque(n) /\ final[n] = [to |-> n, rel |-> {}]
        \/ ~Opaque(n) /\ p \in MbaPhases /\ AsOffered(n, {})
        \/ /\ ~Opaque(n)
           /\ Operands(n) \subseteq DOMAIN final
           /\ \/ Over(n) # n /\ Agreed(n, Over(n), rels(n))
              \/ Over(n) = n /\ (AsOffered(n, rels(n)) \/ Normal(n, rels(n)))
MemoClosed == \A p \in Phases : ClosedIn(p)

\* A memo shared by calls is right: sound, and final where it says so.
MemoTrue == Sound /\ MemoClosed

\* In a phase of passes the records of waiting results agree with the stack,
\* so that none is left when a walk ends (the assertion at engine/mod.rs:1628);
\* a phase of rules keeps none.
PendingExact ==
  IF Local THEN pending = Empty
  ELSE \A n \in Nodes : Cardinality(FinishesOf(n)) = IF Waiting(n) THEN pending[n] ELSE 0

\* No node waits on itself: every cycle of passes' rewrites is cut where it
\* closes, long before a budget is.
NeverWaitsTwice == \A n \in Nodes : Cardinality(FinishesOf(n)) <= 1

\* A result that waits finds the one it waits for.
FinishFindsResult ==
  mode = "walk" =>
    /\ stack = <<>> => Known(cur)
    /\ stack # <<>> /\ Top.kind = "finish" => Known(Top.to)

\* What waits is on record, each result once for each time it waits, and is
\* there to be found when its turn comes.
WaitsRight == PendingExact /\ FinishFindsResult

\* No counter is ever past its limit, salvage included.
WithinBudget == call # None => \A c \in Counters : spent[c] <= call.limit[c]

\* Where a round changes nothing and its results are final, a repeated call
\* needs no walk: the memo leads from the root through every phase back to it.
RepeatIsLookup ==
  mode = "next" /\ phase = NumPhases /\ cur = roundStart /\ curFin.done =>
    \E path \in [0 .. NumPhases -> Nodes] :
      /\ path[0] = cur /\ path[NumPhases] = cur
      /\ \A p \in Phases :
           path[p - 1] \in DOMAIN memo.result[p] /\ memo.result[p][path[p - 1]].to = path[p]

\* "A rule or pass that fails a width, verification or tripwire check is
\* quarantined for the call" (docs/design.md, 6.4): it is not tried again.
QuarantineHolds == Trying("matched") => Offer.by \notin quarantined

\* Every call returns.
EveryCallEnds == mode # "idle" ~> mode = "idle"
=============================================================================
