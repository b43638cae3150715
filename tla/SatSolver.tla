------------------------------ MODULE SatSolver ------------------------------
(***************************************************************************)
(* The conflict-driven clause-learning solver (prove/sat.rs): clauses      *)
(* added between calls, two watched literals with blockers, learning,      *)
(* restarts that keep a prefix of the trail, a learned-clause database     *)
(* that is reduced and compacted, lemmas that are tried before they are    *)
(* added, limits at which a call pauses, and the proof it logs.            *)
(*                                                                         *)
(* A literal is a variable or its negative; a clause is the sequence of    *)
(* its literals, the two watched ones first.  Left open is what activities *)
(* decide in the code: the variable decided and its value, when to restart *)
(* and how much of the trail to keep, which learned clauses to drop.  The  *)
(* value, level and reason of a variable are read off the trail.           *)
(***************************************************************************)
EXTENDS Integers, Sequences, SequencesExt, FiniteSets, FiniteSetsExt, Bags

CONSTANTS
  NumVars,
  Formulas,     \* sequences of clauses a user adds: [lits, hint], the hint naming two literals
                \* to watch, if any
  Lemmas,       \* clauses preprocessing may offer
  Limits,       \* [conflicts, propagations] a call may have
  Unbounded,    \* a limit past all work
  MaxCalls,       \* bound: calls and lemmas
  RestartAfter,   \* conflicts after which a search starts again
  MaxReductions,  \* bound: reductions of the learned clauses, which come ever more rarely
  CallsBefore     \* bound: how many clauses may still come when a call is made

ASSUME VarsAssumption == NumVars \in Nat
Vars == 1 .. NumVars
Lits == Vars \cup {-v : v \in Vars}
ASSUME ClausesAssumption ==
  /\ Formulas \subseteq Seq([lits : SUBSET Lits, hint : {<<>>} \cup (Lits \X Lits)])
  /\ Lemmas \subseteq SUBSET Lits
ASSUME LimitsAssumption == Limits \subseteq [conflicts : Nat, propagations : Nat] /\ Unbounded \in Nat

None == 0

VARIABLES
  clauses,   \* [lits, learnt, glue, deleted], numbered from 1
  watches,   \* per literal: the clauses to look at when it becomes true, each with
             \* another literal of it, its blocker
  trail,     \* the literals assigned, in order, each with its reason
  lims,      \* how long the trail was at each decision
  qhead,     \* how much of the trail was propagated
  visiting,  \* the watches of the literal being propagated, still to look at
  conflict,  \* the clause propagation found to be false, or None
  heap,      \* the variables a decision may pick
  phase,     \* the value a variable had last, which a decision gives it again
  unsat,
  task,      \* what propagation is for; idle between calls
  lemma,     \* the lemma being tried
  left,      \* what the call may still do
  answer,    \* of the last call
  todo,      \* the clauses the user will add
  premises,  \* those added
  db,        \* what a checker of the proof holds: [held, refused]
  here,      \* conflicts since the last restart
  reductions, calls  \* bounds

search == <<clauses, watches, trail, lims, qhead, visiting, conflict, heap, phase>>
user == <<todo, premises>>
bounds == <<reductions, calls>>
vars == <<search, unsat, task, lemma, left, answer, user, db, here, bounds>>

Init ==
  /\ clauses = <<>> /\ watches = [l \in Lits |-> <<>>]
  /\ trail = <<>> /\ lims = <<>> /\ qhead = 0 /\ visiting = <<>> /\ conflict = None
  /\ heap = Vars /\ phase = [v \in Vars |-> FALSE] /\ unsat = FALSE
  /\ task = "idle" /\ lemma = {} /\ left = [conflicts |-> 0, propagations |-> 0]
  /\ answer = [kind |-> "none"]
  /\ todo \in Formulas /\ premises = {} /\ db = [held |-> EmptyBag, refused |-> FALSE]
  /\ here = 0 /\ reductions = 0 /\ calls = 0

-----------------------------------------------------------------------------
(* Sequences. *)

Swap(s, i, j) == [s EXCEPT ![i] = s[j], ![j] = s[i]]

\* The numbers of a set, in order, and what a sequence has at some of its places.
InOrder(S) == [i \in 1 .. Cardinality(S) |-> CHOOSE x \in S : Cardinality({y \in S : y <= x}) = i]
Only(s, places) ==
  LET order == InOrder(places) IN [i \in 1 .. Cardinality(places) |-> s[order[i]]]

-----------------------------------------------------------------------------
(* The trail and the clauses. *)

Var(l) == IF l > 0 THEN l ELSE -l
True(t) == {t[i].lit : i \in DOMAIN t}
False(t) == {-t[i].lit : i \in DOMAIN t}
Assigned(t) == {Var(t[i].lit) : i \in DOMAIN t}

At(v) == CHOOSE i \in DOMAIN trail : Var(trail[i].lit) = v
Level(v) == Cardinality({k \in DOMAIN lims : lims[k] < At(v)})
Reason(v) == trail[At(v)].reason
DecisionLevel == Len(lims)

Tautology(c) == \E l \in c : -l \in c
LitsOf(c) == {c.lits[i] : i \in DOMAIN c.lits}
Long(c) == Len(c.lits) > 2

Assign(t, l, reason) == Append(t, [lit |-> l, reason |-> reason])

\* Back to a decision level: its suffix is unassigned and may be decided again.
Cut(level) == IF DecisionLevel <= level THEN Len(trail) ELSE lims[level + 1]
TrailAt(level) == SubSeq(trail, 1, Cut(level))
Freed(level) == {Var(trail[i].lit) : i \in Cut(level) + 1 .. Len(trail)}
\* An error: what is unassigned cannot be decided again.
SameHeap(level) == heap
HeapAt(level) == heap \cup Freed(level)
PhaseAt(level) == [v \in Vars |-> IF v \in Freed(level) THEN v \in True(trail) ELSE phase[v]]
QheadAt(level) == IF DecisionLevel <= level THEN qhead ELSE Cut(level)
LimsAt(level) == IF DecisionLevel <= level THEN lims ELSE SubSeq(lims, 1, level)

\* A clause of two levels or fewer is glue, which is never dropped.
Clause(lits, learnt, glue) == [lits |-> lits, learnt |-> learnt, glue |-> glue, deleted |-> FALSE]
Watch(id, blocker) == [clause |-> id, blocker |-> blocker]

\* A clause is watched under the negation of each watched literal.
Watching(w, id, c) ==
  [w EXCEPT ![-c.lits[1]] = Append(@, Watch(id, c.lits[2])),
            ![-c.lits[2]] = Append(@, Watch(id, c.lits[1]))]

\* Unit propagation from a clause's negation meets a conflict.
Rup(cs, c) ==
  LET Closed[true \in SUBSET Lits] ==
        LET more == true \cup UNION {{l \in d : \A q \in d \ {l} : -q \in true} : d \in cs}
        IN  IF more = true THEN true ELSE Closed[more]
  IN  Tautology(Closed[{-l : l \in c}])

\* The proof's checker holds the user's clauses, and takes a logged one only if it follows.
Given(d, c) == [d EXCEPT !.held = @ (+) SetToBag({c})]
Log(d, c) == [Given(d, c) EXCEPT !.refused = @ \/ ~Rup(BagToSet(d.held), c)]
Unlog(d, dropped) == [d EXCEPT !.held = @ (-) dropped]

-----------------------------------------------------------------------------
(* Adding clauses. *)

Sorted(c) ==
  LET order == InOrder({Var(l) : l \in c})
  IN  [i \in DOMAIN order |-> IF order[i] \in c THEN order[i] ELSE -order[i]]

\* A literal at a place or after it comes to that place.
Brought(s, place, l) ==
  LET at == {i \in place .. Len(s) : s[i] = l}
  IN  IF at = {} THEN s ELSE Swap(s, place, Min(at))

\* The first two literals are watched; those of a hint come first, as far as it names any.
Watched(c, hint) ==
  IF hint = <<>> THEN Sorted(c)
  ELSE Brought(Brought(Sorted(c), 1, hint[1]), IF hint[1] \in c THEN 2 ELSE 1, hint[2])

\* A clause comes in at the top level: literals false there are dropped (which is logged),
\* a clause true there is not kept, and one that is left with a single literal is assigned
\* and propagated.
Incoming(c, hint, learnt, d) ==
  LET top == TrailAt(0)
      kept == c \ False(top)
      logged == IF kept # c THEN Log(d, kept) ELSE d
      Settled(tr, un, how) ==
        /\ trail' = tr /\ unsat' = un /\ task' = how
        /\ UNCHANGED <<clauses, watches>>
  IN  /\ lims' = LimsAt(0) /\ qhead' = QheadAt(0) /\ heap' = HeapAt(0)
      /\ phase' = IF task = "probe" THEN phase ELSE PhaseAt(0)
      /\ visiting' = <<>> /\ conflict' = None
      /\ \/ /\ Tautology(c) \/ c \cap True(top) # {}
            /\ Settled(top, FALSE, "idle") /\ db' = d
         \/ /\ ~Tautology(c) /\ c \cap True(top) = {}
            /\ db' = logged
            /\ \/ kept = {} /\ Settled(top, TRUE, "idle")
               \/ /\ Cardinality(kept) = 1
                  /\ \E l \in kept : Settled(Assign(top, l, None), FALSE, "unit")
               \/ /\ Cardinality(kept) > 1
                  /\ LET new == Clause(Watched(kept, hint), learnt, TRUE)
                     IN  /\ clauses' = Append(clauses, new)
                         /\ watches' = Watching(watches, Len(clauses) + 1, new)
                  /\ trail' = top /\ unsat' = FALSE /\ task' = "idle"

AddClause ==
  /\ task = "idle" /\ todo # <<>> /\ ~unsat
  /\ Incoming(Head(todo).lits, Head(todo).hint, FALSE, Given(db, Head(todo).lits))
  /\ todo' = Tail(todo) /\ premises' = premises \cup {Head(todo).lits}
  /\ answer' = [kind |-> "none"]
  /\ UNCHANGED <<lemma, left, here, bounds>>

MayCall == calls < MaxCalls /\ Len(todo) \in CallsBefore

\* A lemma is tried first: at the top level propagation is brought to an end, then its
\* literals are made false.
OfferLemma ==
  /\ task = "idle" /\ ~unsat /\ MayCall
  /\ lemma' \in Lemmas
  /\ trail' = TrailAt(0) /\ lims' = LimsAt(0) /\ qhead' = QheadAt(0) /\ heap' = HeapAt(0)
  /\ phase' = PhaseAt(0)
  /\ task' = "top" /\ answer' = [kind |-> "none"]
  /\ calls' = calls + 1
  /\ UNCHANGED <<clauses, watches, visiting, conflict, unsat, left, user, db, here, reductions>>

Quiet == qhead = Len(trail) /\ visiting = <<>> /\ conflict = None

\* A lemma with a true literal, or a literal and its negation, follows; otherwise
\* propagation says whether it does, with what it assigned undone.
TryLemma ==
  /\ task = "top" /\ Quiet
  /\ IF Tautology(lemma) \/ lemma \cap True(trail) # {}
     THEN Incoming(lemma, <<>>, TRUE, Log(db, lemma))
     ELSE /\ lims' = Append(lims, Len(trail))
          /\ trail' = trail \o [i \in 1 .. Cardinality(lemma \ False(trail)) |->
                         [lit |-> -SetToSeq(lemma \ False(trail))[i], reason |-> None]]
          /\ task' = "probe"
          /\ UNCHANGED <<clauses, watches, qhead, visiting, conflict, heap, phase, unsat, db>>
  /\ UNCHANGED <<lemma, left, answer, user, here, bounds>>

AcceptLemma ==
  /\ task = "probe" /\ conflict # None
  /\ Incoming(lemma, <<>>, TRUE, Log(db, lemma))
  /\ UNCHANGED <<lemma, left, answer, user, here, bounds>>

RejectLemma ==
  /\ task = "probe" /\ Quiet
  /\ trail' = TrailAt(0) /\ lims' = <<>> /\ qhead' = Cut(0) /\ heap' = HeapAt(0)
  /\ task' = "idle"
  /\ UNCHANGED <<clauses, watches, visiting, conflict, phase, unsat, lemma, left, answer, user, db, here, bounds>>

UnitDone ==
  /\ task = "unit" /\ Quiet
  /\ task' = "idle"
  /\ UNCHANGED <<search, unsat, lemma, left, answer, user, db, here, bounds>>

-----------------------------------------------------------------------------
(* Propagation. *)

Less(n) == IF n = Unbounded THEN n ELSE n - 1
Exhausted == task = "search" /\ left.propagations = 0

\* The next literal: its watches are taken and all looked at before a pause, binary
\* clauses first.
Propagate ==
  /\ task # "idle" /\ conflict = None /\ visiting = <<>> /\ qhead < Len(trail) /\ ~Exhausted
  /\ LET l == trail[qhead + 1].lit
         long == {i \in DOMAIN watches[l] : Long(clauses[watches[l][i].clause])}
     IN  /\ visiting' = Only(watches[l], DOMAIN watches[l] \ long) \o Only(watches[l], long)
         /\ watches' = [watches EXCEPT ![l] = <<>>]
  /\ qhead' = qhead + 1
  /\ left' = IF task = "search" THEN [left EXCEPT !.propagations = Less(@)] ELSE left
  /\ UNCHANGED <<clauses, trail, lims, conflict, heap, phase, unsat, task, lemma, answer, user, db, here, bounds>>

Propagated == trail[qhead].lit
Rest == Tail(visiting)

\* The watch looked at stays, with this blocker.
Stays(w) == watches' = [watches EXCEPT ![Propagated] = Append(@, w)]
Passes == visiting' = Rest /\ UNCHANGED <<trail, qhead, conflict>>

\* All literals of the clause are false but perhaps this one: it is assigned, or the
\* clause is false and the watches not looked at stay.
Unit(w, l) ==
  IF l \in False(trail)
  THEN /\ conflict' = w.clause /\ visiting' = <<>> /\ qhead' = Len(trail)
       /\ watches' = [watches EXCEPT ![Propagated] = (@ \o <<w>>) \o Rest]
       /\ UNCHANGED trail
  ELSE /\ trail' = Assign(trail, l, w.clause) /\ visiting' = Rest
       /\ Stays(w)
       /\ UNCHANGED <<qhead, conflict>>

\* The blocker is true, or the clause was deleted, whose watch goes.
\* An error: its watch goes too.
Forgotten(w) ==
  w.blocker \in True(trail) /\ Passes /\ UNCHANGED <<clauses, watches>>
Blocked(w) == w.blocker \in True(trail) /\ Stays(w) /\ Passes /\ UNCHANGED clauses
Gone(w, c) ==
  /\ w.blocker \notin True(trail) /\ c.deleted
  /\ Passes /\ UNCHANGED <<clauses, watches>>

Binary(w, c) ==
  /\ w.blocker \notin True(trail) /\ ~Long(c)
  /\ Unit(w, w.blocker)
  /\ UNCHANGED clauses

\* The false literal becomes the second.
Swapped(lits) == IF lits[1] = -Propagated THEN Swap(lits, 1, 2) ELSE lits

\* The other literals that can be watched: those not false.
Watchable(lits) == {k \in 3 .. Len(lits) : lits[k] \notin False(trail)}

LongClause(w, c) ==
  /\ w.blocker \notin True(trail) /\ Long(c) /\ ~c.deleted
  /\ LET lits == Swapped(c.lits)
         kept == Watch(w.clause, lits[1])
         found == Watchable(lits)
         Becomes(ls) == clauses' = [clauses EXCEPT ![w.clause].lits = ls]
     IN  \/ lits[1] \in True(trail) /\ Stays(kept) /\ Passes /\ Becomes(lits)
         \/ /\ lits[1] \notin True(trail) /\ found # {}
            /\ LET k == Min(found)
               IN  /\ Becomes(Swap(lits, 2, k))
                   /\ watches' = [watches EXCEPT ![-lits[k]] = Append(@, kept)]
            /\ Passes
         \/ /\ lits[1] \notin True(trail) /\ found = {}
            /\ Becomes(lits) /\ Unit(kept, lits[1])

Look ==
  /\ visiting # <<>>
  /\ LET w == Head(visiting)
         c == clauses[w.clause]
     IN  Blocked(w) \/ Gone(w, c) \/ Binary(w, c) \/ LongClause(w, c)
  /\ UNCHANGED <<lims, heap, phase, unsat, task, lemma, left, answer, user, db, here, bounds>>

-----------------------------------------------------------------------------
(* Learning. *)

\* A conflict with no decision made.
Contradiction ==
  /\ conflict # None /\ DecisionLevel = 0
  /\ unsat' = TRUE /\ db' = Log(db, {})
  /\ answer' = IF task = "search" THEN [kind |-> "unsat"] ELSE answer
  /\ task' = "idle" /\ conflict' = None
  /\ UNCHANGED <<clauses, watches, trail, lims, qhead, visiting, heap, phase, lemma, left, user, here, bounds>>

Above(c) == {l \in c : Level(Var(l)) > 0}
Newest(c) == {l \in c : Level(Var(l)) = DecisionLevel}

\* The false clause, resolved with the reasons of its literals from the last assigned on,
\* until one of them is of the last level: what it is after each assignment looked at.
Resolved ==
  LET After[n \in 0 .. Len(trail)] ==
        IF n = 0 THEN Above(LitsOf(clauses[conflict]))
        ELSE LET c == After[n - 1]
                 l == trail[Len(trail) + 1 - n].lit
             IN  IF Cardinality(Newest(c)) = 1 \/ -l \notin c THEN c
                 ELSE (c \ {-l}) \cup Above(LitsOf(clauses[Reason(Var(l))]) \ {l})
  IN  After[Len(trail)]

\* Literals implied by the others are dropped: those whose reasons lead back to the
\* clause's literals without meeting a decision or another level.
\* An error: what a reason leads to is not looked at.
Careless(c) == {l \in c : Level(Var(l)) # DecisionLevel /\ Reason(Var(l)) # None}
Redundant(c) ==
  LET others == c \ Newest(c)
      levels == {Level(Var(l)) : l \in others}
      Closed(seen) ==
        \A i \in seen :
          /\ trail[i].reason # None
          /\ \A q \in LitsOf(clauses[trail[i].reason]) \ {trail[i].lit} :
               \/ Level(Var(q)) = 0 \/ q \in others
               \/ Level(Var(q)) \in levels /\ At(Var(q)) \in seen
  IN  {l \in others : \E seen \in SUBSET DOMAIN trail : At(Var(l)) \in seen /\ Closed(seen)}

\* Deleted clauses leave the arena: the others are renumbered where they are named.
NewId(cs, id) == Cardinality({i \in 1 .. id : ~cs[i].deleted})
\* An error: the reasons keep their numbers.
SameReasons(t, cs) == t
Renumbered(t, cs) ==
  [i \in DOMAIN t |-> IF t[i].reason = None THEN t[i]
                      ELSE [t[i] EXCEPT !.reason = NewId(cs, t[i].reason)]]

Collected(cs, ws, t) ==
  /\ clauses' = Only(cs, {i \in DOMAIN cs : ~cs[i].deleted})
  /\ watches' = [l \in Lits |->
                   LET live == Only(ws[l], {i \in DOMAIN ws[l] : ~cs[ws[l][i].clause].deleted})
                   IN  [i \in DOMAIN live |-> Watch(NewId(cs, live[i].clause), live[i].blocker)]]
  /\ trail' = Renumbered(t, cs)

\* A clause that is the reason of an assignment stays.
\* An error: it does not matter.
NeverLocked(id, c, t) == FALSE
Locked(id, c, t) == \E i \in DOMAIN t : t[i].lit = c.lits[1] /\ t[i].reason = id

\* A bag of what the clauses with these numbers say.
Said(cs, ids) == [c \in {LitsOf(cs[i]) : i \in ids} |-> Cardinality({i \in ids : LitsOf(cs[i]) = c})]

\* Up to half of the learned clauses go, now and then.
Reduced(cs, ws, t, d) ==
  /\ reductions < MaxReductions /\ reductions' = reductions + 1
  /\ LET able == {i \in DOMAIN cs : cs[i].learnt /\ ~cs[i].deleted /\ ~cs[i].glue}
         free == {i \in able : ~Locked(i, cs[i], t)}
         Marked(doomed) == [i \in DOMAIN cs |-> [cs[i] EXCEPT !.deleted = @ \/ i \in doomed]]
     IN  \E doomed \in SUBSET free :
           /\ 2 * Cardinality(doomed) <= Cardinality(able)
           /\ db' = Unlog(d, Said(cs, doomed))
           /\ \/ clauses' = Marked(doomed) /\ watches' = ws /\ trail' = t
              \/ doomed # {} /\ Collected(Marked(doomed), ws, t)

\* What is learned is kept; a reduction may follow.
Kept(cs, ws, t, d) ==
  \/ Reduced(cs, ws, t, d)
  \/ clauses' = cs /\ watches' = ws /\ trail' = t /\ db' = d /\ UNCHANGED reductions

Learn ==
  /\ task = "search" /\ conflict # None /\ DecisionLevel > 0
  /\ LET resolved == Resolved
         uip == Newest(resolved)
         kept == resolved \ Redundant(resolved)
         rest == kept \ uip
         back == Max({0} \cup {Level(Var(x)) : x \in rest})
         l == CHOOSE x \in uip : TRUE
         t == TrailAt(back)
         id == Len(clauses) + 1
     IN  /\ lims' = LimsAt(back) /\ qhead' = QheadAt(back) /\ heap' = HeapAt(back)
         /\ phase' = PhaseAt(back)
         /\ IF rest = {}
            THEN Kept(clauses, watches, Assign(t, l, None), Log(db, kept))
            ELSE LET s == CHOOSE x \in rest : Level(Var(x)) = back
                     c == Clause(<<l, s>> \o SetToSeq(rest \ {s}), TRUE,
                                Cardinality({Level(Var(x)) : x \in kept}) <= 2)
                 IN  Kept(Append(clauses, c), Watching(watches, id, c), Assign(t, l, id),
                             Log(db, kept))
  /\ conflict' = None /\ here' = here + 1
  /\ left' = [left EXCEPT !.conflicts = Less(@)]
  /\ IF left'.conflicts = 0 \/ left'.propagations = 0
     THEN task' = "idle" /\ answer' = [kind |-> "unknown"]
     ELSE UNCHANGED <<task, answer>>
  /\ UNCHANGED <<visiting, unsat, lemma, user, calls>>

-----------------------------------------------------------------------------
(* Calls. *)

Solve ==
  /\ task = "idle" /\ MayCall
  /\ calls' = calls + 1
  /\ IF unsat
     THEN answer' = [kind |-> "unsat"] /\ UNCHANGED <<task, left>>
     ELSE task' = "search" /\ left' \in Limits /\ answer' = [kind |-> "none"]
  /\ UNCHANGED <<search, unsat, lemma, user, db, here, reductions>>

Pause ==
  /\ Exhausted /\ conflict = None /\ visiting = <<>>
  /\ task' = "idle" /\ answer' = [kind |-> "unknown"]
  /\ UNCHANGED <<search, unsat, lemma, left, user, db, here, bounds>>

\* Assigned variables met on top of the heap leave it when the next decision is looked for;
\* any others come back to it anyway before they can be decided.
Unassigned == heap \ Assigned(trail)

\* An error: the conflicts since the last restart are not counted anew.
RestartAgain ==
  /\ task = "search" /\ Quiet /\ ~Exhausted /\ here >= RestartAfter
  /\ \E keep \in 0 .. DecisionLevel :
       /\ trail' = TrailAt(keep) /\ lims' = LimsAt(keep) /\ qhead' = QheadAt(keep)
       /\ heap' = Unassigned \cup Freed(keep) /\ phase' = PhaseAt(keep)
  /\ UNCHANGED <<clauses, watches, visiting, conflict, unsat, task, lemma, left, answer, user, db,
                 here, bounds>>
\* After some conflicts the search starts again, with as much of the trail as it would
\* rebuild.
Restart ==
  /\ task = "search" /\ Quiet /\ ~Exhausted /\ here >= RestartAfter
  /\ \E keep \in 0 .. DecisionLevel :
       /\ trail' = TrailAt(keep) /\ lims' = LimsAt(keep) /\ qhead' = QheadAt(keep)
       /\ heap' = Unassigned \cup Freed(keep) /\ phase' = PhaseAt(keep)
  /\ here' = 0
  /\ UNCHANGED <<clauses, watches, visiting, conflict, unsat, task, lemma, left, answer, user, db,
                 bounds>>

Decide ==
  /\ task = "search" /\ Quiet /\ ~Exhausted
  /\ \E v \in Unassigned :
       /\ heap' = Unassigned \ {v}
       /\ lims' = Append(lims, Len(trail))
       /\ trail' = Assign(trail, IF phase[v] THEN v ELSE -v, None)
  /\ UNCHANGED <<clauses, watches, qhead, visiting, conflict, phase, unsat, task, lemma, left, answer, user,
                 db, here, bounds>>

Model == {v \in Vars : v \in True(trail)}

AnswerSat ==
  /\ task = "search" /\ Quiet /\ ~Exhausted /\ Unassigned = {}
  /\ answer' = [kind |-> "sat", model |-> Model]
  /\ trail' = TrailAt(0) /\ lims' = LimsAt(0) /\ qhead' = QheadAt(0)
  /\ heap' = Freed(0) /\ phase' = PhaseAt(0)
  /\ task' = "idle"
  /\ UNCHANGED <<clauses, watches, visiting, conflict, unsat, lemma, left, user, db, here, bounds>>

Work ==
  \/ TryLemma \/ AcceptLemma \/ RejectLemma \/ UnitDone
  \/ Propagate \/ Look \/ Contradiction \/ Learn
  \/ Pause \/ Restart \/ Decide \/ AnswerSat

\* The user need not call again.
Finished == task = "idle" /\ UNCHANGED vars

Next == AddClause \/ OfferLemma \/ Solve \/ Work \/ Finished

Spec == Init /\ [][Next]_vars

\* A call in progress goes on: weak fairness of Work, one of whose steps is always
\* possible then (no state of a run deadlocks).
FairSpec == Spec /\ ([]<>(task = "idle") \/ []<><<task # "idle">>_vars)

-----------------------------------------------------------------------------
(* Properties. *)

\* Every assignment made for a reason has one: a clause still kept, in which it is the
\* only literal not false, and the rest were assigned before.  Analysis expects the reason
\* of a long clause first, which is also how the reduction knows a clause is in use.
ReasonsHold ==
  \A i \in DOMAIN trail :
    LET r == trail[i].reason
    IN  r # None =>
          /\ r \in DOMAIN clauses /\ ~clauses[r].deleted
          /\ trail[i].lit \in LitsOf(clauses[r])
          /\ LitsOf(clauses[r]) \ {trail[i].lit} \subseteq False(SubSeq(trail, 1, i - 1))
          /\ Long(clauses[r]) => clauses[r].lits[1] = trail[i].lit

\* When propagation has come to rest, it has missed nothing: every clause kept has a true
\* literal or two that are open, however watches moved, clauses were deleted and calls
\* paused before.
NothingMissed ==
  Quiet /\ ~unsat =>
    \A i \in DOMAIN clauses :
      LET c == LitsOf(clauses[i])
      IN  clauses[i].deleted \/ c \cap True(trail) # {} \/ Cardinality(c \ False(trail)) > 1

Satisfies(model, c) == \E l \in c : IF l > 0 THEN l \in model ELSE -l \notin model

\* Answers are right about the clauses added so far: a model satisfies all of them, and
\* they have none when the solver says so.
AnswersRight ==
  /\ answer.kind = "sat" => \A c \in premises : Satisfies(answer.model, c)
  /\ unsat \/ answer.kind = "unsat" =>
       ~\E model \in SUBSET Vars : \A c \in premises : Satisfies(model, c)

\* The proof logged can be checked step by step: every clause it adds follows by unit
\* propagation from those a checker holds at that point, deletions included.
ProofChecks == ~db.refused

\* Every call ends, also one without limits.
CallsEnd == task # "idle" ~> task = "idle"
=============================================================================
