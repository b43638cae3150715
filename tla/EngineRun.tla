----------------------------- MODULE EngineRun -----------------------------
(* A call of the engine on several roots (`run' of engine/mod.rs): the roots  *)
(* in turn, the roots done again once others no longer share what kept a      *)
(* rewrite back, the statistics, and the allowance shared by calls.           *)
(*                                                                            *)
(* What the strategy does to one root is abstracted to a chain of rewrites    *)
(* from form to form, each kept back while some form of another root is live  *)
(* (the module Simplifier has the strategy itself); of the budget's counters  *)
(* one is kept, the rewrites.                                                 *)
EXTENDS Integers, Sequences, FiniteSets

CONSTANTS
    Forms,        \* the expressions the roots go through
    Batches,      \* the sequences of roots a call can be given
    Rewrite,      \* the next form of a form, or None
    KeptBackBy,   \* the forms of other roots that keep that rewrite back
    Uses,         \* the constraints it relies on
    Declined,     \* the roots over an admission cap
    Constraints,
    Worlds,       \* assignments of the symbols
    Holds,        \* the worlds in which a constraint holds
    Value,        \* what a form evaluates to in a world
    PerCalls,     \* budgets a call can have
    Allowance,    \* what the calls can spend together
    MaxCalls,     \* bound: calls
    None

\* f and g agree wherever the constraints of rel hold.
Equal(f, g, rel) ==
    \A w \in Worlds : (\A k \in rel : w \in Holds[k]) => Value[f][w] = Value[g][w]

ASSUME FormsAssumption ==
    /\ Rewrite \in [Forms -> Forms \cup {None}] /\ None \notin Forms
    /\ Uses \in [Forms -> SUBSET Constraints]
ASSUME RewritesAssumption ==
    \A f \in Forms : Rewrite[f] # None => Equal(f, Rewrite[f], Uses[f])
ASSUME BatchesAssumption ==
    \A b \in Batches : b \in Seq(Forms) /\ b # <<>>
ASSUME BudgetsAssumption ==
    Allowance \in Nat /\ PerCalls \subseteq Nat /\ MaxCalls \in Nat

VARIABLES
    mode,         \* "idle", "roots", "work", "rounds", "queue", "again", "returned"
    batch,        \* the roots asked for
    live,         \* the form each distinct root has now, in order
    active,       \* the root being worked on
    done,         \* per root: what became of it
    provisional,  \* roots to be done again: with the version their result was reached at
    queue,        \* those of this round still to come
    version,      \* how many roots were rewritten so far
    changed,      \* whether this round rewrote one
    round,        \* rounds begun
    cur, rel,     \* the strategy: the form reached, what it relies on
    stats,        \* the roots by how they ended
    late,         \* whether the deadline was seen to have passed
    failed,       \* whether an error ended the call
    limit, spent, \* the meter
    allowance,    \* what is left to the calls
    calls, worked \* history: calls begun, rewrites made

callVars == <<batch, limit, allowance, calls>>
stratVars == <<cur, rel, spent, worked>>
vars == <<mode, live, active, done, provisional, queue, version, changed, round, stats,
          late, failed, callVars, stratVars>>

Ends == {"completed", "terminated", "declined"}
NoStats == [e \in Ends |-> [c \in BOOLEAN |-> 0]]

\* The distinct roots of a batch, in order.
Distinct(b) ==
    LET firsts == {i \in DOMAIN b : \A j \in 1 .. i - 1 : b[j] # b[i]}
        At(k) == CHOOSE i \in firsts : Cardinality({j \in firsts : j <= i}) = k
    IN  [k \in 1 .. Cardinality(firsts) |-> b[At(k)]]
Asked == Distinct(batch)

Init ==
    /\ mode = "idle" /\ batch = <<>> /\ live = <<>> /\ active = 0 /\ done = <<>>
    /\ provisional = <<>> /\ queue = <<>> /\ version = 0 /\ changed = FALSE /\ round = 0
    /\ cur = None /\ rel = {} /\ stats = NoStats /\ late = FALSE /\ failed = FALSE
    /\ limit = 0 /\ spent = 0 /\ allowance = Allowance /\ calls = 0 /\ worked = 0

\* An error: what the allowance has left is not looked at.
PerCallOnly(m, n) == m
Lesser(m, n) == IF m < n THEN m ELSE n

\* A call: its meter allows what both the call and the allowance have left.
Call ==
    /\ mode \in {"idle", "returned"} /\ calls < MaxCalls
    /\ \E b \in Batches, p \in PerCalls :
          /\ batch' = b
          /\ live' = Distinct(b)
          /\ limit' = Lesser(p, allowance)
    /\ mode' = "roots" /\ active' = 1 /\ done' = <<>> /\ provisional' = <<>> /\ queue' = <<>>
    /\ version' = 0 /\ changed' = FALSE /\ round' = 0 /\ stats' = NoStats
    /\ late' = FALSE /\ failed' = FALSE /\ cur' = None /\ rel' = {} /\ spent' = 0
    /\ calls' = calls + 1
    /\ UNCHANGED <<allowance, worked>>

\* The meter, which reads the clock now and then as work is charged, sees the deadline
\* passed. It stays so.
Pass ==
    /\ mode \in {"work", "again"} /\ ~late
    /\ late' = TRUE
    /\ UNCHANGED <<mode, live, active, done, provisional, queue, version, changed, round,
                   stats, failed, callVars, stratVars>>

Outcome(to, end, r) == [to |-> to, end |-> end, rel |-> r]
Counted(s, end, c) == [s EXCEPT ![end][c] = @ + 1]

\* A root that is not worked on: the deadline has passed, or an admission cap is exceeded.
TurnAway ==
    /\ mode = "roots" /\ active <= Len(Asked)
    /\ late \/ Asked[active] \in Declined
    /\ LET end == IF late THEN "terminated" ELSE "declined"
       IN  /\ done' = Append(done, Outcome(Asked[active], end, {}))
           /\ stats' = Counted(stats, end, FALSE)
    /\ active' = active + 1
    /\ UNCHANGED <<mode, live, provisional, queue, version, changed, round, late, failed,
                   callVars, stratVars>>

StartRoot ==
    /\ mode = "roots" /\ active <= Len(Asked)
    /\ ~late /\ Asked[active] \notin Declined
    /\ mode' = "work" /\ cur' = Asked[active] /\ rel' = {}
    /\ UNCHANGED <<live, active, done, provisional, queue, version, changed, round, stats,
                   late, failed, callVars, spent, worked>>

\* The strategy on the active root: the forms of the others keep a rewrite back.
Others == {live[j] : j \in DOMAIN live \ {active}}
KeptBack(f) == KeptBackBy[f] \cap Others # {}

Step ==
    /\ mode \in {"work", "again"}
    /\ Rewrite[cur] # None /\ ~KeptBack(cur) /\ spent < limit /\ ~late
    /\ cur' = Rewrite[cur]
    /\ rel' = rel \cup Uses[cur]
    /\ spent' = spent + 1
    /\ worked' = worked + 1
    /\ UNCHANGED <<mode, live, active, done, provisional, queue, version, changed, round,
                   stats, late, failed, callVars>>

\* How the strategy can end: by itself, or stopped by the budget or the deadline (a charge
\* refused while use counts are taken does not stop it). What others keep back is not
\* final.
Final(f) == Rewrite[f] = None
AtRest(f) == Final(f) \/ KeptBack(f)
StrategyEnds ==
    (IF AtRest(cur) THEN {"completed"} ELSE {})
        \cup (IF late \/ (~AtRest(cur) /\ spent = limit) THEN {"terminated"} ELSE {})

\* The version of the live roots a result c of the active root was reached at.
\* An error: as if the root was always rewritten.
SeenAfterRewrite(c) == version + 1
SeenAt(c) == IF c THEN version + 1 ELSE version

FinishRoot ==
    /\ mode = "work"
    /\ \E end \in StrategyEnds :
          LET moved == cur # Asked[active]
          IN  /\ done' = Append(done, Outcome(cur, end, rel))
              /\ stats' = Counted(stats, end, moved)
              /\ live' = [live EXCEPT ![active] = cur]
              /\ version' = IF moved THEN version + 1 ELSE version
              /\ provisional' =
                    IF end = "completed" /\ ~Final(cur)
                    THEN Append(provisional, [at |-> active, seen |-> SeenAt(moved)])
                    ELSE provisional
    /\ active' = active + 1
    /\ mode' = "roots"
    /\ UNCHANGED <<queue, changed, round, late, failed, callVars, stratVars>>

\* An error of a rewrite or of the context ends the call.
Fail ==
    /\ mode \in {"work", "again"}
    /\ failed' = TRUE
    /\ mode' = "rounds"
    /\ UNCHANGED <<live, active, done, provisional, queue, version, changed, round, stats,
                   late, callVars, stratVars>>

RootsDone ==
    /\ mode = "roots" /\ active > Len(Asked)
    /\ mode' = "rounds"
    /\ UNCHANGED <<live, active, done, provisional, queue, version, changed, round, stats,
                   late, failed, callVars, stratVars>>

\* At most three more rounds over the results that are not final, while one changes.
AnotherRound ==
    /\ ~failed /\ Len(live) > 1
    /\ provisional # <<>> /\ round < 3 /\ (round = 0 \/ changed)

StartRound ==
    /\ mode = "rounds" /\ AnotherRound
    /\ mode' = "queue" /\ round' = round + 1
    /\ queue' = provisional /\ provisional' = <<>>
    /\ changed' = FALSE
    /\ UNCHANGED <<live, active, done, version, stats, late, failed, callVars, stratVars>>

\* Nothing was rewritten since: the result is one of the live roots as they are.
StillSettled ==
    /\ mode = "queue" /\ queue # <<>> /\ Head(queue).seen = version
    /\ provisional' = Append(provisional, Head(queue))
    /\ queue' = Tail(queue)
    /\ UNCHANGED <<mode, live, active, done, version, changed, round, stats, late, failed,
                   callVars, stratVars>>

StartAgain ==
    /\ mode = "queue" /\ queue # <<>> /\ Head(queue).seen # version
    /\ mode' = "again"
    /\ active' = Head(queue).at
    /\ cur' = done[Head(queue).at].to /\ rel' = {}
    /\ UNCHANGED <<live, done, provisional, queue, version, changed, round, stats, late,
                   failed, callVars, spent, worked>>

\* What the first result relies on and what the new one does.
\* An error: only the last.
RelyingOnLast(r0, r) == r
Joined(r0, r) == r0 \cup r

\* The counts once a root counted as completed (changed or not: c0) ends anew.
\* An error: a root stopped where it was stays counted as completed.
RecountedIfRewritten(s, c0, moved, end, c) ==
    IF moved THEN [s EXCEPT !["completed"][c0] = @ - 1, ![end][c] = @ + 1] ELSE s
Recounted(s, c0, moved, end, c) ==
    IF moved \/ end # "completed"
    THEN Counted([s EXCEPT !["completed"][c0] = @ - 1], end, c)
    ELSE s

FinishAgain ==
    /\ mode = "again"
    /\ \E end \in StrategyEnds :
          LET root  == Asked[active]
              old   == done[active]
              moved == cur # old.to
              now   == IF moved THEN version + 1 ELSE version
          IN  /\ done' = [done EXCEPT ![active] = Outcome(cur, end, Joined(old.rel, rel))]
              /\ stats' = Recounted(stats, old.to # root, moved, end, cur # root)
              /\ live' = [live EXCEPT ![active] = cur]
              /\ version' = now
              /\ changed' = (changed \/ moved)
              /\ provisional' = IF end = "completed" /\ ~Final(cur)
                                THEN Append(provisional, [at |-> active, seen |-> now])
                                ELSE provisional
    /\ queue' = Tail(queue)
    /\ mode' = "queue"
    /\ UNCHANGED <<active, round, late, failed, callVars, stratVars>>

EndRound ==
    /\ mode = "queue" /\ queue = <<>>
    /\ mode' = "rounds"
    /\ UNCHANGED <<live, active, done, provisional, queue, version, changed, round, stats,
                   late, failed, callVars, stratVars>>

\* The allowance pays what was spent, also when the call fails.
\* An error: only for what succeeded.
PaidIfDone(a) == IF failed THEN a ELSE a - spent
Paid(a) == a - spent
Return ==
    /\ mode = "rounds" /\ ~AnotherRound
    /\ mode' = "returned"
    /\ allowance' = Paid(allowance)
    /\ UNCHANGED <<live, active, done, provisional, queue, version, changed, round, stats,
                   late, failed, batch, limit, calls, stratVars>>

Run == \/ TurnAway \/ StartRoot \/ Step \/ FinishRoot \/ Fail \/ RootsDone
       \/ StartRound \/ StillSettled \/ StartAgain \/ FinishAgain \/ EndRound \/ Return
Next == Call \/ Pass \/ Run

Spec == Init /\ [][Next]_vars

(* Properties. *)

\* When a call ends because a round changed nothing, no completed root could be rewritten
\* further among the results of the others: the rewrites that only sharing kept back were
\* all looked at again. (Three rounds that all change something end it sooner.)
SettledTogether ==
    mode = "returned" /\ ~failed /\ (round < 3 \/ ~changed) =>
        \A i \in DOMAIN done :
            done[i].end = "completed" =>
                \/ Final(done[i].to)
                \/ \E j \in DOMAIN done \ {i} : done[j].to \in KeptBackBy[done[i].to]

\* Every root's result equals it wherever the constraints it is reported to rely on hold,
\* whichever of its runs used them: a result that is the root itself relies on none.
ReliesOnEnough ==
    \A i \in DOMAIN done :
        Equal(Asked[i], done[i].to, IF done[i].to = Asked[i] THEN {} ELSE done[i].rel)

\* Each distinct root is counted once, under how it ended last and whether it changed.
StatsAddUp ==
    \A e \in Ends, c \in BOOLEAN :
        stats[e][c] = Cardinality({i \in DOMAIN done : done[i].end = e /\ (done[i].to # Asked[i]) = c})

\* The calls together never spend more than the allowance, and it pays for all they did,
\* failed calls included.
AllowancePaysForAll ==
    /\ worked <= Allowance
    /\ mode \in {"idle", "returned"} => allowance = Allowance - worked
=============================================================================
