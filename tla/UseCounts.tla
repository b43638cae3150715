------------------------------ MODULE UseCounts ------------------------------
(***************************************************************************)
(* How the engine keeps use counts (engine/pass/mod.rs, Live and Others):  *)
(* what the roots other than the active one use is counted once per root   *)
(* and stands below the counts of every phase run in which nothing they    *)
(* reach was replaced; a phase run keeps its changes on top.               *)
(***************************************************************************)
EXTENDS Integers, Sequences, FiniteSets

CONSTANTS
  Starts, MaxNodes,
  MaxRuns   \* bound: phase runs

\* A node uses none, one or two nodes that were there before it.
ASSUME StartsAssumption ==
  \A s \in Starts :
    /\ s.kids \in Seq(Seq(Nat)) /\ s.roots \in Seq(DOMAIN s.kids) /\ s.roots # <<>>
    /\ \A n \in DOMAIN s.kids :
          /\ Len(s.kids[n]) \in 0 .. 2
          /\ \A k \in DOMAIN s.kids[n] : s.kids[n][k] \in 1 .. n - 1

VARIABLES
  kids, roots, active, start, on, upto, dead, task, stack,  \* as in PlainUses
  othersFor,   \* the root that what follows leaves out, or None
  reach,       \* the nodes below the other roots
  othersUses,  \* the uses they make
  base,        \* whether these stand below the counts
  plus,        \* nodes outside the base whose edges count
  minus,       \* nodes of the base whose edges no longer do
  delta,       \* changes of the uses, of the nodes that have one
  seen,        \* the nodes the first count has been at
  runs         \* bound

others == <<othersFor, reach, othersUses>>
live == <<base, plus, minus, delta>>
arena == <<kids, roots, active, start>>
vars == <<arena, on, upto, dead, task, stack, others, live, seen, runs>>

None == 0
NoChange == [n \in {} |-> 0]

InBase(n) == base /\ n \in reach
Counted == {n \in DOMAIN kids : (InBase(n) /\ n \notin minus) \/ n \in plus}
Base == IF base THEN othersUses ELSE NoChange
Uses ==
  [n \in DOMAIN Base \cup DOMAIN delta |->
     LET sum == (IF n \in DOMAIN Base THEN Base[n] ELSE 0) + (IF n \in DOMAIN delta THEN delta[n] ELSE 0)
     IN  IF sum < 0 THEN 0 ELSE sum]

\* Until the first count has ended there are no counts.
Plain == INSTANCE PlainUses WITH
  counted <- IF on THEN Counted ELSE {},
  uses <- IF on THEN Uses ELSE NoChange,
  task <- IF task = "scratch" THEN "walk" ELSE task,
  stack <- IF task = "scratch" THEN <<>> ELSE stack

Init ==
  /\ \E s \in Starts : kids = s.kids /\ roots = s.roots
  /\ active = 1 /\ start = Len(kids)
  /\ on = FALSE /\ upto = 0 /\ dead = {} /\ task = "walk" /\ stack = <<>>
  /\ othersFor = None /\ reach = {} /\ othersUses = NoChange
  /\ base = FALSE /\ plus = {} /\ minus = {} /\ delta = NoChange
  /\ seen = {} /\ runs = 1

\* What is counted, without the base.
Cleared == base' = FALSE /\ plus' = {} /\ minus' = {} /\ delta' = NoChange

\* A phase run of the active root, or of a later one, starts afresh.  A new round over the
\* roots may start with any of them: what was counted of the others is dropped.
StartPhase ==
  /\ task \in {"walk", "stopped"} /\ runs < MaxRuns
  /\ runs' = runs + 1
  /\ active' \in DOMAIN roots
  /\ \E now \in DOMAIN kids : roots' = [roots EXCEPT ![active] = now]
  /\ \/ active' >= active /\ UNCHANGED othersFor
     \/ othersFor' = None
  /\ start' = Len(kids) /\ on' = FALSE /\ dead' = {}
  /\ Cleared
  /\ task' = "walk" /\ stack' = <<>> /\ seen' = {}
  /\ UNCHANGED <<kids, upto, reach, othersUses>>

Create ==
  /\ task = "walk" /\ Len(kids) < MaxNodes
  /\ \E a, b \in DOMAIN kids :
       /\ \A n \in DOMAIN kids : kids[n] # <<a, b>>
       /\ kids' = Append(kids, <<a, b>>)
  /\ UNCHANGED <<roots, active, start, on, upto, dead, task, stack, others, live, seen, runs>>

Change(d, n, by) ==
  [m \in DOMAIN d \cup {n} |-> (IF m \in DOMAIN d THEN d[m] ELSE 0) + (IF m = n THEN by ELSE 0)]

\* One use more, one less; the second only of a node that has uses.
Add(d, n) == Change(d, n, 1)
Dec(d, n) == IF n \in DOMAIN Uses /\ (IF n \in DOMAIN Base THEN Base[n] ELSE 0)
                                     + (IF n \in DOMAIN d THEN d[n] ELSE 0) > 0
             THEN Change(d, n, -1) ELSE d
OverOperands(Op(_, _), n) ==
  IF kids[n] = <<>> THEN delta
  ELSE IF Len(kids[n]) = 1 THEN Op(delta, kids[n][1])
  ELSE Op(Op(delta, kids[n][1]), kids[n][2])

Count(n) == IF InBase(n) THEN minus' = minus \ {n} /\ UNCHANGED plus
            ELSE plus' = plus \cup {n} /\ UNCHANGED minus
Uncount(n) == IF n \in plus THEN plus' = plus \ {n} /\ UNCHANGED minus
              ELSE minus' = minus \cup {n} /\ UNCHANGED plus

Last == stack[Len(stack)]
Rest == SubSeq(stack, 1, Len(stack) - 1)
Elements(s) == {s[i] : i \in DOMAIN s}

Retire ==
  /\ task = "walk"
  /\ \E n \in DOMAIN kids : stack' = <<n>>
  /\ task' = "retire"
  /\ UNCHANGED <<arena, on, upto, dead, others, live, seen, runs>>

RetireNext ==
  /\ task = "retire" /\ stack # <<>>
  /\ UNCHANGED <<arena, on, upto, task, others, seen, runs>>
  /\ dead' = dead \cup {Last}
  /\ IF Last \in dead \/ Last \notin Counted
     THEN stack' = Rest /\ UNCHANGED live
     ELSE LET orphans == {c \in (DOMAIN Uses' \cap Counted') \ Elements(roots) : Uses'[c] = 0}
          IN  /\ Uncount(Last) /\ UNCHANGED base
              /\ delta' = OverOperands(Dec, Last)
              /\ stack' = Rest \o Plain!Among(kids[Last], orphans)

\* Whether nothing the others reach was replaced.
\* An error: that is not asked.
AlwaysHold(below) == TRUE
OthersHold(below) == below \cap dead = {}

Done ==
  /\ task \in {"retire", "count"} /\ stack = <<>>
  /\ task' = "walk"
  /\ upto' = IF task = "count" THEN Len(kids) ELSE upto
  /\ UNCHANGED <<arena, on, dead, stack, others, live, seen, runs>>

\* On first need the others are counted, if it was for another root, and stand below the
\* counts if nothing they reach was replaced in this phase run.
Refresh ==
  /\ task = "walk" /\ ~on
  /\ IF othersFor = active
     THEN UNCHANGED others
     ELSE /\ othersFor' = active
          /\ reach' = Plain!Below({roots[k] : k \in DOMAIN roots \ {active}}, {})
          /\ othersUses' = Plain!UsesFrom(reach')
  /\ seen' = {} /\ UNCHANGED <<plus, minus, delta>>
  /\ LET hold == OthersHold(reach')
     IN  \/ hold /\ task' = "stopped" /\ stack' = <<>> /\ UNCHANGED base
         \/ /\ base' = (hold /\ reach' # {})
            /\ stack' = IF hold THEN <<roots[active]>> ELSE roots
            /\ task' = "scratch"
  /\ UNCHANGED <<arena, on, upto, dead, runs>>

\* Then what the active root reaches besides, but through nodes replaced.
ScratchNext ==
  /\ task = "scratch" /\ stack # <<>>
  /\ IF InBase(Last) \/ Last \in seen \/ Last \in dead
     THEN stack' = Rest /\ UNCHANGED <<live, seen, task>>
     ELSE /\ seen' = seen \cup {Last}
          /\ \/ /\ delta' = OverOperands(Add, Last) /\ Count(Last)
                /\ stack' = Rest \o kids[Last]
                /\ UNCHANGED <<base, task>>
             \/ Cleared /\ task' = "stopped" /\ stack' = <<>>
  /\ UNCHANGED <<arena, on, upto, dead, others, runs>>

\* Nodes not looked at before come next, the first on top; the budget may end there.
LookAtNew(from) ==
  \/ task' = "stopped" /\ stack' = <<>>
  \/ task' = "count" /\ stack' = Plain!Fresh(from, dead \cup Counted)

ScratchDone ==
  /\ task = "scratch" /\ stack = <<>>
  /\ on' = TRUE /\ upto' = start /\ LookAtNew(start)
  /\ UNCHANGED <<arena, dead, others, live, seen, runs>>

RefreshMore ==
  /\ task = "walk" /\ on
  /\ LookAtNew(upto)
  /\ UNCHANGED <<arena, on, upto, dead, others, live, seen, runs>>

CountNext ==
  /\ task = "count" /\ stack # <<>>
  /\ UNCHANGED <<arena, on, upto, others, seen, runs>>
  /\ IF Last \in Counted
     THEN stack' = Rest /\ UNCHANGED <<live, dead, task>>
     ELSE /\ Count(Last) /\ dead' = dead \ {Last} /\ UNCHANGED base
          /\ \/ /\ delta' = OverOperands(Add, Last)
                /\ stack' = Rest \o Plain!Among(kids[Last], DOMAIN kids \ Counted')
                /\ UNCHANGED task
             \/ task' = "stopped" /\ stack' = <<>> /\ UNCHANGED delta

Next ==
  \/ StartPhase \/ Create \/ Retire \/ RetireNext \/ Done
  \/ Refresh \/ ScratchNext \/ ScratchDone \/ RefreshMore \/ CountNext

Spec == Init /\ [][Next]_vars

-----------------------------------------------------------------------------
(* Properties. *)

\* The counts answer as one count of uses and one set of counted nodes would, each counted
\* from scratch over every root when first needed: the base below them, kept across phase
\* runs, never shows.
ImplementsPlainUses == Plain!PlainSpec

\* Between the operations the counts are right: a node has as many uses as edges from
\* counted nodes lead to it; what a counted node uses, and what was built in the phase run,
\* is counted too, or was replaced.
CountsExact ==
  task = "walk" /\ on =>
    /\ \A n \in DOMAIN kids :
         (IF n \in DOMAIN Uses THEN Uses[n] ELSE 0) = Cardinality(Plain!Edges(Counted, n))
    /\ Counted \cap dead = {}
    /\ \A n \in Counted : Plain!Operands(n) \subseteq Counted \cup dead
    /\ start + 1 .. upto \subseteq Counted \cup dead
=============================================================================
