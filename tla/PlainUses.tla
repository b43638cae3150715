------------------------------ MODULE PlainUses ------------------------------
(***************************************************************************)
(* What use counts are to promise (engine/pass/mod.rs, refresh_uses): one  *)
(* set of the nodes whose edges count and one count of uses per node,      *)
(* counted from scratch over every root when first needed in a phase run,  *)
(* then kept up to date as nodes are created, replaced and used again.     *)
(***************************************************************************)
EXTENDS Integers, Sequences, FiniteSets

CONSTANTS
  Starts,    \* where a call may start: [kids, roots]
  MaxNodes   \* bound: nodes of the arena

VARIABLES
  kids,     \* the arena: the operands of each node, of nodes before it
  roots,    \* the current version of every root
  active,   \* the root being processed
  start,    \* how long the arena was when the phase run began
  on,       \* whether uses are counted in this phase run
  counted,  \* the nodes whose edges count
  uses,     \* of the nodes that have a count
  upto,     \* how much of the arena was looked at
  dead,     \* the nodes replaced in this phase run
  task,     \* what is under way: walk between the operations, stopped by the budget
  stack     \* the nodes it has still to look at

plainVars == <<kids, roots, active, start, on, counted, uses, upto, dead, task, stack>>

Nodes == DOMAIN kids
Operands(n) == {kids[n][k] : k \in DOMAIN kids[n]}
Elements(s) == {s[i] : i \in DOMAIN s}
\* The elements of a sequence that are in a set, in order.
Among(s, set) ==
  LET upTo[i \in 0 .. Len(s)] ==
        IF i = 0 THEN <<>> ELSE IF s[i] \in set THEN Append(upTo[i - 1], s[i]) ELSE upTo[i - 1]
  IN  upTo[Len(s)]
NoUses == [n \in {} |-> 0]

\* The nodes below some, that are not to be avoided.
Closed(set, avoid) == \A n \in set : Operands(n) \ avoid \subseteq set
Below(from, avoid) ==
  {n \in Nodes : \A set \in SUBSET Nodes : from \ avoid \subseteq set /\ Closed(set, avoid) => n \in set}

\* The uses some nodes make of others.
Edges(ns, n) == {e \in ns \X {1, 2} : e[2] \in DOMAIN kids[e[1]] /\ kids[e[1]][e[2]] = n}
UsesFrom(ns) == [n \in UNION {Operands(m) : m \in ns} |-> Cardinality(Edges(ns, n))]

One(u, n) == [m \in DOMAIN u \cup {n} |-> (IF m \in DOMAIN u THEN u[m] ELSE 0) + (IF m = n THEN 1 ELSE 0)]
Less(u, n) == IF n \in DOMAIN u /\ u[n] > 0 THEN [u EXCEPT ![n] = @ - 1] ELSE u

\* Every operand of a node gets a use, or loses one.
Used(u, n) == IF kids[n] = <<>> THEN u
              ELSE IF Len(kids[n]) = 1 THEN One(u, kids[n][1])
              ELSE One(One(u, kids[n][1]), kids[n][2])
Unused(u, n) == IF kids[n] = <<>> THEN u
                ELSE IF Len(kids[n]) = 1 THEN Less(u, kids[n][1])
                ELSE Less(Less(u, kids[n][1]), kids[n][2])

PlainInit ==
  /\ \E s \in Starts : kids = s.kids /\ roots = s.roots
  /\ active = 1 /\ start = Len(kids)
  /\ on = FALSE /\ counted = {} /\ uses = NoUses /\ upto = 0 /\ dead = {}
  /\ task = "walk" /\ stack = <<>>

\* A phase run of the active root, or of the next root, starts afresh.
PlainPhase ==
  /\ task \in {"walk", "stopped"}
  /\ active' \in DOMAIN roots
  /\ \E now \in Nodes : roots' = [roots EXCEPT ![active] = now]
  /\ start' = Len(kids) /\ on' = FALSE /\ counted' = {} /\ uses' = NoUses /\ dead' = {}
  /\ task' = "walk" /\ stack' = <<>>
  /\ UNCHANGED <<kids, upto>>

\* Nodes are unique: an operation over operands it has is not built again.
PlainCreate ==
  /\ task = "walk" /\ Len(kids) < MaxNodes
  /\ \E a, b \in Nodes :
       /\ \A n \in Nodes : kids[n] # <<a, b>>
       /\ kids' = Append(kids, <<a, b>>)
  /\ UNCHANGED <<roots, active, start, on, counted, uses, upto, dead, task, stack>>

PlainRetire ==
  /\ task = "walk"
  /\ \E n \in Nodes : stack' = <<n>>
  /\ task' = "retire"
  /\ UNCHANGED <<kids, roots, active, start, on, counted, uses, upto, dead>>

\* A node that is replaced makes no uses any more; an operand nobody uses then goes too.
PlainRetireNext ==
  /\ task = "retire" /\ stack # <<>>
  /\ LET n == stack[Len(stack)]
         rest == SubSeq(stack, 1, Len(stack) - 1)
         left == Unused(uses, n)
         orphans == {c \in (DOMAIN left \cap counted) \ ({n} \cup Elements(roots)) : left[c] = 0}
     IN  /\ dead' = dead \cup {n}
         /\ IF n \in dead \/ n \notin counted
            THEN stack' = rest /\ UNCHANGED <<counted, uses>>
            ELSE /\ counted' = counted \ {n} /\ uses' = left
                 /\ stack' = rest \o Among(kids[n], orphans)
  /\ UNCHANGED <<kids, roots, active, start, on, upto, task>>

PlainDone ==
  /\ task \in {"retire", "count"} /\ stack = <<>>
  /\ task' = "walk"
  /\ upto' = IF task = "count" THEN Len(kids) ELSE upto
  /\ UNCHANGED <<kids, roots, active, start, on, counted, uses, dead, stack>>

\* The nodes to look at after those looked at before, first to last.
\* An error: the last one built is not looked at.
FreshButLast(from, known) ==
  Among([i \in 1 .. Len(kids) - from |-> Len(kids) + 1 - i], Nodes \ (known \cup {Len(kids)}))
Fresh(from, known) ==
  Among([i \in 1 .. Len(kids) - from |-> Len(kids) + 1 - i], Nodes \ known)

\* On first need, the uses below every root are counted, but through nodes replaced.
PlainRefresh ==
  /\ task = "walk"
  /\ IF on
     THEN UNCHANGED <<on, counted, uses, upto>>
     ELSE /\ on' = TRUE /\ upto' = start
          /\ counted' = Below(Elements(roots), dead) \ dead
          /\ uses' = UsesFrom(counted')
  /\ \/ task' = "stopped" /\ stack' = <<>>
     \/ task' = "count" /\ stack' = Fresh(upto', dead \cup counted')
  /\ UNCHANGED <<kids, roots, active, start, dead>>

\* A new node counts, and a node it uses, replaced before or not.
PlainCount ==
  /\ task = "count" /\ stack # <<>>
  /\ LET n == stack[Len(stack)]
         rest == SubSeq(stack, 1, Len(stack) - 1)
     IN  IF n \in counted
         THEN stack' = rest /\ UNCHANGED <<counted, uses, dead, task>>
         ELSE /\ counted' = counted \cup {n} /\ dead' = dead \ {n}
              /\ \/ /\ uses' = Used(uses, n) /\ stack' = rest \o Among(kids[n], Nodes \ counted')
                    /\ UNCHANGED task
                 \/ uses' = uses /\ stack' = <<>> /\ task' = "stopped"
  /\ UNCHANGED <<kids, roots, active, start, on, upto>>

\* The budget ends in the middle of counting from scratch.
PlainStop ==
  /\ task = "walk" /\ task' = "stopped"
  /\ UNCHANGED <<kids, roots, active, start, on, counted, uses, upto, dead, stack>>

PlainNext ==
  \/ PlainPhase \/ PlainCreate \/ PlainRetire \/ PlainRetireNext \/ PlainDone
  \/ PlainRefresh \/ PlainCount \/ PlainStop

PlainSpec == PlainInit /\ [][PlainNext]_plainVars
=============================================================================
