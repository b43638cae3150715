------------------------------ MODULE Extract ------------------------------
(* The choice of one e-node per class (eqsat/extract.rs): sweeps over the      *)
(* e-nodes in the order they were added, until one changes nothing. A class    *)
(* may hold a term over itself; the e-nodes chosen must not. Costs are tree    *)
(* sizes in a number that saturates: a chain of some sixty shared squares      *)
(* reaches the code's u64::MAX.                                                *)
EXTENDS EGraph, SequencesExt

CONSTANT MaxCost  \* where costs saturate

ASSUME MaxCostAssumption == MaxCost \in Nat \ {0}

VARIABLES
    best,     \* the cost and e-node chosen so far of the classes that have one
    at,       \* the e-node to weigh next; 0 before extraction
    changed,  \* whether this sweep chose anything
    chosen    \* whether the sweeps have ended

varsX == <<vars, best, at, changed, chosen>>

InitX == /\ Init
         /\ best = [c \in {} |-> [cost |-> 0, node |-> 0]]
         /\ at = 0 /\ changed = FALSE /\ chosen = FALSE

\* The tree size of e-node i: saturating addition, operand by operand.
Saturating(m, n) == IF m + n > MaxCost THEN MaxCost ELSE m + n
CostOf(i) == FoldLeft(LAMBDA sum, k : Saturating(sum, best[rep[k]].cost), 1, nodes[i].kids)
Costed(i) == \A k \in DOMAIN nodes[i].kids : rep[nodes[i].kids[k]] \in DOMAIN best

\* Of two e-nodes of equal cost: the imported one, else the earlier.
\* An error: else the later.
PreferLater(i, j) == \/ imported[i] /\ ~imported[j]
                     \/ imported[i] = imported[j] /\ i > j
Prefer(i, j) == \/ imported[i] /\ ~imported[j]
                \/ imported[i] = imported[j] /\ i < j

\* An error: any e-node of equal cost is taken, the chosen one again too.
NoWorse(cost, i, old) == cost <= old.cost
Better(cost, i, old) == cost < old.cost \/ (cost = old.cost /\ Prefer(i, old.node))

\* What e-node i offers its class.
Offer(i) == [cost |-> CostOf(i), node |-> i]
Improves(i) ==
    /\ Costed(i)
    /\ rep[i] \in DOMAIN best => Better(Offer(i).cost, i, best[rep[i]])

StartExtract ==
    /\ at = 0 /\ Clean
    /\ at' = 1
    /\ UNCHANGED <<vars, best, changed, chosen>>

\* Whether taking e-node i calls for another sweep.
\* An error: only if it was not the choice already.
OtherNode(i) == rep[i] \in DOMAIN best => best[rep[i]].node # i
Counts(i) == TRUE

Weigh ==
    /\ at \in Ids /\ ~chosen
    /\ at' = at + 1
    /\ IF Improves(at)
       THEN /\ best' = [c \in DOMAIN best \cup {rep[at]} |->
                           IF c = rep[at] THEN Offer(at) ELSE best[c]]
            /\ changed' = (changed \/ Counts(at))
       ELSE UNCHANGED <<best, changed>>
    /\ UNCHANGED <<vars, chosen>>

\* A sweep that changed nothing is the last.
EndSweep ==
    /\ at = Len(nodes) + 1 /\ ~chosen
    /\ chosen' = ~changed
    /\ at' = 1 /\ changed' = FALSE
    /\ UNCHANGED <<vars, best>>

Extraction == Weigh \/ EndSweep
Search(A) == at = 0 /\ A /\ UNCHANGED <<best, at, changed, chosen>>
NextX == Search(Next) \/ StartExtract \/ Extraction

\* Both loops run on the caller's thread.
SpecX == InitX /\ [][NextX]_varsX /\ WF_varsX(Search(Rebuild)) /\ WF_varsX(Extraction)

\* When the sweeps end every class has an e-node chosen; its cost is what that e-node
\* costs now (a cheaper operand found later was carried up) and no e-node of the class
\* costs less, or as little and is preferred: the order of the sweeps does not show.
CheapestChosen ==
    chosen =>
        /\ DOMAIN best = Classes
        /\ \A c \in Classes : Offer(best[c].node) = best[c] /\ rep[best[c].node] = c
        /\ \A i \in Ids : ~Better(Offer(i).cost, i, best[rep[i]])

\* No chosen term leads back to its own class, however cyclic the graph, so building it
\* ends. While costs stay under the saturation point an operand is cheaper than its term;
\* at the saturation point every e-node ties, and only the preference for the earliest
\* (a class is named by its earliest e-node) keeps the choice acyclic.
Operands(c) == {rep[nodes[best[c].node].kids[k]] : k \in DOMAIN nodes[best[c].node].kids}
SelectionAcyclic ==
    chosen =>
        \A S \in (SUBSET Classes) \ {{}} : \E c \in S : Operands(c) \cap S = {}

\* What building the result relies on: each class has its cheapest e-node at present
\* costs, and following the choices ends.
SelectionRight == CheapestChosen /\ SelectionAcyclic

\* Extraction ends: costs only fall.
ExtractionEnds == at # 0 ~> chosen

\* No loop of a search is fed by its own work for ever: a rebuild ends, and so does
\* extraction, on every graph, cyclic ones included.
LoopsEnd == RebuildEnds /\ ExtractionEnds
=============================================================================
