---------------------------- MODULE MCSimplifier ----------------------------
(***************************************************************************)
(* Instances of Simplifier over one-bit terms of x and y: sums of rules,   *)
(* host rewrites and a pass whose candidates show every decision.          *)
(***************************************************************************)
EXTENDS Simplifier, TLC

\* The terms: an operator and its operands' names.
Term ==
  [x  |-> <<"sym">>,           y  |-> <<"sym">>,          zero |-> <<"const">>,
   xy |-> <<"and", "x", "y">>, s  |-> <<"or", "x", "xy">>,
   p  |-> <<"not", "x">>,      q  |-> <<"not", "s">>,     r |-> <<"and", "p", "q">>,
   b  |-> <<"and", "xy", "y">>,
   e  |-> <<"ext", "xy">>,     t  |-> <<"or", "e", "b">>, t2 |-> <<"or", "e", "xy">>]

MCNodes   == DOMAIN Term
MCKids(n) == Tail(Term[n])
MCOpaque(n) == Term[n][1] = "ext"

RECURSIVE MCBelow(_)
MCBelow(n) == {n} \cup UNION {MCBelow(MCKids(n)[i]) : i \in DOMAIN MCKids(n)}

\* Constructors fold, order the operands of a commutative operator, and share
\* (a node outside this universe stays as it was).
MCRebuild(n, ks) ==
  LET op == Term[n][1]
      same == {m \in MCNodes : Term[m] = <<op>> \o ks
                                 \/ (Len(ks) = 2 /\ Term[m] = <<op, ks[2], ks[1]>>)}
  IN  CASE Len(ks) = 2 /\ ks[1] = ks[2] -> ks[1]
        [] op = "and" /\ \E i \in DOMAIN ks : ks[i] = "zero" -> "zero"
        [] op = "or" /\ \E i \in DOMAIN ks : ks[i] = "zero" ->
             IF ks[1] = "zero" THEN ks[2] ELSE ks[1]
        [] OTHER -> IF ks # <<>> /\ same # {} THEN CHOOSE m \in same : TRUE ELSE n

MCWorlds == [x : BOOLEAN, y : BOOLEAN]

RECURSIVE MCValue(_, _)
MCValue(n, w) ==
  LET op == Term[n][1]
      V(i) == MCValue(MCKids(n)[i], w)
  IN  CASE op = "sym"   -> w[n]
        [] op = "const" -> FALSE
        [] op = "and"   -> V(1) /\ V(2)
        [] op = "or"    -> V(1) \/ V(2)
        [] op \in {"not", "ext"} -> ~V(1)

MCConstraints == {"x is zero"}
MCHolds(k, w) == ~w.x

Offered(by, to) ==
  [by |-> by, to |-> to, rel |-> {}, check |-> "ok", vetoed |-> FALSE, sharing |-> FALSE,
   costly |-> FALSE]

\* Phase 1: a rule verification finds wrong, one a work cap can decline and a
\* hook may veto, one that relies on a constraint, one that asks one_use, one
\* that changes nothing, and a host rewrite that is not smaller.
Rules(s, n) ==
  CASE n = "b" -> <<[Offered("wrong", "y") EXCEPT !.check = "wrong"],
                    [Offered("absorb", "xy") EXCEPT !.vetoed = s = "hooked", !.costly = TRUE]>>
    [] n = "p" -> <<[Offered("wrong", "x") EXCEPT !.check = "wrong"]>>
    [] n = "xy" -> <<[Offered("host", "b") EXCEPT !.check = "order"]>>
                   \o IF s = "assuming"
                      THEN <<[Offered("known", "zero") EXCEPT !.rel = MCConstraints]>> ELSE <<>>
    [] n = "t2" -> <<[Offered("wrong", "e") EXCEPT !.check = "wrong"], Offered("same", "t2"),
                     [Offered("once", "t") EXCEPT !.sharing = TRUE, !.check = "order"]>>
    [] OTHER -> <<>>

\* Phase 2: a pass that reads sharing rewrites p into q and s, below q, into x;
\* q over x is p again.
Passes(n) ==
  CASE n = "p" -> <<[Offered("pass", "q") EXCEPT !.sharing = TRUE]>>
    [] n = "s" -> <<[Offered("pass", "x") EXCEPT !.sharing = TRUE]>>
    [] n = "b" -> <<[Offered("pass", "y") EXCEPT !.check = "wrong"]>>
    [] n = "xy" -> <<[Offered("pass", "x") EXCEPT !.check = "wrong"]>>
    [] OTHER -> <<>>

\* The MBA service, under a setting without the pass: each of p and q is an answer to the other.
Answers(n) ==
  CASE n = "p" -> <<[Offered("mba", "q") EXCEPT !.sharing = TRUE]>>
    [] n = "q" -> <<[Offered("mba", "p") EXCEPT !.costly = TRUE]>>
    [] n = "s" -> <<Offered("mba", "x")>>
    [] n = "b" -> <<[Offered("mba", "y") EXCEPT !.check = "wrong"]>>
    [] OTHER -> <<>>

\* The top of every fragment asks but a question over two terms, which is
\* beyond the limits; a term under an or is a link of its chain.
MCAsks(n) == MCKids(n) # <<>> /\ n # "r"
MCLinks(n, user) == Term[n][1] = "and" /\ Term[user][1] = "or"

\* Rules and then a pass, or a pass and then the MBA service, of which a setting
\* has one.
MCAttempts(s, ph, n) ==
  CASE s \in {"plain", "assuming", "hooked"} -> IF ph = 1 THEN Rules(s, n) ELSE Passes(n)
    [] s = "passing" /\ ph = 1 -> Passes(n)
    [] s = "asking" /\ ph = 2 -> Answers(n)
    [] OTHER -> <<>>

Ample == [node_visits |-> 30, candidates |-> 20, rewrites |-> 10, new_nodes |-> 10]
MCLimits ==
  {Ample, [Ample EXCEPT !.node_visits = 5], [Ample EXCEPT !.candidates = 2],
   [Ample EXCEPT !.rewrites = 1], [Ample EXCEPT !.new_nodes = 1]}
=============================================================================
