----------------------------- MODULE MCSatSolver -----------------------------
(* Five variables.  The first four clauses have models, and searches that learn   *)
(* clauses of three levels; the units that come after them leave no model.        *)
EXTENDS SatSolver

Plain(cs) == [i \in DOMAIN cs |-> [lits |-> cs[i], hint |-> <<>>]]
MCFormulas == {
  Plain(<<{1, 2, 3, 4}, {1, 2, 3, -4}>>) \o <<[lits |-> {1, -3, 5, 4}, hint |-> <<5, 1>>]>> \o
  Plain(<<{-3, 5, -4}, {-1}, {2, -3}, {-2}>>)}
MCLemmas == {{1, 2, 3}, {-1, 1}, {3}}
MCLimits == {[conflicts |-> 1, propagations |-> 2], [conflicts |-> 99, propagations |-> 99]}
=============================================================================
