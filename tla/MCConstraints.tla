--------------------------- MODULE MCConstraints ---------------------------
(* Two-bit symbols under masks and comparisons; one-bit ones whose orderings   *)
(* make them equal one after another; shifts of a symbol by its own bits, and  *)
(* the halves of a product, whose facts take base facts of other nodes.        *)
EXTENDS Constraints, TLC

CONSTANTS h1, h2

\* A symbol masked, compared with another, and a conjunction of comparisons.
Masked ==
    << Sym("x", 2), Sym("y", 2), Con(1, 2), Oper("and", <<1, 3>>, 2),
       Oper("ule", <<2, 4>>, 1), Oper("eq", <<1, 2>>, 1), Oper("slt", <<1, 2>>, 1) >>

\* Equalities that follow from orderings: b = e, a <= c <= b, a >= d >= c, and last
\* a = b. The last node contradicts them.
Chained ==
    << Sym("a", 1), Sym("b", 1), Sym("c", 1), Sym("d", 1), Sym("e", 1),
       Oper("ule", <<1, 3>>, 1), Oper("ule", <<3, 2>>, 1), Oper("ule", <<3, 4>>, 1),
       Oper("ule", <<4, 1>>, 1), Oper("sle", <<2, 4>>, 1), Oper("eq", <<1, 2>>, 1), Oper("eq", <<2, 5>>, 1),
       Oper("and", <<11, 10>>, 1), Oper("and", <<13, 9>>, 1), Oper("and", <<14, 8>>, 1),
       Oper("and", <<15, 7>>, 1), Oper("and", <<16, 6>>, 1), Oper("and", <<17, 12>>, 1),
       Oper("slt", <<2, 4>>, 1) >>

\* x >> ((x >> 1) & 1), whose mask changes nothing; x ^ ((that >> (x | 1)), a count that is
\* positive: what the facts of 5 and 8 gain from base facts of 3 and 6. Last a count with an
\* offset, which needs none.
Shifted ==
    << Sym("x", 2), Con(1, 2), Oper("lshr", <<1, 2>>, 2), Oper("and", <<3, 2>>, 2),
       Oper("lshr", <<1, 4>>, 2), Oper("or", <<1, 2>>, 2), Oper("lshr", <<5, 6>>, 2), Oper("xor", <<1, 7>>, 2),
       Oper("add", <<2, 3>>, 2), Oper("lshr", <<1, 9>>, 2) >>

\* Both halves of (x | 1) * x, unsigned and signed: what the facts of 6 and 8 gain from base
\* facts of 3.
Wide ==
    << Sym("x", 2), Con(1, 2), Oper("or", <<1, 2>>, 2), Oper("umulhi", <<3, 1>>, 2), Oper("mul", <<3, 1>>, 2),
       Oper("concat", <<4, 5>>, 4), Oper("smulhi", <<3, 1>>, 2), Oper("concat", <<7, 5>>, 4) >>

Bit(n, i) == (n \div i) % 2
Bitwise2(Of(_, _), v) == Of(Bit(v[1], 1), Bit(v[2], 1)) + 2 * Of(Bit(v[1], 2), Bit(v[2], 2))
MCApply(op, v) ==
    CASE op = "and"    -> Bitwise2(LAMBDA a, b : a * b, v)
      [] op = "or"     -> Bitwise2(LAMBDA a, b : a + b - a * b, v)
      [] op = "xor"    -> Bitwise2(LAMBDA a, b : (a + b) % 2, v)
      [] op = "add"    -> (v[1] + v[2]) % 4
      [] op = "lshr"   -> v[1] \div 2 ^ v[2]
      [] op = "mul"    -> (v[1] * v[2]) % 4
      [] op = "umulhi" -> (v[1] * v[2]) \div 4
      [] op = "smulhi" -> ((Signed(v[1], 2) * Signed(v[2], 2)) \div 4) % 4
      [] op = "concat" -> 4 * v[1] + v[2]

\* Ranges, and known bits; of four bits, three ranges and one that is signed.
MCShapes == {lo .. hi : lo, hi \in 0 .. 3} \cup {{0, 2}, {1, 3}, {0, 2, 3}, {0, 1, 3}}
            \cup {0 .. 9, 0 .. 11, 0 .. 15, {14, 15, 0, 1, 2}}
MCPremises(g) ==
    CASE g = Masked ->
           {[node |-> 1, values |-> {2, 3}], [node |-> 5, values |-> {1}], [node |-> 6, values |-> {1}],
            [node |-> 7, values |-> {0}]}
      [] g = Chained ->
           {[node |-> 18, values |-> {1}], [node |-> 1, values |-> {1}], [node |-> 19, values |-> {1}]}
      [] g \in {Shifted, Wide} -> {[node |-> 1, values |-> 1 .. 3]}
MCQuestions(g) ==
    CASE g = Masked -> {4, 5} [] g = Chained -> {10, 18} [] g = Shifted -> {5, 8, 10} [] g = Wide -> {6, 8}
MCHosts == Permutations(Hosts)
MCGraphs == {Masked, Chained, Shifted, Wide}
=============================================================================
