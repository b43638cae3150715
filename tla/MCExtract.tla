----------------------------- MODULE MCExtract -----------------------------
(* Small roots over one-bit values: not is the complement, xor commutative, in *)
(* andnot the order of the operands matters.                                   *)
EXTENDS Extract

CONSTANTS x, y, not, xor, andnot

MCUnTable == [o \in {not} |-> [v \in {0, 1} |-> 1 - v]]
MCBinTable ==
    [o \in {xor, andnot} |->
        [p \in {0, 1} \X {0, 1} |->
            IF o = xor THEN (p[1] + p[2]) % 2 ELSE p[1] * (1 - p[2])]]

\* A chain whose terms become cheaper at an e-node a sweep of extraction has
\* already passed; both orders of andnot; one-bit constants the unions uncover.
MCImports ==
    { <<Leaf(x), Un(not, 1), Bin(xor, 1, 1), Un(not, 3), Un(not, 4), Un(not, 2),
        Leaf(y)>>,
      <<Leaf(x), Leaf(y), Bin(andnot, 1, 2), Bin(andnot, 2, 1), Bin(xor, 3, 4)>>,
      <<Leaf(x), Const(1), Bin(xor, 2, 1), Un(not, 3), Un(not, 4)>>,
      <<Leaf(x), Const(0), Bin(andnot, 1, 2), Un(not, 3)>> }
=============================================================================
