------------------------------ MODULE MCMemory ------------------------------
(* Addresses of two bits; pointers that are stored, loaded and used, and that  *)
(* may be each other or a constant.                                            *)
EXTENDS Memory

MCSettings == {[declared |-> [p |-> 0 .. 3, q |-> {1, 3}], endian |-> "little"],
               [declared |-> [p |-> {0, 2}, q |-> {1, 3}], endian |-> "big"]}
MCWrites == {[addr |-> Symbol("p"), cells |-> Whole(Symbol("q"))],
             [addr |-> Constant(3), cells |-> <<Given(1)>>]}
MCLoads == {[addr |-> Symbol("q"), cells |-> 1], [addr |-> Symbol("p"), cells |-> 2],
            [addr |-> Constant(0), cells |-> 1]}
MCRegions == {[start |-> 3, cells |-> <<1, 0>>], [start |-> 1, cells |-> <<0, 1, 1, 0>>]}
=============================================================================
