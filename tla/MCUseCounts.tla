----------------------------- MODULE MCUseCounts -----------------------------
(* Two roots that share a part, one using it twice, and a root below another. *)
EXTENDS UseCounts

MCStarts == {[kids |-> <<<<>>, <<1>>, <<2, 2>>>>, roots |-> <<3, 2>>],
             [kids |-> <<<<>>, <<1, 1>>, <<2, 1>>>>, roots |-> <<2, 3>>]}
=============================================================================
