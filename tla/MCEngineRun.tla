---------------------------- MODULE MCEngineRun ----------------------------
(* Roots that keep each other's rewrites back: a's while b or b's rewritten form  *)
(* shares with it, b's while c is as it was, d's second while a is; e is declined *)
(* and keeps f back for ever. Some rewrites hold only under a constraint.         *)
EXTENDS EngineRun, TLC

CONSTANTS a, a1, b, b1, c, c1, d, d1, d2, e, f, f1, k1, k2, w1, w2, w3

MCForms == {a, a1, b, b1, c, c1, d, d1, d2, e, f, f1}
MCRewrite == (a :> a1) @@ (b :> b1) @@ (c :> c1) @@ (d :> d1) @@ (d1 :> d2)
                @@ (f :> f1) @@ [x \in MCForms |-> None]
MCKeptBackBy == (a :> {b}) @@ (b :> {c}) @@ (d1 :> {a}) @@ (f :> {e})
                @@ [x \in MCForms |-> {}]
MCUses == (d :> {k1}) @@ (d1 :> {k2}) @@ (b :> {k1}) @@ [x \in MCForms |-> {}]
MCHolds == (k1 :> {w1, w2}) @@ (k2 :> {w1, w3})
MCValue == [x \in MCForms |->
    CASE x = b1 -> (w1 :> 0) @@ (w2 :> 0) @@ (w3 :> 1)
      [] x = d1 -> (w1 :> 0) @@ (w2 :> 0) @@ (w3 :> 1)
      [] x = d2 -> (w1 :> 0) @@ (w2 :> 1) @@ (w3 :> 1)
      [] OTHER  -> (w1 :> 0) @@ (w2 :> 0) @@ (w3 :> 0)]

MCBatches == { <<a>>, <<a, b, c>>, <<d, a, d, b, c>>, <<c, a, b>>, <<e, f, d, a>>, <<a, a, b>> }
=============================================================================
