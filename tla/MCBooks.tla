------------------------------ MODULE MCBooks ------------------------------
(* Values for TLC of what Books leaves open; the rest is in Books.cfg.     *)
EXTENDS Books, TLC

JobSymmetry == Permutations(Job)

\* Two settlements across the border, and a second trace of the first one.
KytTrace(tx, s, stage, bap, bpp) ==
  [tx |-> tx, slot |-> s, stage |-> stage, bap |-> bap, bpp |-> bpp]
Traces == {KytTrace(1, 0, "confirm", "A", "B"), KytTrace(2, 1, "confirm", "B", "A"),
           KytTrace(1, 0, "rate", "A", "B")}
MCHome == ("A" :> "us") @@ ("B" :> "gb")
MCAmount == (1 :> 5) @@ (2 :> 4)
MCRevocation == {[oracle |-> 1, root |-> 1, slot |-> 1]}
MCWindow == {<<0, 2>>, <<1, 2>>, <<1, 0>>}
=============================================================================
