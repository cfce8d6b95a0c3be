------------------------------ MODULE MCHover ------------------------------
EXTENDS Hover

\* Two words with the popup beyond the second: w1 -- gap -- w2 -- card
MCPoints == {"w1", "w2", "card"}
MCWords == {"w1", "w2"}
MCCorridor == {"w2"}
MCDistance == [p \in MCPoints |-> CASE p = "w1" -> 2 [] p = "w2" -> 1 [] OTHER -> 0]
=============================================================================
