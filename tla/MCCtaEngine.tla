---------------------------- MODULE MCCtaEngine ----------------------------
(* CtaEngine on a small instance: one symbol that has strategies and one   *)
(* that has none.                                                          *)
EXTENDS CtaEngine, TLC

CONSTANTS rb, rb2, abb, dual

MCSymbols == {rb, rb2}

(* Subscriptions are prefixes: the one of rb lets ticks of rb2 through.     *)
MCMatched == (rb :> {rb}) @@ (rb2 :> {rb, rb2})

MCOneSymbol  == {rb}
MCOneMatched == (rb :> {rb})

MCOneStrategy   == {abb}
MCOneSymbolOf   == (abb :> rb)

MCTwoStrategies == {abb, dual}
MCTwoSymbolOf   == (abb :> rb) @@ (dual :> rb)

(* The workers are alike.                                                  *)
MCWorkersAlike  == Permutations(Workers)
=============================================================================
