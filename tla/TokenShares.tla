----------------------------- MODULE TokenShares -----------------------------
(* The shares of a model's context window: what of it the system prompt, the  *)
(* Tool results, the history and the attached files may take.                 *)
EXTENDS Integers

CONSTANT Windows \* sizes of the context window

ASSUME WindowAssumption == Windows \subseteq Nat \ {0}

\* allocateTokenBudget: shares rounded down, then what is left over, one each.
Percent(window, weight) == (window * weight) \div 100
Remainder(window) ==
    window - (Percent(window, 10) + Percent(window, 50) + Percent(window, 25) + Percent(window, 15))
More(window, place) == IF Remainder(window) >= place THEN 1 ELSE 0
Allocate(window) ==
    [system |-> Percent(window, 10) + More(window, 1), tools |-> Percent(window, 15) + More(window, 2),
     history |-> Percent(window, 50) + More(window, 3), files |-> Percent(window, 25) + More(window, 4)]
=============================================================================
