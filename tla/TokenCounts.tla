----------------------------- MODULE TokenCounts -----------------------------
(* Token counts as a Provider reports them: every field may be unknown, none  *)
(* is above the shared bound, and fields add up one by one or not at all.     *)
EXTENDS Integers

CONSTANTS
    MaxTokenCount, \* the shared bound
    Estimates,     \* token counts a local estimate may give
    Reports        \* Usage reports a Provider may send

Unknown == -1
Counts == 0..MaxTokenCount
Fields == {"input", "output", "total"}
Usages == [Fields -> Counts \cup {Unknown}]
NoUsage == [field \in Fields |-> Unknown]

ASSUME TokenCountAssumption ==
    /\ MaxTokenCount \in Nat \ {0}
    /\ Estimates \subseteq Nat
    /\ Reports \subseteq Usages

HasUsage(usage) == \E field \in Fields : usage[field] # Unknown

Overflows(current, next) ==
    current # Unknown /\ next # Unknown /\ current > MaxTokenCount - next
MergedCount(current, next) ==
    IF next = Unknown THEN current ELSE IF current = Unknown THEN next ELSE current + next
\* A report that overflows one field changes none.
Mergeable(current, next) == \A field \in Fields : ~Overflows(current[field], next[field])
Merged(current, next) == [field \in Fields |-> MergedCount(current[field], next[field])]

SaturatingAdd(left, right) == IF left > MaxTokenCount - right THEN MaxTokenCount ELSE left + right
Larger(left, right) == IF left >= right THEN left ELSE right
=============================================================================
