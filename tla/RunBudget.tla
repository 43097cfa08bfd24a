------------------------------ MODULE RunBudget ------------------------------
(* The token budget of one Run: what the Run estimates and what the Provider  *)
(* reports are counted apart; the larger of them is held against a warning    *)
(* and a limit. Every snapshot is emitted before the Run is stopped, and a    *)
(* cancellation comes first, before and after it.                             *)
EXTENDS TokenCounts, Sequences

VARIABLES
    budget,    \* RunTokenBudget and the guard's Run
    snapshots, \* session.run-budget events emitted
    observed   \* what was observed in all: estimates, and each known field

budgetVars == <<budget, snapshots, observed>>

Configurations == {c \in [max : Counts, warning : Counts] :
    c.warning >= 1 /\ c.warning <= c.max}

Init ==
    /\ \E c \in Configurations : budget =
        [max |-> c.max, warning |-> c.warning, estimated |-> 0, usage |-> NoUsage,
         actual |-> Unknown, overflowed |-> FALSE, warned |-> FALSE,
         aborted |-> FALSE, run |-> "running"]
    /\ snapshots = <<>>
    /\ observed = [estimates |-> 0, fields |-> NoUsage]

----------------------------------------------------------------------------
Actual(b) == IF b.actual = Unknown THEN 0 ELSE b.actual
Effective(b) == IF b.overflowed THEN MaxTokenCount ELSE Larger(b.estimated, Actual(b))
Snapshot(b, state, source) ==
    [state |-> state, source |-> source, max |-> b.max, warning |-> b.warning,
     estimated |-> b.estimated, actual |-> b.actual, effective |-> Effective(b)]

\* The Run may be aborted by who receives the snapshot: the guard looks again.
Evaluate(b, source) ==
    \/ /\ Effective(b) >= b.max
       /\ \E stop \in {"exceeded", "cancelled"} : budget' = [b EXCEPT !.run = stop]
       /\ snapshots' = Append(snapshots, Snapshot(b, "exceeded", source))
    \/ /\ Effective(b) < b.max /\ Effective(b) >= b.warning /\ ~b.warned
       /\ \E stop \in {"running", "cancelled"} :
            budget' = [b EXCEPT !.warned = TRUE, !.run = stop]
       /\ snapshots' = Append(snapshots, Snapshot(b, "warning", source))
    \/ /\ Effective(b) < b.max /\ (Effective(b) < b.warning \/ b.warned)
       /\ budget' = b
       /\ UNCHANGED snapshots

ObserveEstimate ==
    /\ budget.run = "running" /\ ~budget.aborted
    /\ \E tokens \in Estimates :
        /\ observed' = [observed EXCEPT !.estimates = @ + tokens]
        /\ Evaluate([budget EXCEPT !.estimated = SaturatingAdd(@, tokens)], "estimate")

\* Input and output may overflow together when neither does alone.
TotalOverflows(usage) == Overflows(usage["input"], usage["output"])
UsageTokenCount(usage) ==
    Larger(usage["total"],
           IF usage["input"] # Unknown /\ usage["output"] # Unknown
           THEN usage["input"] + usage["output"]
           ELSE Larger(usage["input"], usage["output"]))
Overflowed(b) == [b EXCEPT !.overflowed = TRUE, !.actual = Unknown]
AccountedIfItFits(b, report) ==
    LET usage == Merged(b.usage, report) IN
    IF ~Mergeable(b.usage, report) THEN b
    ELSE IF TotalOverflows(usage) THEN Overflowed([b EXCEPT !.usage = usage])
    ELSE [b EXCEPT !.usage = usage, !.actual = UsageTokenCount(usage)]
Accounted(b, report) ==
    LET usage == Merged(b.usage, report) IN
    IF ~Mergeable(b.usage, report) THEN Overflowed(b)
    ELSE IF TotalOverflows(usage) THEN Overflowed([b EXCEPT !.usage = usage])
    ELSE [b EXCEPT !.usage = usage, !.actual = UsageTokenCount(usage)]
ObserveUsage ==
    /\ budget.run = "running" /\ ~budget.aborted
    /\ \E report \in Reports :
        /\ HasUsage(report)
        /\ observed' = [observed EXCEPT !.fields = Merged(@, report)]
        /\ Evaluate(Accounted(budget, report), "actual")

Abort ==
    /\ budget.run = "running" /\ ~budget.aborted
    /\ budget' = [budget EXCEPT !.aborted = TRUE]
    /\ UNCHANGED <<snapshots, observed>>
\* What the Run observes next finds the signal aborted.
Cancelled ==
    /\ budget.run = "running" /\ budget.aborted
    /\ budget' = [budget EXCEPT !.run = "cancelled"]
    /\ UNCHANGED <<snapshots, observed>>
Finish ==
    /\ budget.run = "running" /\ ~budget.aborted
    /\ budget' = [budget EXCEPT !.run = "finished"]
    /\ UNCHANGED <<snapshots, observed>>

Next == ObserveEstimate \/ ObserveUsage \/ Abort \/ Cancelled \/ Finish
BudgetSpec == Init /\ [][Next]_budgetVars

----------------------------------------------------------------------------
TypeOK ==
    /\ budget \in [max : Counts, warning : Counts, estimated : Counts, usage : Usages,
                   actual : Counts \cup {Unknown}, overflowed : BOOLEAN, warned : BOOLEAN,
                   aborted : BOOLEAN,
                   run : {"running", "cancelled", "exceeded", "finished"}]
    /\ observed \in [estimates : Nat, fields : [Fields -> Nat \cup {Unknown}]]

\* A Run that goes on has used less than its limit, whichever way one counts:
\* its estimates together, each field the Provider reported, and what went in
\* with what came out; no rounding to the bound and no dropped report hides
\* any of it (RunTokenBudget.observeEstimate, observeUsage).
RunStaysBelowLimit == budget.run \in {"running", "finished"} =>
    /\ observed.estimates < budget.max
    /\ \A field \in Fields : observed.fields[field] < budget.max
    /\ observed.fields["input"] + observed.fields["output"] < budget.max

\* What is logged of a budget can be read back: at most one warning, then at
\* most one exceeded snapshot, of one configuration, the counts never falling,
\* each at the threshold it names (runTokenBudgetSnapshotSchema,
\* recoverRunBudget).
Readable(s) ==
    /\ s.effective \in Counts /\ s.estimated \in Counts
    /\ \/ s.effective = Larger(s.estimated, IF s.actual = Unknown THEN 0 ELSE s.actual)
       \/ /\ s.state = "exceeded" /\ s.source = "actual"
          /\ s.actual = Unknown /\ s.effective = MaxTokenCount
    /\ s.effective >= IF s.state = "warning" THEN s.warning ELSE s.max
Follows(s, t) ==
    /\ s.state = "warning" /\ t.state = "exceeded"
    /\ t.max = s.max /\ t.warning = s.warning
    /\ t.effective >= s.effective /\ t.estimated >= s.estimated
    /\ \/ t.actual >= s.actual
       \/ t.actual = Unknown /\ t.source = "actual" /\ t.effective = MaxTokenCount
BudgetLogReadsBack ==
    /\ \A i \in 1..Len(snapshots) : Readable(snapshots[i])
    /\ Len(snapshots) <= 2
    /\ Len(snapshots) = 2 => Follows(snapshots[1], snapshots[2])
    /\ budget.run = "exceeded" =>
        snapshots # <<>> /\ snapshots[Len(snapshots)].state = "exceeded"
=============================================================================
