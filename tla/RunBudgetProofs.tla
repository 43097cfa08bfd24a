-------------------------- MODULE RunBudgetProofs ---------------------------
(* Theorems about RunBudget for every bound, every estimate and every report. *)
(* While the Run goes on nothing has been rounded or dropped yet: what is     *)
(* counted is what was observed, and that is below the limit.                 *)
EXTENDS RunBudget, SequenceTheorems, TLAPS

Going == budget.run \in {"running", "finished"}
\* While the Run goes on, what is counted is what was observed.
CountedIsObserved ==
    /\ ~budget.overflowed
    /\ budget.estimated = observed.estimates
    /\ budget.usage = observed.fields
    /\ ~TotalOverflows(budget.usage)
    /\ budget.actual = UsageTokenCount(budget.usage)
    /\ Effective(budget) < budget.max
SnapshotType ==
    [state : {"warning", "exceeded"}, source : {"estimate", "actual"}, max : Counts,
     warning : Counts, estimated : Counts, actual : Counts \cup {Unknown}, effective : Counts]
\* The only snapshot of a Run that goes on is its warning.
OnlyTheWarning ==
    /\ ~budget.warned => snapshots = <<>>
    /\ budget.warned =>
        /\ Len(snapshots) = 1
        /\ snapshots[1].state = "warning"
        /\ snapshots[1].max = budget.max /\ snapshots[1].warning = budget.warning
        /\ snapshots[1].effective <= Effective(budget)
        /\ snapshots[1].estimated <= budget.estimated
        /\ snapshots[1].actual <= budget.actual
BudgetInv ==
    /\ TypeOK
    /\ snapshots \in Seq(SnapshotType)
    /\ 1 <= budget.warning /\ budget.warning <= budget.max
    /\ Going => CountedIsObserved /\ OnlyTheWarning
    /\ BudgetLogReadsBack

Budgets ==
    [max : Counts, warning : Counts, estimated : Counts, usage : Usages,
     actual : Counts \cup {Unknown}, overflowed : BOOLEAN, warned : BOOLEAN,
     aborted : BOOLEAN, run : {"running", "cancelled", "exceeded", "finished"}]

-----------------------------------------------------------------------------
\* Reports that add up give a report again, and no field falls.
LEMMA MergedGrows ==
    ASSUME NEW u \in Usages, NEW r \in Usages, Mergeable(u, r)
    PROVE  /\ Merged(u, r) \in Usages
           /\ \A field \in Fields : u[field] <= Merged(u, r)[field]
  BY TokenCountAssumption
  DEF Usages, Mergeable, Overflows, Merged, MergedCount, Counts, Unknown, Fields

\* What a report counts for bounds every field and both directions together.
LEMMA CountBoundsFields ==
    ASSUME NEW u \in Usages, ~TotalOverflows(u)
    PROVE  /\ UsageTokenCount(u) \in Counts \cup {Unknown}
           /\ \A field \in Fields : u[field] <= UsageTokenCount(u)
           /\ u["input"] + u["output"] <= UsageTokenCount(u)
  <1>1. /\ u["input"] \in Counts \cup {Unknown}
        /\ u["output"] \in Counts \cup {Unknown}
        /\ u["total"] \in Counts \cup {Unknown}
    BY DEF Usages, Fields
  <1>2. QED
    BY <1>1, TokenCountAssumption
    DEF TotalOverflows, Overflows, UsageTokenCount, Larger, Counts, Unknown, Fields

\* It never falls when no field does.
LEMMA CountGrows ==
    ASSUME NEW u \in Usages, NEW v \in Usages, ~TotalOverflows(u), ~TotalOverflows(v),
           \A field \in Fields : u[field] <= v[field]
    PROVE  UsageTokenCount(u) <= UsageTokenCount(v)
  <1>1. /\ u["input"] \in Counts \cup {Unknown} /\ v["input"] \in Counts \cup {Unknown}
        /\ u["output"] \in Counts \cup {Unknown} /\ v["output"] \in Counts \cup {Unknown}
        /\ u["total"] \in Counts \cup {Unknown} /\ v["total"] \in Counts \cup {Unknown}
    BY DEF Usages, Fields
  <1>2. /\ u["input"] <= v["input"] /\ u["output"] <= v["output"]
        /\ u["total"] <= v["total"]
    BY DEF Fields
  <1>3. QED
    BY <1>1, <1>2, TokenCountAssumption
    DEF TotalOverflows, Overflows, UsageTokenCount, Larger, Counts, Unknown

\* The saturating addition stays within the bound, falls never, and is exact
\* below the bound.
LEMMA SaturatingAddIsExactBelow ==
    ASSUME NEW left \in Counts, NEW right \in Nat
    PROVE  /\ SaturatingAdd(left, right) \in Counts
           /\ left <= SaturatingAdd(left, right)
           /\ SaturatingAdd(left, right) < MaxTokenCount =>
                SaturatingAdd(left, right) = left + right
  BY TokenCountAssumption DEF SaturatingAdd, Counts

\* The effective count of a budget is a count; it bounds both of its parts.
LEMMA EffectiveBounds ==
    ASSUME NEW b \in Budgets
    PROVE  /\ Effective(b) \in Counts
           /\ ~b.overflowed =>
                b.estimated <= Effective(b) /\ b.actual <= Effective(b)
  BY TokenCountAssumption DEF Budgets, Effective, Actual, Larger, Counts, Unknown

\* A snapshot taken of a well-formed budget can be read back.
LEMMA SnapshotIsReadable ==
    ASSUME NEW b \in Budgets, NEW state \in {"warning", "exceeded"},
           NEW source \in {"estimate", "actual"},
           b.overflowed => b.actual = Unknown /\ source = "actual" /\ state = "exceeded",
           Effective(b) >= IF state = "warning" THEN b.warning ELSE b.max
    PROVE  /\ Snapshot(b, state, source) \in SnapshotType
           /\ Readable(Snapshot(b, state, source))
  <1>1. Effective(b) \in Counts
    BY EffectiveBounds
  <1>2. Snapshot(b, state, source) \in SnapshotType
    BY <1>1 DEF Snapshot, SnapshotType, Budgets
  <1>3. Readable(Snapshot(b, state, source))
    BY <1>1 DEF Snapshot, Readable, Effective, Actual, Budgets
  <1> QED BY <1>2, <1>3

\* Evaluating a budget whose parts only grew, and which is exact as long as it
\* stays below the limit, keeps the invariant.
LEMMA EvaluateKeeps ==
    ASSUME BudgetInv, budget.run = "running",
           NEW b \in Budgets, NEW source \in {"estimate", "actual"},
           b.run = "running", b.max = budget.max, b.warning = budget.warning,
           b.warned = budget.warned, budget.estimated <= b.estimated,
           b.overflowed => b.actual = Unknown /\ source = "actual",
           ~b.overflowed => budget.actual <= b.actual,
           observed' \in [estimates : Nat, fields : [Fields -> Nat \cup {Unknown}]],
           Effective(b) < b.max =>
                /\ b.estimated = observed'.estimates
                /\ b.usage = observed'.fields
                /\ ~TotalOverflows(b.usage)
                /\ b.actual = UsageTokenCount(b.usage),
           Evaluate(b, source)
    PROVE  BudgetInv'
  <1> DEFINE E == Snapshot(b, "exceeded", source)
             W == Snapshot(b, "warning", source)
  <1>1. /\ budget \in Budgets /\ CountedIsObserved /\ OnlyTheWarning /\ BudgetLogReadsBack
        /\ snapshots \in Seq(SnapshotType)
        /\ 1 <= b.warning /\ b.warning <= b.max
        /\ b.warning \in Nat /\ b.max \in Counts
    BY DEF BudgetInv, TypeOK, Going, Budgets, Counts
  <1>2. Effective(b) \in Counts /\ Effective(budget) \in Counts
    BY <1>1, EffectiveBounds
  <1>3. Effective(budget) <= Effective(b)
    BY <1>1, TokenCountAssumption
    DEF CountedIsObserved, Effective, Actual, Larger, Budgets, Counts, Unknown
  <1>4. b.overflowed => Effective(b) >= b.max
    BY <1>1, TokenCountAssumption DEF Effective, Counts
  <1>5. CASE /\ Effective(b) >= b.max
             /\ \E stop \in {"exceeded", "cancelled"} : budget' = [b EXCEPT !.run = stop]
             /\ snapshots' = Append(snapshots, E)
    <2>1. budget' \in Budgets /\ budget'.run \in {"cancelled", "exceeded"}
          /\ budget'.max = b.max /\ budget'.warning = b.warning
      BY <1>5 DEF Budgets
    <2>2. E \in SnapshotType /\ Readable(E)
      BY <1>2, <1>5, SnapshotIsReadable, <1>1 DEF Counts
    <2>3. snapshots = <<>> \/ (budget.warned /\ Len(snapshots) = 1)
      BY <1>1, Zenon DEF OnlyTheWarning
    <2>31. Len(snapshots) <= 1 /\ Len(snapshots) \in Nat
      <3>1. CASE snapshots = <<>>
        BY <3>1
      <3>2. CASE Len(snapshots) = 1
        BY <3>2
      <3> QED BY <2>3, <3>1, <3>2
    <2>4. /\ snapshots' \in Seq(SnapshotType)
          /\ Len(snapshots') = Len(snapshots) + 1
          /\ snapshots'[Len(snapshots')] = E
          /\ \A i \in 1..Len(snapshots) : snapshots'[i] = snapshots[i]
      BY <1>1, <1>5, <2>2
    <2>5. Len(snapshots') = 2 => Follows(snapshots'[1], snapshots'[2])
      <3> SUFFICES ASSUME Len(snapshots') = 2
                   PROVE Follows(snapshots'[1], snapshots'[2])
        OBVIOUS
      <3>1. Len(snapshots) = 1 /\ snapshots'[1] = snapshots[1] /\ snapshots'[2] = E
        BY <2>3, <2>31, <2>4
      <3>2. budget.warned
        BY <3>1, <2>3
      <3>3. /\ snapshots[1].state = "warning"
            /\ snapshots[1].max = b.max /\ snapshots[1].warning = b.warning
            /\ snapshots[1].effective <= Effective(budget)
            /\ snapshots[1].estimated <= budget.estimated
            /\ snapshots[1].actual <= budget.actual
        BY <1>1, <3>2, Zenon DEF OnlyTheWarning
      <3>31. snapshots[1] \in SnapshotType
        BY <1>1, <3>1, ElementOfSeq
      <3>4. /\ snapshots[1].effective <= Effective(b)
            /\ snapshots[1].estimated <= b.estimated
            /\ ~b.overflowed => snapshots[1].actual <= b.actual
        <4>1. /\ snapshots[1].effective \in Int /\ snapshots[1].estimated \in Int
              /\ snapshots[1].actual \in Int
          BY <3>31 DEF SnapshotType, Counts, Unknown
        <4>2. /\ budget.estimated \in Int /\ budget.actual \in Int
              /\ b.estimated \in Int /\ b.actual \in Int
          BY <1>1 DEF Budgets, Counts, Unknown
        <4>3. Effective(budget) \in Int /\ Effective(b) \in Int
          BY <1>2 DEF Counts
        <4> QED BY <1>3, <3>3, <4>1, <4>2, <4>3
      <3>5. b.overflowed => E.actual = Unknown /\ E.effective = MaxTokenCount
        BY DEF Snapshot, Effective
      <3> QED BY <3>1, <3>3, <3>4, <3>5 DEF Follows, Snapshot, Budgets
    <2>6. BudgetLogReadsBack'
      <3>1. \A i \in 1..Len(snapshots') : Readable(snapshots'[i])
        BY <1>1, <2>2, <2>31, <2>4 DEF BudgetLogReadsBack
      <3>2. Len(snapshots') <= 2
        BY <2>31, <2>4
      <3>3. snapshots' # <<>> /\ snapshots'[Len(snapshots')].state = "exceeded"
        BY <2>31, <2>4 DEF Snapshot
      <3> QED BY <2>5, <3>1, <3>2, <3>3 DEF BudgetLogReadsBack, Readable, Follows
    <2> QED BY <1>1, <2>1, <2>4, <2>6 DEF BudgetInv, TypeOK, Budgets, Going
  <1>6. CASE /\ Effective(b) < b.max /\ Effective(b) >= b.warning /\ ~b.warned
             /\ \E stop \in {"running", "cancelled"} :
                 budget' = [b EXCEPT !.warned = TRUE, !.run = stop]
             /\ snapshots' = Append(snapshots, W)
    <2>1. /\ budget' \in Budgets /\ budget'.run \in {"cancelled", "running"}
          /\ budget'.max = b.max /\ budget'.warning = b.warning /\ budget'.warned
          /\ budget'.estimated = b.estimated /\ budget'.actual = b.actual
          /\ budget'.usage = b.usage /\ budget'.overflowed = b.overflowed
      BY <1>6 DEF Budgets
    <2>2. ~b.overflowed
      BY <1>6, <1>4, <1>2, <1>1 DEF Counts
    <2>3. W \in SnapshotType /\ Readable(W)
      BY <1>2, <1>6, <2>2, SnapshotIsReadable
    <2>4. snapshots = <<>>
      BY <1>1, <1>6 DEF OnlyTheWarning
    <2>5. /\ snapshots' \in Seq(SnapshotType)
          /\ Len(snapshots') = 1 /\ snapshots'[1] = W
      BY <1>6, <2>3, <2>4
    <2>6. BudgetLogReadsBack'
      BY <2>1, <2>3, <2>5 DEF BudgetLogReadsBack, Readable, Follows
    <2>7. Effective(budget') = Effective(b)
      BY <2>1 DEF Effective, Actual
    <2>8. CountedIsObserved'
      BY <1>6, <2>1, <2>2, <2>7 DEF CountedIsObserved, Effective, Actual
    <2>9. OnlyTheWarning'
      BY <1>1, <1>2, <2>1, <2>5, <2>7 DEF OnlyTheWarning, Snapshot, Effective, Actual, Budgets, Counts, Unknown
    <2> QED BY <1>1, <2>1, <2>5, <2>6, <2>8, <2>9 DEF BudgetInv, TypeOK, Budgets, Going
  <1>7. CASE /\ Effective(b) < b.max /\ (Effective(b) < b.warning \/ b.warned)
             /\ budget' = b
             /\ UNCHANGED snapshots
    <2>1. ~b.overflowed
      BY <1>7, <1>4, <1>2, <1>1 DEF Counts
    <2>2. CountedIsObserved'
      BY <1>7, <2>1 DEF CountedIsObserved, Effective, Actual
    <2>3. b.warned =>
            /\ snapshots[1] \in SnapshotType
            /\ snapshots[1].effective <= Effective(b)
            /\ snapshots[1].estimated <= b.estimated
            /\ snapshots[1].actual <= b.actual
      <3> SUFFICES ASSUME b.warned
                   PROVE  /\ snapshots[1] \in SnapshotType
                          /\ snapshots[1].effective <= Effective(b)
                          /\ snapshots[1].estimated <= b.estimated
                          /\ snapshots[1].actual <= b.actual
        OBVIOUS
      <3>1. /\ Len(snapshots) = 1
            /\ snapshots[1].effective <= Effective(budget)
            /\ snapshots[1].estimated <= budget.estimated
            /\ snapshots[1].actual <= budget.actual
        BY <1>1, Zenon DEF OnlyTheWarning
      <3>0. Len(snapshots) = 1 /\ snapshots \in Seq(SnapshotType)
        BY <1>1, <3>1
      <3>2. snapshots[1] \in SnapshotType
        <4>1. 1 \in 1..Len(snapshots)
          BY <3>0
        <4> QED BY <3>0, <4>1, ElementOfSeq, Zenon
      <3> QED
        BY <1>1, <1>2, <1>3, <2>1, <3>1, <3>2 DEF SnapshotType, Budgets, Counts, Unknown
    <2>4. OnlyTheWarning'
      BY <1>1, <1>7, <2>3 DEF OnlyTheWarning, Effective, Actual
    <2>5. BudgetLogReadsBack'
      BY <1>1, <1>7 DEF BudgetLogReadsBack, Readable, Follows
    <2> QED BY <1>1, <1>7, <2>2, <2>4, <2>5 DEF BudgetInv, TypeOK, Budgets, Going
  <1> QED BY <1>5, <1>6, <1>7 DEF Evaluate

-----------------------------------------------------------------------------
LEMMA BudgetInit == Init => BudgetInv
  <1> SUFFICES ASSUME Init PROVE BudgetInv
    OBVIOUS
  <1>1. /\ budget \in Budgets /\ 1 <= budget.warning /\ budget.warning <= budget.max
        /\ budget.usage = NoUsage /\ budget.estimated = 0 /\ budget.actual = Unknown
        /\ ~budget.overflowed /\ ~budget.warned /\ budget.run = "running"
    BY TokenCountAssumption
    DEF Init, Configurations, Budgets, Usages, NoUsage, Counts, Unknown
  <1>2. observed = [estimates |-> 0, fields |-> NoUsage] /\ snapshots = <<>>
    BY DEF Init
  <1>3. TypeOK
    BY <1>1, <1>2 DEF TypeOK, Budgets, NoUsage
  <1>4. UsageTokenCount(NoUsage) = Unknown /\ ~TotalOverflows(NoUsage)
    BY DEF UsageTokenCount, NoUsage, Fields, Unknown, Larger, TotalOverflows, Overflows
  <1>5. CountedIsObserved
    BY <1>1, <1>2, <1>4 DEF CountedIsObserved, Effective, Actual, Larger, Budgets, Counts
  <1>6. OnlyTheWarning /\ BudgetLogReadsBack
    BY <1>1, <1>2 DEF OnlyTheWarning, BudgetLogReadsBack
  <1> QED BY <1>1, <1>2, <1>3, <1>5, <1>6 DEF BudgetInv

\* One accounted report: an overflow is remembered, everything else is exact.
LEMMA AccountedIsExact ==
    ASSUME NEW b \in Budgets, NEW report \in Usages,
           ~b.overflowed, ~TotalOverflows(b.usage), b.actual = UsageTokenCount(b.usage)
    PROVE  LET a == Accounted(b, report) IN
           /\ a \in Budgets
           /\ a.max = b.max /\ a.warning = b.warning /\ a.warned = b.warned
           /\ a.run = b.run /\ a.estimated = b.estimated
           /\ a.overflowed => a.actual = Unknown
           /\ ~a.overflowed =>
                /\ a.usage = Merged(b.usage, report)
                /\ ~TotalOverflows(a.usage)
                /\ a.actual = UsageTokenCount(a.usage)
                /\ b.actual <= a.actual
  <1> DEFINE usage == Merged(b.usage, report)
  <1>0. b.usage \in Usages
    BY DEF Budgets
  <1>1. CASE ~Mergeable(b.usage, report)
    <2>1. Accounted(b, report) = [b EXCEPT !.overflowed = TRUE, !.actual = Unknown]
      BY <1>1 DEF Accounted, Overflowed
    <2> QED BY <2>1 DEF Budgets
  <1>2. CASE Mergeable(b.usage, report) /\ TotalOverflows(usage)
    <2>1. Accounted(b, report) =
            [[b EXCEPT !.usage = usage] EXCEPT !.overflowed = TRUE, !.actual = Unknown]
      BY <1>2 DEF Accounted, Overflowed
    <2>2. usage \in Usages
      BY <1>0, <1>2, MergedGrows
    <2> HIDE DEF usage
    <2> QED BY <2>1, <2>2 DEF Budgets
  <1>3. CASE Mergeable(b.usage, report) /\ ~TotalOverflows(usage)
    <2>1. Accounted(b, report) = [b EXCEPT !.usage = usage, !.actual = UsageTokenCount(usage)]
      BY <1>3 DEF Accounted
    <2>2. usage \in Usages /\ \A field \in Fields : b.usage[field] <= usage[field]
      BY <1>0, <1>3, MergedGrows
    <2>3. b.actual <= UsageTokenCount(usage)
      BY <1>0, <1>3, <2>2, CountGrows
    <2>4. UsageTokenCount(usage) \in Counts \cup {Unknown}
      BY <1>3, <2>2, CountBoundsFields
    <2>5. usage = Merged(b.usage, report)
      OBVIOUS
    <2> HIDE DEF usage
    <2> DEFINE a == Accounted(b, report)
    <2>6. a \in Budgets /\ a.usage = usage /\ a.actual = UsageTokenCount(usage)
      BY <2>1, <2>2, <2>4 DEF Budgets
    <2>7. /\ a.max = b.max /\ a.warning = b.warning /\ a.warned = b.warned
          /\ a.run = b.run /\ a.estimated = b.estimated /\ a.overflowed = b.overflowed
      BY <2>1 DEF Budgets
    <2> HIDE DEF a
    <2> QED BY <1>3, <2>3, <2>5, <2>6, <2>7 DEF a
  <1>4. QED
    BY <1>1, <1>2, <1>3

LEMMA BudgetStep == BudgetInv /\ [Next]_budgetVars => BudgetInv'
  <1> SUFFICES ASSUME BudgetInv, [Next]_budgetVars PROVE BudgetInv'
    OBVIOUS
  <1>0. budget \in Budgets
    BY DEF BudgetInv, TypeOK, Budgets
  <1>1. CASE ObserveEstimate
    <2> PICK tokens \in Estimates :
          /\ observed' = [observed EXCEPT !.estimates = @ + tokens]
          /\ Evaluate([budget EXCEPT !.estimated = SaturatingAdd(@, tokens)], "estimate")
      BY <1>1 DEF ObserveEstimate
    <2> DEFINE b == [budget EXCEPT !.estimated = SaturatingAdd(@, tokens)]
    <2>1. budget.run = "running" /\ CountedIsObserved /\ TypeOK
      BY <1>1 DEF ObserveEstimate, BudgetInv, Going
    <2>2. tokens \in Nat
      BY TokenCountAssumption
    <2>3. /\ SaturatingAdd(budget.estimated, tokens) \in Counts
          /\ budget.estimated <= SaturatingAdd(budget.estimated, tokens)
          /\ SaturatingAdd(budget.estimated, tokens) < MaxTokenCount =>
                SaturatingAdd(budget.estimated, tokens) = budget.estimated + tokens
      BY <1>0, <2>2, SaturatingAddIsExactBelow DEF Budgets
    <2>4. /\ b \in Budgets /\ b.estimated = SaturatingAdd(budget.estimated, tokens)
          /\ b.run = "running" /\ b.max = budget.max /\ b.warning = budget.warning
          /\ b.warned = budget.warned /\ b.actual = budget.actual /\ b.usage = budget.usage
          /\ ~b.overflowed
      BY <1>0, <2>1, <2>3 DEF Budgets, CountedIsObserved
    <2>5. /\ observed' \in [estimates : Nat, fields : [Fields -> Nat \cup {Unknown}]]
          /\ observed'.estimates = observed.estimates + tokens
          /\ observed'.fields = observed.fields
      BY <2>1, <2>2 DEF TypeOK
    <2>6. Effective(b) < b.max => b.estimated = observed'.estimates
      <3> SUFFICES ASSUME Effective(b) < b.max PROVE b.estimated = observed'.estimates
        OBVIOUS
      <3>1. b.estimated < MaxTokenCount
        BY <2>4, EffectiveBounds, <1>0, TokenCountAssumption DEF Budgets, Counts
      <3> QED BY <2>1, <2>3, <2>4, <2>5, <3>1 DEF CountedIsObserved
    <2>7. budget.actual <= b.actual
      BY <1>0, <2>4 DEF Budgets, Counts, Unknown
    <2>8. Evaluate(b, "estimate")
      OBVIOUS
    <2> HIDE DEF b
    <2> QED BY <2>1, <2>3, <2>4, <2>5, <2>6, <2>7, <2>8, EvaluateKeeps DEF CountedIsObserved
  <1>2. CASE ObserveUsage
    <2> PICK report \in Reports :
          /\ observed' = [observed EXCEPT !.fields = Merged(@, report)]
          /\ Evaluate(Accounted(budget, report), "actual")
      BY <1>2 DEF ObserveUsage
    <2> DEFINE b == Accounted(budget, report)
    <2>1. budget.run = "running" /\ CountedIsObserved /\ TypeOK
      BY <1>2 DEF ObserveUsage, BudgetInv, Going
    <2>2. report \in Usages
      BY TokenCountAssumption
    <2>3. /\ b \in Budgets
          /\ b.max = budget.max /\ b.warning = budget.warning /\ b.warned = budget.warned
          /\ b.run = "running" /\ b.estimated = budget.estimated
          /\ b.overflowed => b.actual = Unknown
          /\ ~b.overflowed =>
                /\ b.usage = Merged(budget.usage, report)
                /\ ~TotalOverflows(b.usage)
                /\ b.actual = UsageTokenCount(b.usage)
                /\ budget.actual <= b.actual
      BY <1>0, <2>1, <2>2, AccountedIsExact DEF CountedIsObserved
    <2>4. Merged(observed.fields, report) \in [Fields -> Nat \cup {Unknown}]
      BY <2>1, <2>2, TokenCountAssumption
      DEF TypeOK, Usages, Merged, MergedCount, Counts, Unknown
    <2>5. /\ observed' \in [estimates : Nat, fields : [Fields -> Nat \cup {Unknown}]]
          /\ observed'.estimates = observed.estimates
          /\ observed'.fields = Merged(observed.fields, report)
      BY <2>1, <2>4 DEF TypeOK
    <2>6. Effective(b) < b.max => ~b.overflowed
      BY <1>0, <2>3, TokenCountAssumption DEF Effective, Budgets, Counts
    <2>7. budget.estimated <= b.estimated
      BY <1>0, <2>3 DEF Budgets, Counts
    <2>8. Evaluate(b, "actual")
      OBVIOUS
    <2> HIDE DEF b
    <2> QED BY <2>1, <2>3, <2>5, <2>6, <2>7, <2>8, EvaluateKeeps DEF CountedIsObserved
  <1>3. CASE Abort \/ Cancelled \/ Finish
    <2>2. /\ budget' \in Budgets /\ budget'.run \in {"running", "cancelled", "finished"}
          /\ budget'.max = budget.max /\ budget'.warning = budget.warning
          /\ budget'.estimated = budget.estimated /\ budget'.usage = budget.usage
          /\ budget'.actual = budget.actual /\ budget'.overflowed = budget.overflowed
          /\ budget'.warned = budget.warned
      BY <1>0, <1>3 DEF Abort, Cancelled, Finish, Budgets
    <2>3. budget.run = "running" /\ UNCHANGED <<snapshots, observed>>
      BY <1>3 DEF Abort, Cancelled, Finish
    <2>4. CountedIsObserved /\ OnlyTheWarning /\ BudgetLogReadsBack
      BY <2>3 DEF BudgetInv, Going
    <2>5. CountedIsObserved' /\ OnlyTheWarning' /\ BudgetLogReadsBack'
      BY <2>2, <2>3, <2>4
      DEF CountedIsObserved, OnlyTheWarning, BudgetLogReadsBack, Effective, Actual
    <2> QED BY <2>2, <2>3, <2>5 DEF BudgetInv, TypeOK, Budgets
  <1>4. CASE UNCHANGED budgetVars
    BY <1>4 DEF budgetVars, BudgetInv, TypeOK, Going, CountedIsObserved, OnlyTheWarning,
        BudgetLogReadsBack, Effective, Actual, Readable, Follows
  <1> QED BY <1>1, <1>2, <1>3, <1>4 DEF Next

\* The budget keeps its types.
THEOREM BudgetTypeCorrect == BudgetSpec => []TypeOK
  <1>1. BudgetInv => TypeOK
    BY DEF BudgetInv
  <1> QED BY <1>1, BudgetInit, BudgetStep, PTL DEF BudgetSpec

\* What is counted being below the limit, what was observed is.
LEMMA CountedIsBelow == BudgetInv => RunStaysBelowLimit
  <1> SUFFICES ASSUME BudgetInv, Going PROVE
          /\ observed.estimates < budget.max
          /\ \A field \in Fields : observed.fields[field] < budget.max
          /\ observed.fields["input"] + observed.fields["output"] < budget.max
    BY DEF RunStaysBelowLimit, Going
  <1>1. budget \in Budgets /\ CountedIsObserved
    BY DEF BudgetInv, TypeOK, Budgets
  <1>2. /\ Effective(budget) \in Counts /\ Effective(budget) < budget.max
        /\ budget.estimated <= Effective(budget) /\ budget.actual <= Effective(budget)
    BY <1>1, EffectiveBounds DEF CountedIsObserved
  <1>3. observed.estimates < budget.max
    BY <1>1, <1>2 DEF CountedIsObserved, Budgets, Counts
  <1>4. observed.fields \in Usages /\ ~TotalOverflows(observed.fields)
        /\ budget.actual = UsageTokenCount(observed.fields)
    BY <1>1 DEF CountedIsObserved, Budgets
  <1>5. /\ \A field \in Fields : observed.fields[field] <= budget.actual
        /\ observed.fields["input"] + observed.fields["output"] <= budget.actual
    BY <1>4, CountBoundsFields
  <1>6. budget.actual < budget.max /\ budget.actual \in Int /\ budget.max \in Int
    BY <1>1, <1>2 DEF Budgets, Counts, Unknown
  <1>7. \A field \in Fields : observed.fields[field] \in Int
    BY <1>4 DEF Usages, Counts, Unknown
  <1> QED BY <1>3, <1>5, <1>6, <1>7 DEF Fields

\* For every bound, configuration, estimate and report, a Run that goes on has
\* observed less than its limit (RunTokenBudget.#evaluate).
THEOREM StaysBelowLimit == BudgetSpec => []RunStaysBelowLimit
  BY CountedIsBelow, BudgetInit, BudgetStep, PTL DEF BudgetSpec

\* Whatever is observed, the snapshots a Run logs are read back
\* (runTokenBudgetSnapshotSchema, recoverRunBudget).
THEOREM BudgetLogIsReadable == BudgetSpec => []BudgetLogReadsBack
  <1>1. BudgetInv => BudgetLogReadsBack
    BY DEF BudgetInv
  <1> QED BY <1>1, BudgetInit, BudgetStep, PTL DEF BudgetSpec
=============================================================================
