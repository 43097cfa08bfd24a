------------------------- MODULE SessionStoreProofs -------------------------
(***************************************************************************)
(* Theorems about SessionStore for any Sessions, Runs, bounds and faults.  *)
(* First the types, which hold whatever the user does. Then, as long as no *)
(* Run and no restore is started while a Run still settles, which the code *)
(* leaves to the user: at most one call is under way, and what it has read *)
(* is still so, from which LogAndManifest and LogOnlyGrows follow. Then    *)
(* what a Run has reported and not yet written: it is what its log will    *)
(* be, and from that what the log of a Run that settled says, and that it  *)
(* can be read.                                                            *)
(***************************************************************************)
EXTENDS SessionStore, SequenceTheorems, WellFoundedInduction, TLAPS

-----------------------------------------------------------------------------
\* The types.

\* The accesses of a call, in the order of the code.
StepsOf(op) ==
    CASE op = "create" -> {"manifest", "stageManifest", "moveManifest", "done", "failed"}
      [] op = "get" -> {"manifest", "events", "done", "failed"}
      [] op = "append" -> Steps \ {"idle"}
      [] op = "update" -> {"manifest", "events", "stageManifest", "moveManifest", "done", "failed"}
      [] OTHER -> {"idle"}

\* A call goes through its accesses, with what it needs; m are the manifests.
CallFits(c, m) ==
    /\ c.at \in StepsOf(c.op)
    /\ c.op = "none" => c = NoCall
    /\ c.op # "none" => c.session \in Sessions
    /\ c.op = "append" => c.event \in Events
    /\ c.op = "update" => c.status \in Lifecycle!Statuses
    /\ c.op \notin {"none", "create"} =>
          /\ m[c.session].status # "none"
          /\ c.at \notin {"manifest", "failed"} => c.manifest.status # "none"
    /\ c.op = "create" /\ c.at = "done" => m[c.session].status # "none"

\* What a Run may report of itself.
Reportable == Lifecycle!Statuses \ {"idle", "interrupted"}

\* The calls a Run of a Session may have waiting in its chain.
Jobs(s) ==
    {c \in Calls : /\ c.op \in {"append", "update"} /\ c.at = "manifest" /\ c.session = s
                   /\ c.op = "append" => c.event \in Events
                   /\ c.op = "update" => c.status \in Reportable}

OpsOf(phase) ==
    CASE phase = "creating" -> {"create"}
      [] phase = "opening" -> {"get"}
      [] phase = "greeting" -> {"append"}
      [] phase = "running" -> {"none", "append", "update"}
      [] OTHER -> {"none"}

\* A Run and the call it waits for.
RunFits(x, c, m) ==
    /\ c.op \in OpsOf(x.phase)
    /\ c.op # "none" => c.session = x.session
    /\ c.op = "update" => c.status \in Reportable
    /\ x.phase = "idle" => x = NoRun
    /\ x.phase # "idle" => x.session \in Sessions
    /\ x.phase \in {"creating", "opening", "greeting"} =>
          x.emitted = 0 /\ x.queue = <<>> /\ ~x.rejected
    /\ x.phase \in {"greeting", "running"} => x.status \in Lifecycle!Statuses
    /\ x.phase = "running" =>
          /\ x.status \in Reportable
          /\ m[x.session].status # "none"
          /\ x.queue \in Seq(Jobs(x.session))
          /\ x.status \in Lifecycle!ActiveStatuses => x.emitted <= MaxEvents + 1
    /\ x.phase = "ended" => x.queue = <<>>

RecoveryFits ==
    /\ recovery.kind = "none" => io[Recovery] = NoCall
    /\ recovery.kind = "list" => io[Recovery].op \in {"none", "update"}
    /\ recovery.kind = "restore" => io[Recovery].op \in {"get", "update"}
    /\ io[Recovery].op = "update" => io[Recovery].status = "interrupted"
    /\ \A s \in recovery.todo : manifest[s].status # "none"

StagedFits ==
    \A s \in Sessions : staged[s].manifest = None \/ staged[s].manifest.status # "none"

\* A Session without a status was never created.
NoneIsNew == \A s \in Sessions : manifest[s].status = "none" => manifest[s] = NoManifest

ShownFits == active # None => run[active].phase # "idle"

Typed ==
    /\ TypeOK
    /\ ShownFits
    /\ NoneIsNew
    /\ \A p \in Processes : CallFits(io[p], manifest)
    /\ \A r \in Runs : RunFits(run[r], io[r], manifest)
    /\ RecoveryFits
    /\ StagedFits

\* The statuses of the lifecycle are all there is, and none of them is "none".
LEMMA StatusFacts ==
    /\ "preparing" \in Reportable /\ Reportable \subseteq Lifecycle!Statuses
    /\ "none" \notin Lifecycle!Statuses
    /\ Lifecycle!ActiveStatuses \subseteq Lifecycle!Statuses
    /\ Lifecycle!TerminalStatuses \subseteq Lifecycle!Statuses
    /\ Recoverable \subseteq Lifecycle!Statuses
    /\ \A s \in Lifecycle!Statuses : Lifecycle!LegalNext(s) \subseteq Reportable
  BY DEF Lifecycle!Statuses, Lifecycle!ActiveStatuses, Lifecycle!TerminalStatuses,
         Lifecycle!ResetStatuses, Recoverable, Reportable, Lifecycle!LegalNext

\* What the operators on calls yield.
LEMMA CallOps ==
    ASSUME NEW c \in Calls, NEW at \in Steps, NEW m \in Manifests, NEW b \in Seq(Events),
           NEW e \in {"corrupt", "readonly", "unavailable"}
    PROVE  /\ [c EXCEPT !.at = at] \in Calls
           /\ [c EXCEPT !.at = at, !.manifest = m] \in Calls
           /\ [c EXCEPT !.at = at, !.base = b] \in Calls
           /\ [c EXCEPT !.at = "failed", !.error = e] \in Calls
  <1> USE DEF Calls
  <1>1. "failed" \in Steps
    BY DEF Steps
  <1>2. [c EXCEPT !.at = at] \in Calls
    OBVIOUS
  <1>3. [c EXCEPT !.at = at, !.manifest = m] \in Calls
    OBVIOUS
  <1>4. [c EXCEPT !.at = at, !.base = b] \in Calls
    OBVIOUS
  <1>5. [c EXCEPT !.at = "failed", !.error = e] \in Calls
    BY <1>1
  <1> QED BY <1>2, <1>3, <1>4, <1>5

LEMMA NewCalls ==
    ASSUME NEW s \in Sessions, NEW op \in {"create", "get", "append", "update"},
           NEW n \in Nat, NEW e \in Events, NEW st \in Reportable
    PROVE  /\ NoCall \in Calls
           /\ Call(op, s) \in Calls
           /\ AppendCall(s, n, e) \in Jobs(s)
           /\ UpdateCall(s, st) \in Jobs(s)
  <1>1. NoManifest \in Manifests /\ <<>> \in Seq(Events)
    BY DEF NoManifest, Manifests
  <1>2. NoCall \in Calls
    BY <1>1 DEF NoCall, Calls, Steps
  <1>3. Call(op, s) \in Calls /\ Call("append", s) \in Calls /\ Call("update", s) \in Calls
    BY <1>1 DEF Call, NoCall, Calls, Steps
  <1>4. /\ AppendCall(s, n, e) \in Calls
        /\ UpdateCall(s, st) \in Calls
    BY <1>1 DEF AppendCall, UpdateCall, Call, NoCall, Calls, Steps, Reportable
  <1>5. AppendCall(s, n, e) \in Jobs(s) /\ UpdateCall(s, st) \in Jobs(s)
    BY <1>4 DEF AppendCall, UpdateCall, Call, NoCall, Jobs
  <1> QED BY <1>2, <1>3, <1>5

LEMMA NewEvents ==
    ASSUME NEW r \in Runs, NEW n \in Nat, NEW from \in Lifecycle!Statuses,
           NEW to \in Lifecycle!Statuses
    PROVE  /\ Event(r, "user") \in Events
           /\ Event(r, "exceeded") \in Events
           /\ [Event(r, "reasoning") EXCEPT !.block = n] \in Events
           /\ StatusEvent(r, from, to) \in Events
  BY DEF Event, StatusEvent, Events

\* A step of a Run changes its record and its call, and no file.
LEMMA RunFrame ==
    ASSUME Typed, NEW r \in Runs, NEW x \in RunRecords, NEW c \in Calls,
           run' = [run EXCEPT ![r] = x], io' = [io EXCEPT ![r] = c],
           CallFits(c, manifest), RunFits(x, c, manifest),
           x.phase # "idle", active' \in {active, r, None}, answer' \in AnswerRecords,
           UNCHANGED <<manifest, log, staged, fresh, recovery, cut>>
    PROVE  Typed'
  <1>1. /\ r # Recovery /\ r \in Processes /\ Recovery \in Processes
        /\ run'[r] = x /\ io'[r] = c /\ io'[Recovery] = io[Recovery]
        /\ \A p \in Processes \ {r} : io'[p] = io[p]
        /\ \A q \in Runs \ {r} : run'[q] = run[q] /\ io'[q] = io[q]
    BY StoreAssumption DEF Processes, Typed, TypeOK
  <1>2. TypeOK'
    BY DEF Typed, TypeOK
  <1>3. \A p \in Processes : CallFits(io'[p], manifest)
    BY <1>1 DEF Typed
  <1>4. \A q \in Runs : RunFits(run'[q], io'[q], manifest)
    BY <1>1 DEF Typed
  <1>5. RecoveryFits'
    BY <1>1 DEF Typed, RecoveryFits
  <1>6. StagedFits' /\ NoneIsNew'
    BY DEF Typed, StagedFits, NoneIsNew
  <1>7. ShownFits'
    BY <1>1 DEF Typed, TypeOK, ShownFits
  <1> QED BY <1>2, <1>3, <1>4, <1>5, <1>6, <1>7 DEF Typed

\* A step of the recovery changes its record and its call, and no file.
LEMMA RecoveryFrame ==
    ASSUME Typed, NEW c \in Calls, io' = [io EXCEPT ![Recovery] = c],
           CallFits(c, manifest), RecoveryFits',
           recovery' \in RecoveryRecords, answer' \in AnswerRecords,
           UNCHANGED <<manifest, log, staged, fresh, run, active, cut>>
    PROVE  Typed'
  <1>1. /\ Recovery \notin Runs /\ Recovery \in Processes
        /\ io'[Recovery] = c
        /\ \A p \in Processes \ {Recovery} : io'[p] = io[p]
        /\ \A q \in Runs : io'[q] = io[q]
    BY StoreAssumption DEF Processes, Typed, TypeOK
  <1>2. TypeOK'
    BY DEF Typed, TypeOK
  <1>3. \A p \in Processes : CallFits(io'[p], manifest)
    BY <1>1 DEF Typed
  <1>4. \A q \in Runs : RunFits(run'[q], io'[q], manifest)
    BY <1>1 DEF Typed
  <1>5. StagedFits' /\ NoneIsNew' /\ ShownFits'
    BY DEF Typed, StagedFits, NoneIsNew, ShownFits
  <1> QED BY <1>2, <1>3, <1>4, <1>5 DEF Typed

\* An access goes on with its call, and no Session disappears.
LEMMA AccessFrame ==
    ASSUME Typed, NEW p \in Processes, NEW c \in Calls, io' = [io EXCEPT ![p] = c],
           c.op # "none", c.op = io[p].op, c.session = io[p].session, c.event = io[p].event,
           c.status = io[p].status, c.at \in StepsOf(c.op),
           manifest' \in [Sessions -> Manifests], log' \in [Sessions -> Seq(Events)],
           staged' \in [Sessions -> StagedFiles], fresh' \subseteq Sessions,
           cut' \in [event : SUBSET Sessions, begin : SUBSET Sessions], StagedFits',
           \A s \in Sessions : manifest'[s] = manifest[s] \/ manifest'[s].status # "none",
           c.op # "create" /\ c.at \notin {"manifest", "failed"} => c.manifest.status # "none",
           c.op = "create" /\ c.at = "done" => manifest'[c.session].status # "none",
           UNCHANGED <<run, active, recovery, answer>>
    PROVE  Typed'
  <1>1. /\ io'[p] = c /\ \A q \in Processes \ {p} : io'[q] = io[q]
        /\ Runs \subseteq Processes /\ Recovery \in Processes
    BY DEF Processes, Typed, TypeOK
  <1>2. TypeOK'
    BY DEF Typed, TypeOK
  <1>3. \A q \in Processes : CallFits(io'[q], manifest')
    <2>1. CallFits(io[p], manifest)
      BY DEF Typed
    <2>2. CallFits(c, manifest')
      BY <2>1 DEF CallFits
    <2>3. ASSUME NEW q \in Processes \ {p}
          PROVE  CallFits(io[q], manifest')
      <3>1. CallFits(io[q], manifest)
        BY DEF Typed
      <3> QED BY <3>1 DEF CallFits
    <2> QED BY <1>1, <2>2, <2>3
  <1>4. \A q \in Runs : RunFits(run'[q], io'[q], manifest')
    <2>1. ASSUME NEW q \in Runs
          PROVE  RunFits(run[q], io'[q], manifest')
      <3>1. RunFits(run[q], io[q], manifest)
        BY DEF Typed
      <3>2. io'[q].op = io[q].op /\ io'[q].session = io[q].session /\ io'[q].status = io[q].status
        BY <1>1
      <3> QED BY <3>1, <3>2 DEF RunFits
    <2> QED BY <2>1
  <1>5. RecoveryFits'
    <2>1. /\ io'[Recovery].op = io[Recovery].op /\ io'[Recovery].status = io[Recovery].status
          /\ io[Recovery] = NoCall => io'[Recovery] = io[Recovery]
      BY <1>1 DEF NoCall
    <2>2. recovery.todo \subseteq Sessions
      BY DEF Typed, TypeOK, RecoveryRecords
    <2> QED BY <2>1, <2>2 DEF Typed, RecoveryFits
  <1>6. NoneIsNew' /\ ShownFits'
    BY DEF Typed, NoneIsNew, ShownFits
  <1> QED BY <1>2, <1>3, <1>4, <1>5, <1>6 DEF Typed

-----------------------------------------------------------------------------
\* The accesses keep the types.

\* A call that is under way is for a Session.
LEMMA CallingFacts ==
    ASSUME Typed, NEW p \in Processes, io[p].at # "idle"
    PROVE  /\ io[p] \in Calls /\ io[p].op \in {"create", "get", "append", "update"}
           /\ io[p].session \in Sessions /\ CallFits(io[p], manifest)
           /\ manifest[io[p].session] \in Manifests /\ log[io[p].session] \in Seq(Events)
           /\ staged[io[p].session] \in StagedFiles
  <1>1. io[p] \in Calls /\ CallFits(io[p], manifest)
    BY DEF Typed, TypeOK
  <1>2. io[p].op # "none"
    BY <1>1 DEF CallFits, StepsOf
  <1>3. io[p].op \in {"create", "get", "append", "update"}
    BY <1>1, <1>2 DEF Calls
  <1> QED BY <1>1, <1>2, <1>3 DEF Typed, TypeOK, CallFits

\* An access that only moves a call on, and no file.
LEMMA ProceedTyped ==
    ASSUME Typed, NEW p \in Processes, NEW at \in Steps, io[p].at # "idle",
           Proceed(p, at), at \in StepsOf(io[p].op), at # "done" \/ io[p].op # "create",
           io[p].at \notin {"manifest", "failed"} \/ io[p].op = "create",
           UNCHANGED <<manifest, log, staged, fresh, cut, run, active, recovery, answer>>
    PROVE  Typed'
  <1> DEFINE c == [io[p] EXCEPT !.at = at]
  <1>1. /\ io[p] \in Calls /\ io[p].op # "none" /\ CallFits(io[p], manifest)
    BY CallingFacts
  <1>2. c \in Calls /\ NoManifest \in Manifests /\ <<>> \in Seq(Events)
    BY <1>1 DEF Calls, NoManifest, Manifests
  <1>3. io' = [io EXCEPT ![p] = c]
    BY DEF Proceed
  <1>4. /\ c.op = io[p].op /\ c.session = io[p].session /\ c.event = io[p].event
        /\ c.status = io[p].status /\ c.at = at /\ c.manifest = io[p].manifest
    BY <1>1 DEF Calls
  <1>5. c.op # "create" => c.manifest.status # "none"
    BY <1>1, <1>4 DEF CallFits
  <1>6. /\ manifest' \in [Sessions -> Manifests] /\ log' \in [Sessions -> Seq(Events)]
        /\ staged' \in [Sessions -> StagedFiles] /\ fresh' \subseteq Sessions
        /\ cut' \in [event : SUBSET Sessions, begin : SUBSET Sessions] /\ StagedFits'
    BY DEF Typed, TypeOK, StagedFits
  <1> HIDE DEF c
  <1> QED BY <1>1, <1>2, <1>3, <1>4, <1>5, <1>6, AccessFrame

\* The same for an access that fails.
LEMMA FailTyped ==
    ASSUME Typed, NEW p \in Processes, NEW e \in {"corrupt", "readonly", "unavailable"},
           io[p].at # "idle", FailWith(p, e),
           staged' \in [Sessions -> StagedFiles], StagedFits',
           cut' \in [event : SUBSET Sessions, begin : SUBSET Sessions],
           UNCHANGED <<manifest, log, fresh, run, active, recovery, answer>>
    PROVE  Typed'
  <1> DEFINE c == [io[p] EXCEPT !.at = "failed", !.error = e]
  <1>1. /\ io[p] \in Calls /\ io[p].op \in {"create", "get", "append", "update"}
    BY CallingFacts
  <1>2. c \in Calls
    BY <1>1 DEF Calls, Steps
  <1>3. io' = [io EXCEPT ![p] = c]
    BY <1>1 DEF FailWith, Typed, TypeOK
  <1>4. /\ c.op = io[p].op /\ c.session = io[p].session /\ c.event = io[p].event
        /\ c.status = io[p].status /\ c.at = "failed"
    BY <1>1 DEF Calls
  <1>5. c.at \in StepsOf(c.op)
    BY <1>1, <1>4 DEF StepsOf, Steps
  <1>6. /\ manifest' \in [Sessions -> Manifests] /\ log' \in [Sessions -> Seq(Events)]
        /\ fresh' \subseteq Sessions
    BY DEF Typed, TypeOK
  <1> HIDE DEF c
  <1> QED BY <1>1, <1>2, <1>3, <1>4, <1>5, <1>6, AccessFrame

\* What is written over a manifest keeps its Session.
LEMMA NewManifestFits ==
    ASSUME NEW c \in Calls, c.op \in {"create", "append", "update"},
           c.op # "create" => c.manifest.status # "none",
           c.op = "update" => c.status \in Lifecycle!Statuses
    PROVE  NewManifest(c) \in Manifests /\ NewManifest(c).status # "none"
  <1>1. c.manifest \in Manifests /\ c.seq \in Nat
    BY DEF Calls
  <1>2. CASE c.op = "create"
    BY <1>2, StatusFacts DEF NewManifest, Manifests, Lifecycle!Statuses, Lifecycle!ResetStatuses
  <1>3. CASE c.op = "append"
    BY <1>1, <1>3 DEF NewManifest, Manifests
  <1>4. CASE c.op = "update"
    BY <1>1, <1>4, StatusFacts DEF NewManifest, Manifests
  <1> QED BY <1>2, <1>3, <1>4

LEMMA ReadsTyped ==
    ASSUME Typed, NEW p \in Processes,
           UNCHANGED <<run, active, recovery, answer>>,
           ReadManifest(p) \/ ReadEvents(p) \/ CheckSequence(p) \/ ReadBase(p)
    PROVE  Typed'
  <1>1. CASE ReadManifest(p)
    <2>1. io[p].at = "manifest"
      BY <1>1 DEF ReadManifest, Waits
    <2>2. CASE io[p].op = "create"
      <3>1. Proceed(p, "stageManifest")
        BY <1>1, <2>2 DEF ReadManifest
      <3>2. "stageManifest" \in StepsOf(io[p].op) /\ "stageManifest" \in Steps
        BY <2>2 DEF StepsOf, Steps
      <3> QED BY <1>1, <2>1, <2>2, <3>1, <3>2, ProceedTyped DEF ReadManifest, files
    <2>3. CASE io[p].op # "create"
      <3> DEFINE m == manifest[io[p].session]
                 c == [io[p] EXCEPT !.at = "events", !.manifest = m]
      <3>1. io' = [io EXCEPT ![p] = c]
        BY <1>1, <2>3 DEF ReadManifest, Typed, TypeOK
      <3>2. /\ io[p] \in Calls /\ m \in Manifests /\ CallFits(io[p], manifest)
            /\ io[p].op \in {"get", "append", "update"}
        BY <2>1, <2>3, CallingFacts
      <3>3. c \in Calls
        BY <3>2 DEF Calls, Steps
      <3>4. /\ c.op = io[p].op /\ c.session = io[p].session /\ c.event = io[p].event
            /\ c.status = io[p].status /\ c.at = "events" /\ c.manifest = m
        BY <3>2 DEF Calls
      <3>5. c.at \in StepsOf(c.op) /\ m.status # "none"
        BY <3>2, <3>4 DEF StepsOf, Steps, CallFits
      <3>6. /\ manifest' \in [Sessions -> Manifests] /\ log' \in [Sessions -> Seq(Events)]
            /\ staged' \in [Sessions -> StagedFiles] /\ fresh' \subseteq Sessions
            /\ cut' \in [event : SUBSET Sessions, begin : SUBSET Sessions] /\ StagedFits'
            /\ manifest' = manifest
        BY <1>1 DEF ReadManifest, files, Typed, TypeOK, StagedFits
      <3> HIDE DEF c, m
      <3> QED BY <2>3, <3>1, <3>2, <3>3, <3>4, <3>5, <3>6, AccessFrame
    <2> QED BY <2>2, <2>3
  <1>2. CASE ReadEvents(p)
    <2>1. io[p].at = "events"
      BY <1>2 DEF ReadEvents, Waits
    <2>2. /\ io[p] \in Calls /\ CallFits(io[p], manifest) /\ log[io[p].session] \in Seq(Events)
          /\ io[p].op \in {"get", "append", "update"}
      BY <2>1, CallingFacts DEF CallFits, StepsOf
    <2>3. CASE \E e \in {"corrupt", "readonly"} : FailWith(p, e)
      BY <1>2, <2>1, <2>3, FailTyped DEF ReadEvents, files, Typed, TypeOK, StagedFits
    <2>4. CASE io[p].op = "get" /\ io' = [io EXCEPT ![p].at = "done", ![p].base = log[io[p].session]]
      <3> DEFINE c == [io[p] EXCEPT !.at = "done", !.base = log[io[p].session]]
      <3>1. io' = [io EXCEPT ![p] = c]
        BY <2>4 DEF Typed, TypeOK
      <3>2. c \in Calls
        BY <2>2 DEF Calls, Steps
      <3>3. /\ c.op = "get" /\ c.op = io[p].op /\ c.session = io[p].session
            /\ c.event = io[p].event /\ c.status = io[p].status /\ c.at = "done"
            /\ c.manifest = io[p].manifest
        BY <2>2, <2>4 DEF Calls
      <3>4. c.at \in StepsOf(c.op) /\ c.manifest.status # "none"
        BY <2>1, <2>2, <3>3 DEF StepsOf, Steps, CallFits
      <3>5. /\ manifest' \in [Sessions -> Manifests] /\ log' \in [Sessions -> Seq(Events)]
            /\ staged' \in [Sessions -> StagedFiles] /\ fresh' \subseteq Sessions
            /\ cut' \in [event : SUBSET Sessions, begin : SUBSET Sessions] /\ StagedFits'
            /\ manifest' = manifest
        BY <1>2 DEF ReadEvents, files, Typed, TypeOK, StagedFits
      <3> HIDE DEF c
      <3> QED BY <3>1, <3>2, <3>3, <3>4, <3>5, AccessFrame
    <2>5. CASE \/ io[p].op = "append" /\ Proceed(p, "sequence")
               \/ io[p].op = "update" /\ Proceed(p, "stageManifest")
      <3>1. \A at \in {"sequence", "stageManifest"} : at \in Steps
        BY DEF Steps
      <3>2. /\ io[p].op = "append" => "sequence" \in StepsOf(io[p].op)
            /\ io[p].op = "update" => "stageManifest" \in StepsOf(io[p].op)
        BY DEF StepsOf, Steps
      <3> QED BY <1>2, <2>1, <2>5, <3>1, <3>2, ProceedTyped DEF ReadEvents, files
    <2> QED BY <1>2, <2>2, <2>3, <2>4, <2>5 DEF ReadEvents
  <1>3. CASE CheckSequence(p)
    <2>1. io[p].at = "sequence"
      BY <1>3 DEF CheckSequence, Waits
    <2>2. io[p].op = "append" /\ CallFits(io[p], manifest)
      BY <2>1, CallingFacts DEF CallFits, StepsOf
    <2>3. "base" \in StepsOf(io[p].op) /\ "base" \in Steps
      BY <2>2 DEF StepsOf, Steps
    <2>4. CASE Proceed(p, "base")
      BY <1>3, <2>1, <2>2, <2>3, <2>4, ProceedTyped DEF CheckSequence, files
    <2>5. CASE FailWith(p, "unavailable")
      BY <1>3, <2>1, <2>5, FailTyped DEF CheckSequence, files, Typed, TypeOK, StagedFits
    <2> QED BY <1>3, <2>4, <2>5 DEF CheckSequence
  <1>4. CASE ReadBase(p)
    <2> DEFINE c == [io[p] EXCEPT !.at = "stageLog", !.base = log[io[p].session]]
    <2>1. io[p].at = "base"
      BY <1>4 DEF ReadBase, Waits
    <2>2. /\ io[p] \in Calls /\ CallFits(io[p], manifest) /\ log[io[p].session] \in Seq(Events)
          /\ io[p].op = "append"
      BY <2>1, CallingFacts DEF CallFits, StepsOf
    <2>3. io' = [io EXCEPT ![p] = c]
      BY <1>4 DEF ReadBase, Typed, TypeOK
    <2>4. c \in Calls
      BY <2>2 DEF Calls, Steps
    <2>5. /\ c.op = "append" /\ c.op = io[p].op /\ c.session = io[p].session
          /\ c.event = io[p].event /\ c.status = io[p].status /\ c.at = "stageLog"
          /\ c.manifest = io[p].manifest
      BY <2>2 DEF Calls
    <2>6. c.at \in StepsOf(c.op) /\ c.manifest.status # "none"
      BY <2>1, <2>2, <2>5 DEF StepsOf, Steps, CallFits
    <2>7. /\ manifest' \in [Sessions -> Manifests] /\ log' \in [Sessions -> Seq(Events)]
          /\ staged' \in [Sessions -> StagedFiles] /\ fresh' \subseteq Sessions
          /\ cut' \in [event : SUBSET Sessions, begin : SUBSET Sessions] /\ StagedFits'
          /\ manifest' = manifest
      BY <1>4 DEF ReadBase, files, Typed, TypeOK, StagedFits
    <2> HIDE DEF c
    <2> QED BY <2>3, <2>4, <2>5, <2>6, <2>7, AccessFrame
  <1> QED BY <1>1, <1>2, <1>3, <1>4

\* A write that goes on.
LEMMA WriteTyped ==
    ASSUME Typed, NEW p \in Processes, NEW at \in Steps, io[p].at \notin {"idle", "manifest", "failed"},
           io' = [io EXCEPT ![p].at = at], at \in StepsOf(io[p].op), at # "failed",
           manifest' \in [Sessions -> Manifests], log' \in [Sessions -> Seq(Events)],
           staged' \in [Sessions -> StagedFiles], fresh' \subseteq Sessions, StagedFits',
           \A s \in Sessions : manifest'[s] = manifest[s] \/ manifest'[s].status # "none",
           io[p].op = "create" /\ at = "done" => manifest'[io[p].session].status # "none",
           UNCHANGED <<cut, run, active, recovery, answer>>
    PROVE  Typed'
  <1> DEFINE c == [io[p] EXCEPT !.at = at]
  <1>1. /\ io[p] \in Calls /\ io[p].op # "none" /\ CallFits(io[p], manifest)
    BY CallingFacts
  <1>2. c \in Calls
    BY <1>1 DEF Calls
  <1>3. io' = [io EXCEPT ![p] = c]
    OBVIOUS
  <1>4. /\ c.op = io[p].op /\ c.session = io[p].session /\ c.event = io[p].event
        /\ c.status = io[p].status /\ c.at = at /\ c.manifest = io[p].manifest
    BY <1>1 DEF Calls
  <1>5. c.op # "create" => c.manifest.status # "none"
    BY <1>1, <1>4 DEF CallFits
  <1>6. cut' \in [event : SUBSET Sessions, begin : SUBSET Sessions]
    BY DEF Typed, TypeOK
  <1> HIDE DEF c
  <1>7. c.op # "none" /\ c.at \in StepsOf(c.op)
    BY <1>1, <1>4
  <1>8. c.op = "create" /\ c.at = "done" => manifest'[c.session].status # "none"
    BY <1>4
  <1>9. c.op # "create" /\ c.at \notin {"manifest", "failed"} => c.manifest.status # "none"
    BY <1>5
  <1> QED BY <1>2, <1>3, <1>4, <1>6, <1>7, <1>8, <1>9, AccessFrame

LEMMA WritesTyped ==
    ASSUME Typed, NEW p \in Processes,
           UNCHANGED <<run, active, recovery, answer>>,
           StageLog(p) \/ MoveLog(p) \/ StageManifest(p) \/ MoveManifest(p) \/ AccessFails(p)
    PROVE  Typed'
  <1> DEFINE s == io[p].session
  <1>0. /\ manifest \in [Sessions -> Manifests] /\ log \in [Sessions -> Seq(Events)]
        /\ staged \in [Sessions -> StagedFiles] /\ fresh \subseteq Sessions
        /\ cut \in [event : SUBSET Sessions, begin : SUBSET Sessions] /\ StagedFits
    BY DEF Typed, TypeOK
  <1>1. CASE StageLog(p)
    <2>1. io[p].at = "stageLog"
      BY <1>1 DEF StageLog, Waits
    <2>2. /\ io[p] \in Calls /\ CallFits(io[p], manifest) /\ s \in Sessions
          /\ io[p].op = "append"
      BY <2>1, CallingFacts DEF CallFits, StepsOf
    <2>3. io[p].event \in Events /\ io[p].base \in Seq(Events)
      BY <2>2 DEF CallFits, Calls
    <2>4. Append(io[p].base, io[p].event) \in Seq(Events)
      BY <2>3
    <2>5. staged' \in [Sessions -> StagedFiles]
      BY <1>0, <1>1, <2>2, <2>4 DEF StageLog, StagedFiles
    <2>6. \A t \in Sessions : staged'[t].manifest = staged[t].manifest
      BY <1>0, <1>1, <2>2 DEF StageLog, StagedFiles
    <2>7. StagedFits'
      BY <1>0, <2>6 DEF StagedFits
    <2>8. "moveLog" \in StepsOf(io[p].op) /\ "moveLog" \in Steps
      BY <2>2 DEF StepsOf, Steps
    <2> QED BY <1>0, <1>1, <2>1, <2>2, <2>5, <2>7, <2>8, WriteTyped DEF StageLog, Proceed
  <1>2. CASE MoveLog(p)
    <2>1. io[p].at = "moveLog"
      BY <1>2 DEF MoveLog, Waits
    <2>2. /\ io[p] \in Calls /\ CallFits(io[p], manifest) /\ s \in Sessions
          /\ io[p].op = "append"
      BY <2>1, CallingFacts DEF CallFits, StepsOf
    <2>3. CASE staged[s].log = None
      BY <1>0, <1>2, <2>1, <2>3, FailTyped DEF MoveLog, Typed, TypeOK, StagedFits
    <2>4. CASE staged[s].log # None
      <3>1. staged[s] \in StagedFiles /\ staged[s].log \in Seq(Events)
        BY <1>0, <2>2, <2>4 DEF StagedFiles
      <3>2. log' \in [Sessions -> Seq(Events)]
        BY <1>0, <1>2, <2>2, <2>4, <3>1 DEF MoveLog
      <3> DEFINE f == [staged[s] EXCEPT !.log = None]
      <3>a. staged' = [staged EXCEPT ![s] = f]
        BY <1>0, <1>2, <2>2, <2>4 DEF MoveLog
      <3>b. f \in StagedFiles /\ f.manifest = staged[s].manifest
        BY <3>1 DEF StagedFiles
      <3> HIDE DEF f
      <3>3. staged' \in [Sessions -> StagedFiles]
        BY <1>0, <3>a, <3>b
      <3>4. \A t \in Sessions : staged'[t].manifest = staged[t].manifest
        BY <1>0, <2>2, <3>a, <3>b
      <3>5. StagedFits'
        BY <1>0, <3>4 DEF StagedFits
      <3>6. "stageManifest" \in StepsOf(io[p].op) /\ "stageManifest" \in Steps
        BY <2>2 DEF StepsOf, Steps
      <3> QED BY <1>0, <1>2, <2>1, <2>2, <2>4, <3>2, <3>3, <3>5, <3>6, WriteTyped DEF MoveLog, Proceed
    <2> QED BY <2>3, <2>4
  <1>3. CASE StageManifest(p)
    <2>1. io[p].at = "stageManifest"
      BY <1>3 DEF StageManifest, Waits
    <2>2. /\ io[p] \in Calls /\ CallFits(io[p], manifest) /\ s \in Sessions
          /\ io[p].op \in {"create", "append", "update"}
      BY <2>1, CallingFacts DEF CallFits, StepsOf
    <2>3. NewManifest(io[p]) \in Manifests /\ NewManifest(io[p]).status # "none"
      BY <2>1, <2>2, NewManifestFits DEF CallFits
    <2>4. staged' \in [Sessions -> StagedFiles]
      BY <1>0, <1>3, <2>2, <2>3 DEF StageManifest, StagedFiles
    <2>5. \A t \in Sessions : staged'[t].manifest = staged[t].manifest \/ staged'[t].manifest = NewManifest(io[p])
      BY <1>0, <1>3, <2>2 DEF StageManifest, StagedFiles
    <2>6. StagedFits'
      BY <1>0, <2>3, <2>5 DEF StagedFits
    <2>7. "moveManifest" \in StepsOf(io[p].op) /\ "moveManifest" \in Steps
      BY <2>2 DEF StepsOf, Steps
    <2> QED BY <1>0, <1>3, <2>1, <2>2, <2>4, <2>6, <2>7, WriteTyped DEF StageManifest, Proceed
  <1>4. CASE MoveManifest(p)
    <2>1. io[p].at = "moveManifest"
      BY <1>4 DEF MoveManifest, Waits
    <2>2. /\ io[p] \in Calls /\ CallFits(io[p], manifest) /\ s \in Sessions
          /\ io[p].op \in {"create", "append", "update"}
      BY <2>1, CallingFacts DEF CallFits, StepsOf
    <2>3. CASE staged[s].manifest = None
      BY <1>0, <1>4, <2>1, <2>3, FailTyped DEF MoveManifest, Typed, TypeOK, StagedFits
    <2>4. CASE staged[s].manifest # None
      <3>1. /\ staged[s] \in StagedFiles /\ staged[s].manifest \in Manifests
            /\ staged[s].manifest.status # "none"
        BY <1>0, <2>2, <2>4 DEF StagedFiles, StagedFits
      <3>2. manifest' = [manifest EXCEPT ![s] = staged[s].manifest]
        BY <1>4, <2>4 DEF MoveManifest
      <3>3. manifest' \in [Sessions -> Manifests]
        BY <1>0, <3>1, <3>2
      <3>4. \A t \in Sessions : manifest'[t] = manifest[t] \/ manifest'[t].status # "none"
        BY <1>0, <3>1, <3>2
      <3>5. manifest'[s].status # "none"
        BY <1>0, <2>2, <3>1, <3>2
      <3> DEFINE f == [staged[s] EXCEPT !.manifest = None]
      <3>a. staged' = [staged EXCEPT ![s] = f]
        BY <1>0, <1>4, <2>2, <2>4 DEF MoveManifest
      <3>b. f \in StagedFiles /\ f.manifest = None
        BY <3>1 DEF StagedFiles
      <3> HIDE DEF f
      <3>6. staged' \in [Sessions -> StagedFiles]
        BY <1>0, <3>a, <3>b
      <3>7. \A t \in Sessions : staged'[t].manifest = staged[t].manifest \/ staged'[t].manifest = None
        BY <1>0, <2>2, <3>a, <3>b
      <3>8. StagedFits'
        BY <1>0, <3>7 DEF StagedFits
      <3>9. fresh' \subseteq Sessions
        BY <1>0, <1>4, <2>2, <2>4 DEF MoveManifest
      <3>10. "done" \in StepsOf(io[p].op) /\ "done" \in Steps
        BY <2>2 DEF StepsOf, Steps
      <3> QED BY <1>0, <1>4, <2>1, <2>2, <2>4, <3>3, <3>4, <3>5, <3>6, <3>8, <3>9, <3>10, WriteTyped
              DEF MoveManifest, Proceed
    <2> QED BY <2>3, <2>4
  <1>5. CASE AccessFails(p)
    <2>1. io[p].at # "idle" /\ FailWith(p, "unavailable")
      BY <1>5 DEF AccessFails, Pending
    <2>2. io[p].session \in Sessions
      BY <2>1, CallingFacts
    <2>3. staged' \in [Sessions -> StagedFiles]
      BY <1>0, <1>5, <2>2 DEF AccessFails, StagedFiles
    <2>4. \A t \in Sessions : staged'[t].manifest = staged[t].manifest \/ staged'[t].manifest = None
      BY <1>0, <1>5, <2>2 DEF AccessFails, StagedFiles
    <2>5. StagedFits'
      BY <1>0, <2>4 DEF StagedFits
    <2>6. cut' \in [event : SUBSET Sessions, begin : SUBSET Sessions]
      BY <1>0, <1>5, <2>2 DEF AccessFails
    <2> QED BY <1>5, <2>1, <2>3, <2>5, <2>6, FailTyped DEF AccessFails
  <1> QED BY <1>1, <1>2, <1>3, <1>4, <1>5

LEMMA AccessTyped ==
    ASSUME Typed, NEW p \in Processes, Access(p)
    PROVE  Typed'
  BY ReadsTyped, WritesTyped DEF Access

-----------------------------------------------------------------------------
\* The steps of a Run keep the types.

RunFacts(r) ==
    /\ run[r] \in RunRecords /\ io[r] \in Calls /\ RunFits(run[r], io[r], manifest)
    /\ CallFits(io[r], manifest) /\ r \in Processes
    /\ active \in Runs \union {None} /\ answer \in AnswerRecords
    /\ NoAnswer \in AnswerRecords /\ NoCall \in Calls

LEMMA RunFactsHold ==
    ASSUME Typed, NEW r \in Runs
    PROVE  RunFacts(r)
  <1>1. NoAnswer \in AnswerRecords
    BY DEF NoAnswer, AnswerRecords
  <1>2. NoManifest \in Manifests /\ <<>> \in Seq(Events)
    BY DEF NoManifest, Manifests
  <1>3. NoCall \in Calls
    BY <1>2 DEF NoCall, Calls, Steps
  <1> QED BY <1>1, <1>3 DEF RunFacts, Typed, TypeOK, Processes

LEMMA StartTyped ==
    ASSUME Typed, NEW r \in Runs, StartNew(r) \/ StartExisting(r)
    PROVE  Typed'
  <1>1. PICK s \in Sessions, phase \in {"creating", "opening"}, op \in {"create", "get"} :
          /\ Start(r, s, phase, op)
          /\ op \in OpsOf(phase)
          /\ op = "get" => manifest[s].status # "none"
    <2>1. CASE StartNew(r)
      BY <2>1 DEF StartNew, OpsOf
    <2>2. CASE StartExisting(r)
      BY <2>2 DEF StartExisting, OpsOf, Shown, Typed, NoneIsNew
    <2> QED BY <2>1, <2>2
  <1> DEFINE x == [run[r] EXCEPT !.phase = phase, !.session = s]
             c == Call(op, s)
  <1>2. RunFacts(r)
    BY RunFactsHold
  <1>3. run[r].phase = "idle" /\ run' = [run EXCEPT ![r] = x] /\ io' = [io EXCEPT ![r] = c]
    BY <1>1, <1>2 DEF Start, RunFacts, RunRecords, Typed, TypeOK
  <1>4. run[r] = NoRun
    BY <1>2, <1>3 DEF RunFacts, RunFits
  <1>a. run[r] \in RunRecords /\ run[r].emitted = 0 /\ run[r].queue = <<>> /\ ~run[r].rejected
    BY <1>2, <1>4 DEF RunFacts, NoRun
  <1>5. /\ x \in RunRecords /\ x.phase = phase /\ x.session = s
        /\ x.emitted = 0 /\ x.queue = <<>> /\ ~x.rejected
    BY <1>a DEF RunRecords
  <1>b. c = [NoCall EXCEPT !.op = op, !.at = "manifest", !.session = s] /\ NoCall \in Calls
    BY <1>2 DEF RunFacts, Call
  <1>6. c \in Calls /\ c.op = op /\ c.session = s /\ c.at = "manifest"
    BY <1>b DEF Calls, Steps
  <1> HIDE DEF x, c
  <1>7. CallFits(c, manifest)
    BY <1>1, <1>6 DEF CallFits, StepsOf
  <1>8. RunFits(x, c, manifest)
    BY <1>1, <1>5, <1>6 DEF RunFits
  <1> QED BY <1>1, <1>2, <1>3, <1>5, <1>6, <1>7, <1>8, RunFrame DEF Start, RunFacts, files

LEMMA EndTyped ==
    ASSUME Typed, NEW r \in Runs, NEW outcome \in Outcomes, run[r].phase # "idle", End(r, outcome)
    PROVE  Typed'
  <1> DEFINE x == [run[r] EXCEPT !.phase = "ended", !.outcome = outcome, !.queue = <<>>]
  <1>1. RunFacts(r)
    BY RunFactsHold
  <1>2. run' = [run EXCEPT ![r] = x] /\ io' = [io EXCEPT ![r] = NoCall]
    BY <1>1 DEF End, RunFacts, Typed, TypeOK
  <1>a. run[r] \in RunRecords /\ <<>> \in Seq(Calls)
    BY <1>1 DEF RunFacts
  <1>3. x \in RunRecords /\ x.phase = "ended" /\ x.session = run[r].session /\ x.queue = <<>>
    BY <1>a DEF RunRecords
  <1> HIDE DEF x
  <1>4. CallFits(NoCall, manifest)
    BY DEF CallFits, StepsOf, NoCall
  <1>5. RunFits(x, NoCall, manifest)
    BY <1>1, <1>3 DEF RunFits, RunFacts, NoCall, OpsOf
  <1>6. active' \in {active, r, None}
    BY DEF End
  <1> QED BY <1>1, <1>2, <1>3, <1>4, <1>5, <1>6, RunFrame DEF End, RunFacts, files

LEMMA GreetTyped ==
    ASSUME Typed, NEW r \in Runs, NEW n \in Nat, NEW st \in Lifecycle!Statuses,
           run[r].phase \in {"creating", "opening"}, Greet(r, n, st),
           manifest[run[r].session].status # "none"
    PROVE  Typed'
  <1> DEFINE x == [run[r] EXCEPT !.phase = "greeting", !.seq = n, !.initial = st, !.status = st]
             c == AppendCall(run[r].session, n, Event(r, "user"))
  <1>1. RunFacts(r)
    BY RunFactsHold
  <1>2. run' = [run EXCEPT ![r] = x] /\ io' = [io EXCEPT ![r] = c]
    BY <1>1 DEF Greet, RunFacts, Typed, TypeOK
  <1>3. /\ x \in RunRecords /\ x.phase = "greeting" /\ x.session = run[r].session
        /\ x.queue = run[r].queue /\ x.emitted = run[r].emitted /\ x.rejected = run[r].rejected
        /\ x.status = st
    BY <1>1 DEF RunFacts, RunRecords
  <1>4. run[r].session \in Sessions
    BY <1>1 DEF RunFacts, RunFits
  <1>5. Event(r, "user") \in Events
    BY NewEvents, StatusFacts DEF Lifecycle!Statuses, Lifecycle!ResetStatuses
  <1>6. c \in Jobs(run[r].session)
    BY <1>4, <1>5, NewCalls, StatusFacts
  <1>7. c \in Calls /\ c.op = "append" /\ c.at = "manifest" /\ c.session = run[r].session /\ c.event \in Events
    BY <1>1, <1>5, <1>6 DEF Jobs, AppendCall, Call, NoCall, RunFacts
  <1> HIDE DEF x, c
  <1>8. CallFits(c, manifest)
    BY <1>4, <1>7 DEF CallFits, StepsOf, Steps
  <1>9. RunFits(x, c, manifest)
    BY <1>1, <1>3, <1>4, <1>7 DEF RunFits, RunFacts, OpsOf
  <1> QED BY <1>1, <1>2, <1>3, <1>7, <1>8, <1>9, RunFrame DEF Greet, RunFacts, files

\* A report takes its place in the chain.
LEMMA ReportedFits ==
    ASSUME Typed, NEW r \in Runs, run[r].phase \in {"greeting", "running"},
           run[r].emitted <= MaxEvents + 1, NEW e \in Events, NEW u,
           u = <<>> \/ \E to \in Reportable : u = <<UpdateCall(run[r].session, to)>>
    PROVE  LET x == Reported(r, e, u)
           IN  /\ x \in RunRecords /\ x.queue \in Seq(Jobs(run[r].session))
               /\ x.emitted = run[r].emitted + 1 /\ x.seq = run[r].seq + 1
               /\ x.phase = run[r].phase /\ x.session = run[r].session /\ x.status = run[r].status
  <1> DEFINE s == run[r].session
             a == AppendCall(s, run[r].seq + 1, e)
             q == IF run[r].rejected THEN <<>> ELSE run[r].queue \o (<<a>> \o u)
             x == Reported(r, e, u)
  <1>1. RunFacts(r)
    BY RunFactsHold
  <1>2. run[r] \in RunRecords /\ s \in Sessions /\ run[r].seq \in Nat
    BY <1>1 DEF RunFacts, RunFits, RunRecords
  <1>0. <<>> \in Seq(Jobs(s)) /\ "preparing" \in Reportable
    BY StatusFacts
  <1>3. run[r].queue \in Seq(Jobs(s))
    BY <1>0, <1>1 DEF RunFacts, RunFits
  <1>a. \A to \in Reportable : UpdateCall(s, to) \in Jobs(s)
    BY <1>2, NewCalls
  <1>4. a \in Jobs(s)
    BY <1>0, <1>2, NewCalls
  <1>5. u \in Seq(Jobs(s))
    <2>1. CASE u = <<>>
      BY <1>0, <2>1
    <2>2. ASSUME NEW to \in Reportable, u = <<UpdateCall(s, to)>>
          PROVE  u \in Seq(Jobs(s))
      BY <1>a, <2>2
    <2> QED BY <2>1, <2>2
  <1>6. <<a>> \in Seq(Jobs(s))
    BY <1>4
  <1> HIDE DEF a
  <1>7. <<a>> \o u \in Seq(Jobs(s))
    BY <1>5, <1>6
  <1>b. run[r].queue \o (<<a>> \o u) \in Seq(Jobs(s))
    BY <1>3, <1>7
  <1>8. q \in Seq(Jobs(s))
    BY <1>0, <1>b
  <1>9. Jobs(s) \subseteq Calls
    BY DEF Jobs
  <1> HIDE DEF q
  <1>10. q \in Seq(Calls)
    BY <1>8, <1>9, SeqMonotonic
  <1>11. x = [run[r] EXCEPT !.seq = run[r].seq + 1, !.emitted = run[r].emitted + 1, !.queue = q]
    BY <1>2 DEF Reported, a, q, RunRecords
  <1>12. run[r].emitted + 1 \in 0 .. MaxEvents + 2 /\ run[r].seq + 1 \in Nat
    BY <1>2, StoreAssumption DEF RunRecords
  <1> HIDE DEF x
  <1>13. /\ x \in RunRecords /\ x.queue = q
         /\ x.emitted = run[r].emitted + 1 /\ x.seq = run[r].seq + 1
         /\ x.phase = run[r].phase /\ x.session = s /\ x.status = run[r].status
    BY <1>2, <1>10, <1>11, <1>12 DEF RunRecords
  <1> QED BY <1>8, <1>13 DEF x

\* A Run that works keeps the call it waits for.
LEMMA WorkTyped ==
    ASSUME Typed, NEW r \in Runs, NEW x \in RunRecords, NEW c \in Calls,
           run' = [run EXCEPT ![r] = x], io' = [io EXCEPT ![r] = c],
           (c = io[r] /\ run[r].phase = "running") \/ c = NoCall,
           x.phase = "running", x.session = run[r].session, x.session \in Sessions,
           manifest[x.session].status # "none",
           x.queue \in Seq(Jobs(x.session)),
           x.status \in Reportable,
           x.status \in Lifecycle!ActiveStatuses => x.emitted <= MaxEvents + 1,
           active' \in {active, None},
           UNCHANGED <<files, fresh, recovery, answer, cut>>
    PROVE  Typed'
  <1>1. RunFacts(r)
    BY RunFactsHold
  <1>2. CallFits(c, manifest)
    BY <1>1 DEF CallFits, StepsOf, NoCall, RunFacts
  <1>a. RunFits(run[r], io[r], manifest)
    BY <1>1 DEF RunFacts
  <1>3. RunFits(x, c, manifest)
    <2>1. CASE c = io[r] /\ run[r].phase = "running"
      BY <1>a, <2>1, StatusFacts DEF RunFits
    <2>2. CASE c = NoCall
      BY <2>2, StatusFacts DEF RunFits, NoCall, OpsOf
    <2> QED BY <2>1, <2>2
  <1> QED BY <1>1, <1>2, <1>3, RunFrame DEF RunFacts, files

\* The fields of what a report makes of a Run.
ReportOf(r, x) ==
    /\ x \in RunRecords /\ x.queue \in Seq(Jobs(run[r].session))
    /\ x.phase = "running" /\ x.session = run[r].session /\ x.emitted = run[r].emitted + 1

LEMMA EmitTyped ==
    ASSUME Typed, NEW r \in Runs, Greeted(r) \/ EmitStatus(r) \/ EmitReasoning(r) \/ EmitExceeded(r)
    PROVE  Typed'
  <1>1. RunFacts(r)
    BY RunFactsHold
  <1>2. run[r] \in RunRecords /\ run[r].emitted \in Nat /\ MaxEvents \in Nat /\ run[r].blocks \in Nat
    BY <1>1, StoreAssumption DEF RunFacts, RunRecords
  <1>3. CASE Greeted(r)
    <2> DEFINE u == <<UpdateCall(run[r].session, "preparing")>>
               y == Reported(r, StatusEvent(r, run[r].status, "preparing"), u)
               z == [y EXCEPT !.status = "preparing"]
               x == [z EXCEPT !.phase = "running"]
    <2>1. "preparing" \in Reportable /\ "preparing" \in Lifecycle!Statuses
      BY StatusFacts
    <2>2. run[r].phase = "greeting" /\ run[r].emitted = 0 /\ run[r].status \in Lifecycle!Statuses
          /\ io[r].op = "append" /\ run[r].session \in Sessions /\ io[r].session = run[r].session
      BY <1>1, <1>3 DEF Greeted, Answers, RunFacts, RunFits, OpsOf
    <2>3. manifest[run[r].session].status # "none"
      BY <1>1, <2>2 DEF RunFacts, CallFits
    <2>4. StatusEvent(r, run[r].status, "preparing") \in Events
      BY <2>1, <2>2, NewEvents
    <2>5. /\ y \in RunRecords /\ y.queue \in Seq(Jobs(run[r].session))
          /\ y.emitted = run[r].emitted + 1 /\ y.session = run[r].session
      BY <1>2, <2>1, <2>2, <2>4, ReportedFits
    <2>6. z = ReportedStatus(r, "preparing")
      BY DEF ReportedStatus
    <2>7. run' = [run EXCEPT ![r] = x] /\ io' = [io EXCEPT ![r] = NoCall]
      BY <1>3, <2>6 DEF Greeted
    <2> HIDE DEF y
    <2>a. /\ z \in RunRecords /\ z.session = run[r].session
          /\ z.queue \in Seq(Jobs(run[r].session)) /\ z.status = "preparing" /\ z.emitted = 1
      BY <2>1, <2>2, <2>5 DEF RunRecords
    <2> HIDE DEF z
    <2>8. /\ x \in RunRecords /\ x.phase = "running" /\ x.session = run[r].session
          /\ x.queue \in Seq(Jobs(run[r].session)) /\ x.status = "preparing" /\ x.emitted = 1
      BY <2>a DEF RunRecords
    <2> HIDE DEF x
    <2>z. UNCHANGED <<files, fresh, recovery, answer, cut>>
      BY <1>3 DEF Greeted, files
    <2>y. active' \in {active, None} /\ NoCall \in Calls /\ io[r] \in Calls
      BY <1>1, <1>3 DEF Greeted, RunFacts
    <2>x. /\ x.session \in Sessions /\ manifest[x.session].status # "none"
          /\ x.queue \in Seq(Jobs(x.session)) /\ x.status \in Reportable
          /\ x.status \in Lifecycle!ActiveStatuses => x.emitted <= MaxEvents + 1
      BY <1>2, <2>1, <2>2, <2>3, <2>8
    <2> QED BY <2>7, <2>8, <2>x, <2>y, <2>z, WorkTyped
  <1>4. ASSUME EmitStatus(r) \/ EmitReasoning(r) \/ EmitExceeded(r)
        PROVE  /\ Live(r) /\ run[r].phase = "running"
               /\ run[r].status \in Reportable
               /\ run[r].session \in Sessions /\ run[r].emitted <= MaxEvents + 1
               /\ manifest[run[r].session].status # "none" /\ io' = [io EXCEPT ![r] = io[r]]
    BY <1>1, <1>4 DEF EmitStatus, EmitReasoning, EmitExceeded, MayReport, Live, RunFacts, RunFits, Typed, TypeOK
  <1>5. CASE EmitStatus(r)
    <2>1. PICK to \in NextStatuses(r) :
            /\ to \in Lifecycle!ActiveStatuses => MayReport(r)
            /\ run' = [run EXCEPT ![r] = ReportedStatus(r, to)]
      BY <1>5 DEF EmitStatus
    <2> DEFINE u == <<UpdateCall(run[r].session, to)>>
               y == Reported(r, StatusEvent(r, run[r].status, to), u)
               x == [y EXCEPT !.status = to]
    <2>2. to \in Reportable
      BY <1>4, <1>5, StatusFacts DEF NextStatuses
    <2>3. StatusEvent(r, run[r].status, to) \in Events
      BY <1>4, <1>5, <2>2, NewEvents, StatusFacts
    <2>4. /\ y \in RunRecords /\ y.queue \in Seq(Jobs(run[r].session)) /\ y.phase = "running"
          /\ y.emitted = run[r].emitted + 1 /\ y.session = run[r].session
      BY <1>2, <1>4, <1>5, <2>2, <2>3, ReportedFits
    <2>5. run' = [run EXCEPT ![r] = x]
      BY <2>1 DEF ReportedStatus
    <2> HIDE DEF y
    <2>6. /\ x \in RunRecords /\ x.phase = "running" /\ x.session = run[r].session
          /\ x.queue \in Seq(Jobs(run[r].session)) /\ x.status = to
          /\ x.emitted = run[r].emitted + 1
      BY <2>2, <2>4, StatusFacts DEF RunRecords
    <2>7. to \in Lifecycle!ActiveStatuses => x.emitted <= MaxEvents + 1
      BY <1>2, <2>1, <2>6 DEF MayReport
    <2>8. active' \in {active, None}
      BY <1>5 DEF EmitStatus
    <2> HIDE DEF x
    <2>z. UNCHANGED <<files, fresh, recovery, answer, cut>>
      BY <1>5 DEF EmitStatus, files
    <2>y. active' \in {active, None} /\ NoCall \in Calls /\ io[r] \in Calls
      BY <1>1, <2>8, <2>z DEF RunFacts
    <2>x. /\ x.session \in Sessions /\ manifest[x.session].status # "none"
          /\ x.queue \in Seq(Jobs(x.session)) /\ x.status \in Reportable
          /\ x.status \in Lifecycle!ActiveStatuses => x.emitted <= MaxEvents + 1
      BY <1>4, <1>5, <2>2, <2>6, <2>7
    <2> QED BY <1>4, <1>5, <2>5, <2>6, <2>x, <2>y, <2>z, WorkTyped
  <1>6. CASE EmitReasoning(r)
    <2> DEFINE b == run[r].blocks + 1
               y == Reported(r, [Event(r, "reasoning") EXCEPT !.block = b], <<>>)
               x == [y EXCEPT !.blocks = b]
    <2>1. [Event(r, "reasoning") EXCEPT !.block = b] \in Events
      BY <1>2, <1>4, <1>6, NewEvents, StatusFacts
    <2>2. /\ y \in RunRecords /\ y.queue \in Seq(Jobs(run[r].session)) /\ y.phase = "running"
          /\ y.emitted = run[r].emitted + 1 /\ y.session = run[r].session /\ y.status = run[r].status
      BY <1>2, <1>4, <1>6, <2>1, ReportedFits
    <2>3. run' = [run EXCEPT ![r] = x]
      BY <1>6 DEF EmitReasoning
    <2> HIDE DEF y
    <2>a. b \in Nat
      BY <1>2
    <2> HIDE DEF b
    <2>4. /\ x \in RunRecords /\ x.phase = "running" /\ x.session = run[r].session
          /\ x.queue \in Seq(Jobs(run[r].session)) /\ x.status = run[r].status
          /\ x.emitted = run[r].emitted + 1
      BY <2>2, <2>a DEF RunRecords
    <2>5. x.emitted <= MaxEvents + 1
      BY <1>2, <1>6, <2>4 DEF EmitReasoning, MayReport
    <2> HIDE DEF x
    <2>z. UNCHANGED <<files, fresh, recovery, answer, cut>>
      BY <1>6 DEF EmitReasoning, files
    <2>y. active' \in {active, None} /\ NoCall \in Calls /\ io[r] \in Calls
      BY <1>1, <1>6 DEF EmitReasoning, RunFacts
    <2>x. /\ x.session \in Sessions /\ manifest[x.session].status # "none"
          /\ x.queue \in Seq(Jobs(x.session)) /\ x.status \in Reportable
          /\ x.status \in Lifecycle!ActiveStatuses => x.emitted <= MaxEvents + 1
      BY <1>4, <1>6, <2>4, <2>5
    <2> QED BY <1>4, <1>6, <2>3, <2>4, <2>x, <2>y, <2>z, WorkTyped
  <1>7. CASE EmitExceeded(r)
    <2> DEFINE y == Reported(r, Event(r, "exceeded"), <<>>)
               x == [y EXCEPT !.exceeded = TRUE]
    <2>1. Event(r, "exceeded") \in Events
      BY <1>4, <1>7, NewEvents, StatusFacts
    <2>2. /\ y \in RunRecords /\ y.queue \in Seq(Jobs(run[r].session)) /\ y.phase = "running"
          /\ y.emitted = run[r].emitted + 1 /\ y.session = run[r].session /\ y.status = run[r].status
      BY <1>2, <1>4, <1>7, <2>1, ReportedFits
    <2>3. run' = [run EXCEPT ![r] = x]
      BY <1>7 DEF EmitExceeded
    <2> HIDE DEF y
    <2>4. /\ x \in RunRecords /\ x.phase = "running" /\ x.session = run[r].session
          /\ x.queue \in Seq(Jobs(run[r].session)) /\ x.status = run[r].status
          /\ x.emitted = run[r].emitted + 1
      BY <1>2, <2>2 DEF RunRecords
    <2>5. x.emitted <= MaxEvents + 1
      BY <1>2, <1>7, <2>4 DEF EmitExceeded, MayReport
    <2> HIDE DEF x
    <2>z. UNCHANGED <<files, fresh, recovery, answer, cut>>
      BY <1>7 DEF EmitExceeded, files
    <2>y. active' \in {active, None} /\ NoCall \in Calls /\ io[r] \in Calls
      BY <1>1, <1>7 DEF EmitExceeded, RunFacts
    <2>x. /\ x.session \in Sessions /\ manifest[x.session].status # "none"
          /\ x.queue \in Seq(Jobs(x.session)) /\ x.status \in Reportable
          /\ x.status \in Lifecycle!ActiveStatuses => x.emitted <= MaxEvents + 1
      BY <1>4, <1>7, <2>4, <2>5
    <2> QED BY <1>4, <1>7, <2>3, <2>4, <2>x, <2>y, <2>z, WorkTyped
  <1> QED BY <1>3, <1>5, <1>6, <1>7

LEMMA ChainTyped ==
    ASSUME Typed, NEW r \in Runs, Persist(r) \/ PersistFails(r)
    PROVE  Typed'
  <1>1. RunFacts(r)
    BY RunFactsHold
  <1>2. /\ run[r].phase = "running" /\ run[r] \in RunRecords /\ run[r].session \in Sessions
        /\ run[r].queue \in Seq(Jobs(run[r].session))
        /\ run[r].status \in Reportable
        /\ manifest[run[r].session].status # "none"
        /\ run[r].status \in Lifecycle!ActiveStatuses => run[r].emitted <= MaxEvents + 1
        /\ Jobs(run[r].session) \subseteq Calls
    BY <1>1 DEF Persist, PersistFails, Answers, RunFacts, RunFits, Jobs
  <1>3. CASE Persist(r)
    <2> DEFINE q == run[r].queue
               c == Head(q)
               x == [run[r] EXCEPT !.queue = Tail(q)]
    <2>1. q # <<>> /\ q \in Seq(Jobs(run[r].session))
      BY <1>2, <1>3 DEF Persist
    <2>2. c \in Jobs(run[r].session) /\ Tail(q) \in Seq(Jobs(run[r].session))
      BY <2>1, HeadTailProperties
    <2>3. Tail(q) \in Seq(Calls)
      BY <1>2, <2>2, SeqMonotonic
    <2>4. run' = [run EXCEPT ![r] = x] /\ io' = [io EXCEPT ![r] = c]
      BY <1>3 DEF Persist
    <2> HIDE DEF c
    <2>5. /\ x \in RunRecords /\ x.phase = "running" /\ x.session = run[r].session
          /\ x.queue = Tail(q) /\ x.status = run[r].status /\ x.emitted = run[r].emitted
      BY <1>2, <2>3 DEF RunRecords
    <2> HIDE DEF x, q
    <2>6. /\ c \in Calls /\ c.op \in {"append", "update"} /\ c.at = "manifest"
          /\ c.session = run[r].session
          /\ c.op = "append" => c.event \in Events
          /\ c.op = "update" => c.status \in Lifecycle!Statuses /\ c.status \in Reportable
      BY <2>2, StatusFacts DEF Jobs
    <2>7. CallFits(c, manifest)
      BY <1>2, <2>6 DEF CallFits, StepsOf, Steps
    <2>8. RunFits(x, c, manifest)
      BY <1>2, <2>2, <2>5, <2>6, StatusFacts DEF RunFits, OpsOf
    <2> QED BY <1>1, <1>3, <2>4, <2>5, <2>6, <2>7, <2>8, RunFrame DEF Persist, RunFacts, files
  <1>4. CASE PersistFails(r)
    <2> DEFINE x == [run[r] EXCEPT !.queue = <<>>, !.rejected = TRUE]
    <2>1. run' = [run EXCEPT ![r] = x] /\ io' = [io EXCEPT ![r] = NoCall]
      BY <1>1, <1>4 DEF PersistFails, RunFacts, Typed, TypeOK
    <2>2. <<>> \in Seq(Calls) /\ <<>> \in Seq(Jobs(run[r].session))
      OBVIOUS
    <2>3. /\ x \in RunRecords /\ x.phase = "running" /\ x.session = run[r].session
          /\ x.queue = <<>> /\ x.status = run[r].status /\ x.emitted = run[r].emitted
      BY <1>2, <2>2 DEF RunRecords
    <2> HIDE DEF x
    <2>x. /\ x.session \in Sessions /\ manifest[x.session].status # "none"
          /\ x.queue \in Seq(Jobs(x.session)) /\ x.status \in Reportable
          /\ x.status \in Lifecycle!ActiveStatuses => x.emitted <= MaxEvents + 1
      BY <1>2, <2>2, <2>3
    <2>y. active' \in {active, None} /\ NoCall \in Calls
      BY <1>1, <1>4 DEF PersistFails, RunFacts
    <2>z. UNCHANGED <<files, fresh, recovery, answer, cut>>
      BY <1>4 DEF PersistFails, files
    <2> QED BY <2>1, <2>3, <2>x, <2>y, <2>z, WorkTyped
  <1> QED BY <1>3, <1>4

LEMMA CancelTyped ==
    ASSUME Typed, NEW r \in Runs, Cancel(r)
    PROVE  Typed'
  <1> DEFINE x == [run[r] EXCEPT !.aborted = TRUE]
  <1>1. RunFacts(r)
    BY RunFactsHold
  <1>2. run' = [run EXCEPT ![r] = x] /\ io' = [io EXCEPT ![r] = io[r]]
    BY DEF Cancel, Typed, TypeOK
  <1>3. run[r].phase # "idle"
    BY StoreAssumption DEF Cancel, Typed, ShownFits
  <1>4. /\ x \in RunRecords /\ x.phase = run[r].phase /\ x.session = run[r].session
        /\ x.queue = run[r].queue /\ x.emitted = run[r].emitted /\ x.rejected = run[r].rejected
        /\ x.status = run[r].status
    BY <1>1 DEF RunFacts, RunRecords
  <1> HIDE DEF x
  <1>5. RunFits(x, io[r], manifest)
    BY <1>1, <1>3, <1>4 DEF RunFits, RunFacts
  <1> QED BY <1>1, <1>2, <1>3, <1>4, <1>5, RunFrame DEF Cancel, RunFacts, files

LEMMA OutcomeFacts ==
    /\ \A e \in {"corrupt", "readonly", "unavailable", "cancelled", "none", "unpersisted"} : e \in Outcomes
    /\ Lifecycle!TerminalStatuses \subseteq Outcomes
  BY DEF Outcomes, Lifecycle!TerminalStatuses

LEMMA BeginTyped ==
    ASSUME Typed, NEW r \in Runs,
           Created(r) \/ Opened(r) \/ OpenRefused(r) \/ BeginCancelled(r) \/ BeginFails(r) \/ Settle(r)
    PROVE  Typed'
  <1>1. RunFacts(r)
    BY RunFactsHold
  <1>2. CASE Created(r)
    <2>1. run[r].phase = "creating" /\ io[r].op = "create" /\ io[r].at = "done"
      BY <1>1, <1>2 DEF Created, Answers, RunFacts, RunFits, OpsOf
    <2>2. manifest[run[r].session].status # "none"
      BY <1>1, <2>1 DEF RunFacts, RunFits, CallFits
    <2>3. "idle" \in Lifecycle!Statuses
      BY DEF Lifecycle!Statuses, Lifecycle!ResetStatuses
    <2> QED BY <1>2, <2>1, <2>2, <2>3, GreetTyped DEF Created
  <1>3. CASE Opened(r)
    <2>1. run[r].phase = "opening" /\ io[r].op = "get" /\ io[r].at = "done"
      BY <1>1, <1>3 DEF Opened, Answers, RunFacts, RunFits, OpsOf
    <2>2. manifest[run[r].session].status # "none" /\ io[r].manifest.status # "none"
      BY <1>1, <2>1 DEF RunFacts, RunFits, CallFits
    <2>3. io[r].manifest.status \in Lifecycle!Statuses /\ Len(io[r].base) + 1 \in Nat
      BY <1>1, <2>2 DEF RunFacts, Calls, Manifests
    <2> QED BY <1>3, <2>1, <2>2, <2>3, GreetTyped DEF Opened
  <1>4. ASSUME OpenRefused(r) \/ BeginCancelled(r) \/ BeginFails(r) \/ Settle(r)
        PROVE  run[r].phase # "idle" /\ \E o \in Outcomes : End(r, o)
    <2>1. CASE OpenRefused(r)
      BY <2>1, OutcomeFacts DEF OpenRefused, Answers, Refusal
    <2>2. CASE BeginCancelled(r)
      BY <2>2, OutcomeFacts DEF BeginCancelled, Answers
    <2>3. CASE BeginFails(r)
      BY <1>1, <2>3, OutcomeFacts DEF BeginFails, RunFacts, Calls
    <2>4. CASE Settle(r)
      <3>1. /\ run[r].phase = "running"
            /\ run[r].status \in Reportable
            /\ run[r].status \notin Lifecycle!ActiveStatuses
        BY <1>1, <2>4 DEF Settle, Live, RunFacts, RunFits
      <3>2. End(r, IF run[r].rejected THEN "unpersisted" ELSE run[r].status)
        BY <2>4 DEF Settle
      <3>3. run[r].status \in Lifecycle!TerminalStatuses
        BY <3>1 DEF Lifecycle!Statuses, Lifecycle!ResetStatuses, Reportable
      <3> QED BY <3>1, <3>2, <3>3, OutcomeFacts
    <2> QED BY <1>4, <2>1, <2>2, <2>3, <2>4
  <1> QED BY <1>2, <1>3, <1>4, EndTyped

LEMMA RunStepTyped ==
    ASSUME Typed, NEW r \in Runs, RunStep(r)
    PROVE  Typed'
  BY EmitTyped, ChainTyped, BeginTyped DEF RunStep

-----------------------------------------------------------------------------
\* The recovery and the crash keep the types.

LEMMA RecoveryFacts ==
    ASSUME Typed
    PROVE  /\ recovery \in RecoveryRecords /\ io[Recovery] \in Calls /\ Recovery \in Processes
           /\ CallFits(io[Recovery], manifest) /\ RecoveryFits
           /\ NoCall \in Calls /\ NoRecovery \in RecoveryRecords /\ NoAnswer \in AnswerRecords
           /\ answer \in AnswerRecords /\ CallFits(NoCall, manifest)
  <1>1. NoManifest \in Manifests /\ <<>> \in Seq(Events)
    BY DEF NoManifest, Manifests
  <1>2. NoCall \in Calls /\ CallFits(NoCall, manifest)
    BY <1>1 DEF NoCall, Calls, Steps, CallFits, StepsOf
  <1>3. NoRecovery \in RecoveryRecords /\ NoAnswer \in AnswerRecords
    BY <1>1 DEF NoRecovery, RecoveryRecords, NoAnswer, AnswerRecords
  <1> QED BY <1>2, <1>3 DEF Typed, TypeOK, Processes

\* A call of the recovery.
LEMMA RecoveryCall ==
    ASSUME Typed, NEW s \in Sessions, manifest[s].status # "none",
           NEW c, c = Call("get", s) \/ c = UpdateCall(s, "interrupted")
    PROVE  /\ c \in Calls /\ CallFits(c, manifest) /\ c.session = s
           /\ c.op \in {"get", "update"} /\ (c.op = "update" => c.status = "interrupted")
  <1>1. NoCall \in Calls
    BY RecoveryFacts
  <1>2. "interrupted" \in Lifecycle!Statuses
    BY DEF Lifecycle!Statuses, Lifecycle!ResetStatuses
  <1>3. CASE c = Call("get", s)
    <2>1. c \in Calls /\ c.op = "get" /\ c.session = s /\ c.at = "manifest"
      BY <1>1, <1>3 DEF Call, NoCall, Calls, Steps
    <2>2. c.at \in StepsOf(c.op)
      BY <2>1 DEF StepsOf
    <2>3. CallFits(c, manifest)
      BY <2>1, <2>2 DEF CallFits
    <2> QED BY <2>1, <2>3
  <1>4. CASE c = UpdateCall(s, "interrupted")
    <2>1. /\ c.op = "update" /\ c.session = s /\ c.at = "manifest" /\ c.status = "interrupted"
      BY <1>4 DEF UpdateCall, Call, NoCall
    <2>2. c \in Calls
      BY <1>1, <1>2, <1>4 DEF UpdateCall, Call, NoCall, Calls, Steps
    <2> QED BY <1>2, <2>1, <2>2 DEF CallFits, StepsOf
  <1> QED BY <1>3, <1>4

LEMMA ConcludeTyped ==
    ASSUME Typed, NEW result \in {"none", "ok", "corrupt", "readonly", "unavailable"}, Conclude(result)
    PROVE  Typed'
  <1>1. io' = [io EXCEPT ![Recovery] = NoCall] /\ recovery' = NoRecovery
    BY DEF Conclude
  <1>2. io'[Recovery] = NoCall
    BY <1>1, RecoveryFacts DEF Typed, TypeOK
  <1>3. RecoveryFits'
    BY <1>1, <1>2 DEF RecoveryFits, NoRecovery, NoCall
  <1>4. answer' \in AnswerRecords
    BY RecoveryFacts DEF Conclude, AnswerRecords, RecoveryRecords, Calls
  <1> QED BY <1>1, <1>3, <1>4, RecoveryFacts, RecoveryFrame DEF Conclude, files

LEMMA RecoveryTyped ==
    ASSUME Typed, StartList \/ StartRestore \/ RecoveryStep
    PROVE  Typed'
  <1>0. /\ recovery \in RecoveryRecords /\ io[Recovery] \in Calls /\ Recovery \in Processes
        /\ CallFits(io[Recovery], manifest) /\ RecoveryFits /\ NoCall \in Calls
        /\ io \in [Processes -> Calls] /\ manifest \in [Sessions -> Manifests]
    BY RecoveryFacts DEF Typed, TypeOK
  <1>1. CASE StartList
    <2> DEFINE todo == {s \in Sessions : manifest[s].status \in Recoverable}
    <2>1. recovery' = [NoRecovery EXCEPT !.kind = "list", !.todo = todo] /\ io' = [io EXCEPT ![Recovery] = io[Recovery]]
      BY <1>0, <1>1 DEF StartList, Recover
    <2>2. recovery.kind = "none" /\ io'[Recovery] = NoCall
      BY <1>0, <1>1 DEF StartList, CanRecover, RecoveryFits
    <2>3. /\ recovery' \in RecoveryRecords /\ recovery'.kind = "list" /\ recovery'.todo = todo
      BY <2>1, RecoveryFacts DEF NoRecovery, RecoveryRecords
    <2>4. \A s \in todo : manifest[s].status # "none"
      BY StatusFacts
    <2>5. UNCHANGED <<manifest, log, staged, fresh, run, active, cut>> /\ answer' = NoAnswer
      BY <1>1 DEF StartList, Recover, files
    <2>6. RecoveryFits'
      BY <2>2, <2>3, <2>4, <2>5 DEF RecoveryFits, NoCall
    <2> QED BY <1>0, <2>1, <2>3, <2>5, <2>6, RecoveryFacts, RecoveryFrame
  <1>2. CASE StartRestore
    <2>1. PICK s \in Sessions : Shown(s) /\ io' = [io EXCEPT ![Recovery] = Call("get", s)]
      BY <1>2 DEF StartRestore
    <2>2. manifest[s].status # "none"
      BY <2>1 DEF Shown, Typed, NoneIsNew
    <2> DEFINE c == Call("get", s)
    <2>3. c \in Calls /\ CallFits(c, manifest) /\ c.op = "get"
      BY <2>2, RecoveryCall DEF Call, NoCall
    <2>4. recovery' = [NoRecovery EXCEPT !.kind = "restore", !.todo = {}]
      BY <1>2 DEF StartRestore, Recover
    <2>5. /\ recovery' \in RecoveryRecords /\ recovery'.kind = "restore" /\ recovery'.todo = {}
      BY <2>4, RecoveryFacts DEF NoRecovery, RecoveryRecords
    <2>6. UNCHANGED <<manifest, log, staged, fresh, run, active, cut>> /\ answer' = NoAnswer
      BY <1>2 DEF StartRestore, Recover, files
    <2> HIDE DEF c
    <2>7. io' = [io EXCEPT ![Recovery] = c] /\ io'[Recovery] = c
      BY <1>0, <2>1 DEF c
    <2>8. RecoveryFits'
      BY <2>3, <2>5, <2>6, <2>7 DEF RecoveryFits
    <2> QED BY <2>3, <2>5, <2>6, <2>7, <2>8, RecoveryFacts, RecoveryFrame
  <1>3. CASE ListNext
    <2>1. PICK s \in recovery.todo :
            /\ recovery' = [recovery EXCEPT !.todo = @ \ {s}]
            /\ io' = [io EXCEPT ![Recovery] = UpdateCall(s, "interrupted")]
      BY <1>3 DEF ListNext
    <2> DEFINE c == UpdateCall(s, "interrupted")
    <2>2. s \in Sessions /\ manifest[s].status # "none"
      BY <1>0, <2>1 DEF RecoveryFits, RecoveryRecords
    <2>3. c \in Calls /\ CallFits(c, manifest) /\ c.op = "update" /\ c.status = "interrupted"
      BY <2>2, RecoveryCall DEF UpdateCall, Call, NoCall
    <2>4. /\ recovery' \in RecoveryRecords /\ recovery'.kind = "list" /\ recovery'.todo \subseteq recovery.todo
      BY <1>0, <1>3, <2>1 DEF ListNext, RecoveryRecords
    <2>5. UNCHANGED <<manifest, log, staged, fresh, run, active, answer, cut>>
      BY <1>3 DEF ListNext, files
    <2> HIDE DEF c
    <2>6. io' = [io EXCEPT ![Recovery] = c] /\ io'[Recovery] = c
      BY <1>0, <2>1 DEF c
    <2>7. RecoveryFits'
      BY <1>0, <2>3, <2>4, <2>5, <2>6 DEF RecoveryFits
    <2> QED BY <2>3, <2>4, <2>5, <2>6, <2>7, RecoveryFacts, RecoveryFrame
  <1>4. CASE ListDone
    BY <1>4, ConcludeTyped DEF ListDone
  <1>5. CASE Restored
    <2> DEFINE d == io[Recovery]
    <2>1. recovery.kind = "restore" /\ d.at = "done" /\ d.op = "get"
      BY <1>5 DEF Restored
    <2>2. d.session \in Sessions /\ manifest[d.session].status # "none"
      BY <1>0, <2>1 DEF CallFits
    <2>3. CASE /\ recovery' = [recovery EXCEPT !.record = d.manifest, !.base = d.base]
               /\ io' = [io EXCEPT ![Recovery] = UpdateCall(d.session, "interrupted")]
               /\ UNCHANGED <<files, fresh, run, active, answer, cut>>
      <3> DEFINE c == UpdateCall(d.session, "interrupted")
      <3>1. c \in Calls /\ CallFits(c, manifest) /\ c.op = "update" /\ c.status = "interrupted"
        BY <2>2, RecoveryCall DEF UpdateCall, Call, NoCall
      <3>2. d.manifest \in Manifests /\ d.base \in Seq(Events)
        BY <1>0 DEF Calls
      <3>3. /\ recovery' \in RecoveryRecords /\ recovery'.kind = "restore" /\ recovery'.todo = recovery.todo
        BY <1>0, <2>1, <2>3, <3>2 DEF RecoveryRecords
      <3>4. UNCHANGED <<manifest, log, staged, fresh, run, active, answer, cut>>
        BY <2>3 DEF files
      <3> HIDE DEF c
      <3>5. io' = [io EXCEPT ![Recovery] = c] /\ io'[Recovery] = c
        BY <1>0, <2>3 DEF c
      <3>6. RecoveryFits'
        BY <1>0, <3>1, <3>3, <3>4, <3>5 DEF RecoveryFits
      <3> QED BY <3>1, <3>3, <3>4, <3>5, <3>6, RecoveryFacts, RecoveryFrame
    <2>4. CASE Conclude(Projection(d.base, d.manifest.status))
      BY <2>4, ConcludeTyped DEF Projection
    <2> QED BY <1>5, <2>3, <2>4 DEF Restored
  <1>6. CASE RestoreMarked
    BY <1>6, ConcludeTyped DEF RestoreMarked, Projection
  <1>7. CASE RecoveryFails
    <2>1. io[Recovery].error \in {"none", "corrupt", "readonly", "unavailable"}
      BY <1>0 DEF Calls
    <2> QED BY <1>7, <2>1, ConcludeTyped DEF RecoveryFails
  <1> QED BY <1>1, <1>2, <1>3, <1>4, <1>5, <1>6, <1>7 DEF RecoveryStep

LEMMA CrashTyped ==
    ASSUME Typed, Crash
    PROVE  Typed'
  <1>0. /\ run \in [Runs -> RunRecords] /\ cut \in [event : SUBSET Sessions, begin : SUBSET Sessions]
        /\ \A r \in Runs : RunFacts(r)
    BY RunFactsHold DEF Typed, TypeOK
  <1>1. /\ UNCHANGED <<manifest, log, staged>> /\ io' = [p \in Processes |-> NoCall]
        /\ active' = None /\ recovery' = NoRecovery /\ fresh' = {} /\ answer' = NoAnswer
    BY DEF Crash, files
  <1>2. ASSUME NEW r \in Runs
        PROVE  run'[r] \in RunRecords /\ RunFits(run'[r], NoCall, manifest)
    <2>1. CASE r \in Settling
      <3> DEFINE x == [run[r] EXCEPT !.phase = "ended", !.outcome = "crashed", !.queue = <<>>]
      <3>1. run'[r] = x
        BY <2>1 DEF Crash
      <3>2. run[r] \in RunRecords /\ <<>> \in Seq(Calls) /\ "crashed" \in Outcomes
        BY <1>0 DEF Outcomes
      <3>3. x \in RunRecords /\ x.phase = "ended" /\ x.session = run[r].session /\ x.queue = <<>>
        BY <3>2 DEF RunRecords
      <3>4. x.session \in Sessions
        BY <1>0, <2>1, <3>3 DEF RunFacts, RunFits, Settling
      <3> HIDE DEF x
      <3> QED BY <3>1, <3>3, <3>4 DEF RunFits, NoCall, OpsOf
    <2>2. CASE r \notin Settling
      <3>1. run'[r] = run[r] /\ run[r].phase \in {"idle", "ended"}
        BY <2>2 DEF Crash, Settling
      <3>2. RunFits(run[r], io[r], manifest) /\ run[r] \in RunRecords
        BY <1>0 DEF RunFacts
      <3> QED BY <3>1, <3>2 DEF RunFits, NoCall, OpsOf
    <2> QED BY <2>1, <2>2
  <1>3. run' \in [Runs -> RunRecords]
    BY <1>2 DEF Crash
  <1>4. cut' \in [event : SUBSET Sessions, begin : SUBSET Sessions]
    <2>1. ASSUME NEW p \in Processes, HalfAppended(p)
          PROVE  io[p].session \in Sessions
      BY <2>1, CallingFacts DEF HalfAppended
    <2>2. ASSUME NEW r \in Runs, HalfBegun(r)
          PROVE  io[r].session \in Sessions
      BY <1>0, <2>2 DEF HalfBegun, RunFacts, CallFits
    <2>3. {io[p].session : p \in {q \in Processes : HalfAppended(q)}} \subseteq Sessions
      BY <2>1
    <2>4. {io[r].session : r \in {q \in Runs : HalfBegun(q)}} \subseteq Sessions
      BY <2>2
    <2> QED BY <1>0, <2>3, <2>4 DEF Crash
  <1>5. io' \in [Processes -> Calls] /\ \A p \in Processes : io'[p] = NoCall
    BY <1>1, RecoveryFacts
  <1>6. TypeOK'
    BY <1>1, <1>3, <1>4, <1>5, RecoveryFacts DEF Typed, TypeOK
  <1>7. RecoveryFits'
    BY <1>1, <1>5, RecoveryFacts DEF RecoveryFits, NoRecovery, NoCall
  <1>8. StagedFits' /\ NoneIsNew' /\ ShownFits'
    BY <1>1 DEF Typed, StagedFits, NoneIsNew, ShownFits
  <1>9. \A r \in Runs : RunFits(run'[r], io'[r], manifest')
    BY <1>1, <1>2, <1>5 DEF Processes
  <1>10. \A p \in Processes : CallFits(io'[p], manifest')
    BY <1>1, <1>5, RecoveryFacts
  <1> QED BY <1>6, <1>7, <1>8, <1>9, <1>10 DEF Typed

LEMMA InitTyped == Init => Typed
  <1> SUFFICES ASSUME Init PROVE Typed
    OBVIOUS
  <1>1. NoManifest \in Manifests /\ <<>> \in Seq(Events) /\ <<>> \in Seq(Calls)
    BY DEF NoManifest, Manifests
  <1>2. NoCall \in Calls
    BY <1>1 DEF NoCall, Calls, Steps
  <1>3. NoRecovery \in RecoveryRecords /\ NoAnswer \in AnswerRecords
    BY <1>1 DEF NoRecovery, RecoveryRecords, NoAnswer, AnswerRecords
  <1>4. NoRun \in RunRecords
    BY <1>1, StoreAssumption DEF NoRun, RunRecords, Outcomes
  <1>5. [manifest |-> None, log |-> None] \in StagedFiles
    BY DEF StagedFiles
  <1>6. TypeOK
    BY <1>1, <1>2, <1>3, <1>4, <1>5 DEF Init, TypeOK
  <1>7. RecoveryFits /\ StagedFits /\ NoneIsNew /\ ShownFits
    BY DEF Init, RecoveryFits, StagedFits, NoneIsNew, ShownFits, NoRecovery, NoCall, Processes
  <1>8. \A p \in Processes : CallFits(io[p], manifest)
    BY DEF Init, CallFits, NoCall, StepsOf
  <1>9. \A r \in Runs : RunFits(run[r], io[r], manifest)
    BY DEF Init, RunFits, NoCall, NoRun, OpsOf, Processes
  <1> QED BY <1>6, <1>7, <1>8, <1>9 DEF Typed

LEMMA NextTyped == Typed /\ [Next]_vars => Typed'
  <1> SUFFICES ASSUME Typed, [Next]_vars PROVE Typed'
    OBVIOUS
  <1>1. CASE UNCHANGED vars
    BY <1>1 DEF vars, files, Typed, TypeOK, CallFits, RunFits, RecoveryFits, StagedFits,
                NoneIsNew, ShownFits
  <1>2. CASE Next
    BY <1>2, AccessTyped, StartTyped, RunStepTyped, CancelTyped, RecoveryTyped, CrashTyped DEF Next
  <1> QED BY <1>1, <1>2

\* Every variable keeps its type, whatever the user and the faults do
\* (session-repository.ts, chat-runner.ts); what a call carries fits the access it
\* is at, and a Run has the call of its phase.
THEOREM TypesHold == Spec => []Typed
  BY InitTyped, NextTyped, PTL DEF Spec

\* Every variable keeps its type.
THEOREM TypeCorrect == Spec => []TypeOK
  <1>1. Typed => TypeOK
    BY DEF Typed
  <1> QED BY <1>1, TypesHold, PTL

-----------------------------------------------------------------------------
\* One writer at a time.

\* No Run is started, and no Session restored, while a Run still settles. Neither
\* canStart nor restore sees to it: it is what is assumed of the user.
SettledFirst ==
    Settling # {} =>
        /\ \A r \in Runs : run[r].phase = "idle" => run'[r].phase = "idle"
        /\ recovery.kind = "none" => recovery'.kind # "restore"
StartsOneByOne == [][SettledFirst]_vars

\* One Run settles at a time, and none while the recovery is at work.
OneWriter ==
    /\ \A q, r \in Settling : q = r
    /\ recovery.kind # "none" => Settling = {}

Half(c) == c.op = "append" /\ c.at \in {"stageManifest", "moveManifest"}

\* What a call has read is still so: m is the manifest of its Session, l the log,
\* f the temporary files, hit whether a fault has left the log one event ahead.
Current(c, m, l, f, hit) ==
    /\ c.op = "create" /\ c.at \in {"manifest", "stageManifest", "moveManifest"} => m = NoManifest
    /\ c.op = "create" /\ c.at = "done" => m = [status |-> "idle", last |-> 0] /\ ~hit
    /\ c.op # "create" /\ c.at \in Steps \ {"idle", "manifest", "done", "failed"} => c.manifest = m
    /\ c.at \in {"sequence", "base", "stageLog", "moveLog"} => m.last = Len(l)
    /\ c.at \in {"base", "stageLog", "moveLog"} => c.seq = Len(l) + 1
    /\ c.at \in {"stageLog", "moveLog"} => c.base = l
    /\ c.at = "moveLog" => f.log = Append(l, c.event)
    /\ Half(c) => c.seq = Len(l) /\ ~hit
    /\ c.at = "moveManifest" => f.manifest = NewManifest(c)
    /\ c.op = "get" /\ c.at = "done" => c.manifest = m /\ c.base = l /\ m.last = Len(l)

\* What the files of a Session are to each other: ahead is whether the log has an
\* event that the manifest does not name.
Agree(m, l, hit, ahead) ==
    /\ Len(l) = m.last + (IF hit \/ ahead THEN 1 ELSE 0)
    /\ m.status = "none" => l = <<>> /\ ~hit

AheadAt(s) == \E p \in Processes : io[p].session = s /\ HalfAppended(p)

CallsCurrent ==
    \A p \in Processes :
        LET s == io[p].session
        IN  io[p].op # "none" => Current(io[p], manifest[s], log[s], staged[s], s \in cut.event)

FilesAgree == \A s \in Sessions : Agree(manifest[s], log[s], s \in cut.event, AheadAt(s))

Writer == Typed /\ OneWriter /\ CallsCurrent /\ FilesAgree

\* Who has a call is alone with it.
LEMMA SoleCaller ==
    ASSUME Typed, OneWriter, NEW p \in Processes, NEW q \in Processes,
           io[p].op # "none", io[q].op # "none"
    PROVE  p = q
  <1>1. ASSUME NEW r \in Runs, io[r].op # "none"
        PROVE  r \in Settling
    <2>1. RunFits(run[r], io[r], manifest) /\ run[r] \in RunRecords
      BY RunFactsHold DEF RunFacts
    <2> QED BY <1>1, <2>1 DEF RunFits, OpsOf, Settling
  <1>2. io[Recovery].op # "none" => Settling = {}
    BY RecoveryFacts DEF RecoveryFits, NoCall, OneWriter
  <1> QED BY <1>1, <1>2 DEF OneWriter, Processes

\* A call that is not there has read nothing.
LEMMA IdleCalls ==
    ASSUME Typed, NEW p \in Processes
    PROVE  io[p].op = "none" => io[p].at = "idle" /\ ~HalfAppended(p) /\ io[p] = NoCall
  BY DEF Typed, CallFits, HalfAppended, NoCall

\* An access concerns the Session of its call only.
LEMMA OwnSession ==
    ASSUME Writer, Typed', NEW p \in Processes, NEW c, NEW s \in Sessions,
           io[p].op # "none", io' = [io EXCEPT ![p] = c], c.session = s,
           \A t \in Sessions \ {s} : /\ manifest'[t] = manifest[t] /\ log'[t] = log[t]
                                     /\ t \in cut'.event <=> t \in cut.event,
           io[p].session = s,
           Current(c, manifest'[s], log'[s], staged'[s], s \in cut'.event),
           Agree(manifest'[s], log'[s], s \in cut'.event, Half(c)),
           UNCHANGED <<run, recovery>>
    PROVE  Writer'
  <1>1. /\ io'[p] = c /\ \A q \in Processes \ {p} : io'[q] = io[q] /\ io[q].op = "none" /\ ~HalfAppended(q)
    BY SoleCaller, IdleCalls DEF Writer, Typed, TypeOK
  <1>2. OneWriter'
    BY DEF Writer, OneWriter, Settling
  <1>3. CallsCurrent'
    BY <1>1 DEF CallsCurrent
  <1>4. \A q \in Processes : HalfAppended(q)' => q = p
    BY <1>1 DEF HalfAppended
  <1>5. HalfAppended(p)' <=> Half(c)
    BY <1>1 DEF HalfAppended, Half
  <1>6. AheadAt(s)' <=> Half(c)
    BY <1>1, <1>4, <1>5 DEF AheadAt
  <1>7. \A t \in Sessions \ {s} : ~AheadAt(t)' /\ ~AheadAt(t)
    BY <1>1, <1>4 DEF AheadAt
  <1>8. FilesAgree'
    <2>1. ASSUME NEW t \in Sessions
          PROVE  Agree(manifest'[t], log'[t], t \in cut'.event, AheadAt(t)')
      <3>1. CASE t = s
        <4>1. Agree(manifest'[s], log'[s], s \in cut'.event, AheadAt(s)')
          BY <1>6 DEF Agree
        <4> QED BY <3>1, <4>1
      <3>2. CASE t # s
        <4>1. Agree(manifest[t], log[t], t \in cut.event, AheadAt(t))
          BY DEF Writer, FilesAgree
        <4> QED BY <3>2, <4>1, <1>7 DEF Agree
      <3> QED BY <3>1, <3>2
    <2> QED BY <2>1 DEF FilesAgree
  <1> QED BY <1>2, <1>3, <1>8 DEF Writer

\* A step that touches no file, and no call that is between the files of an event.
LEMMA NoFileWriter ==
    ASSUME Writer, Typed', OneWriter', NEW p \in Processes, NEW c, io' = [io EXCEPT ![p] = c],
           UNCHANGED <<manifest, log, staged, cut>>,
           \/ c = io[p]
           \/ c.at \in {"idle", "manifest"} /\ ~HalfAppended(p)
              /\ (c.op = "create" => manifest[c.session] = NoManifest)
    PROVE  Writer'
  <1>1. /\ io'[p] = c /\ \A q \in Processes \ {p} : io'[q] = io[q]
    BY DEF Writer, Typed, TypeOK
  <1>2. HalfAppended(p)' <=> HalfAppended(p)
    BY <1>1 DEF HalfAppended
  <1>3. CallsCurrent'
    <2>1. ASSUME NEW q \in Processes, io'[q].op # "none"
          PROVE  LET s == io'[q].session
                 IN  Current(io'[q], manifest[s], log[s], staged[s], s \in cut.event)
      <3>1. CASE io'[q] = io[q]
        BY <2>1, <3>1 DEF Writer, CallsCurrent
      <3>2. CASE io'[q] # io[q]
        BY <1>1, <2>1, <3>2 DEF Current, Half
      <3> QED BY <3>1, <3>2
    <2> QED BY <2>1 DEF CallsCurrent
  <1>4. \A q \in Processes : HalfAppended(q)' <=> HalfAppended(q)
    BY <1>1, <1>2 DEF HalfAppended
  <1>5. \A q \in Processes : HalfAppended(q) => io'[q] = io[q]
    BY <1>1 DEF HalfAppended
  <1>6. \A s \in Sessions : AheadAt(s)' <=> AheadAt(s)
    BY <1>4, <1>5 DEF AheadAt
  <1>7. FilesAgree'
    BY <1>6 DEF Writer, FilesAgree, Agree
  <1> QED BY <1>3, <1>7 DEF Writer

\* What the one call under way knows of its Session.
CallerKnows(p, c, s) ==
    /\ c = io[p] /\ s = c.session /\ s \in Sessions /\ c \in Calls
    /\ c.op \in {"create", "get", "append", "update"} /\ CallFits(c, manifest)
    /\ manifest[s] \in Manifests /\ log[s] \in Seq(Events) /\ staged[s] \in StagedFiles
    /\ Current(c, manifest[s], log[s], staged[s], s \in cut.event)
    /\ Agree(manifest[s], log[s], s \in cut.event, Half(c))

LEMMA CallerFacts ==
    ASSUME Writer, NEW p \in Processes, io[p].at # "idle"
    PROVE  CallerKnows(p, io[p], io[p].session)
  <1> DEFINE s == io[p].session
  <1>1. /\ io[p] \in Calls /\ io[p].op \in {"create", "get", "append", "update"} /\ s \in Sessions
        /\ CallFits(io[p], manifest) /\ manifest[s] \in Manifests
        /\ log[s] \in Seq(Events) /\ staged[s] \in StagedFiles
    BY CallingFacts DEF Writer
  <1>2. Current(io[p], manifest[s], log[s], staged[s], s \in cut.event)
    BY <1>1 DEF Writer, CallsCurrent
  <1>3. \A q \in Processes : HalfAppended(q) => q = p
    BY <1>1, SoleCaller, IdleCalls DEF Writer
  <1>4. AheadAt(s) <=> Half(io[p])
    BY <1>3 DEF AheadAt, HalfAppended, Half
  <1>5. Agree(manifest[s], log[s], s \in cut.event, AheadAt(s))
    BY <1>1 DEF Writer, FilesAgree
  <1>6. Agree(manifest[s], log[s], s \in cut.event, Half(io[p]))
    BY <1>4, <1>5 DEF Agree
  <1> QED BY <1>1, <1>2, <1>6 DEF CallerKnows

LEMMA AccessWriter ==
    ASSUME Writer, NEW p \in Processes, Access(p)
    PROVE  Writer'
  <1> DEFINE d == io[p]
             s == d.session
             m == manifest[s]
             l == log[s]
             f == staged[s]
             hit == s \in cut.event
  <1>0. /\ Typed' /\ UNCHANGED <<run, active, recovery, answer>>
        /\ manifest \in [Sessions -> Manifests] /\ log \in [Sessions -> Seq(Events)]
        /\ staged \in [Sessions -> StagedFiles] /\ io \in [Processes -> Calls] /\ Typed
    BY AccessTyped DEF Access, Writer, Typed, TypeOK
  <1>a. d.at # "idle"
    BY DEF Access, ReadManifest, ReadEvents, CheckSequence, ReadBase, StageLog, MoveLog,
           StageManifest, MoveManifest, AccessFails, Waits, Pending
  <1>b. CallerKnows(p, d, s)
    BY <1>a, CallerFacts
  <1>c. /\ s \in Sessions /\ d \in Calls /\ d.op \in {"create", "get", "append", "update"}
        /\ CallFits(d, manifest) /\ m \in Manifests /\ l \in Seq(Events) /\ f \in StagedFiles
        /\ Current(d, m, l, f, hit) /\ Agree(m, l, hit, Half(d)) /\ Len(l) \in Nat
        /\ d.at \in StepsOf(d.op) /\ m.last \in Nat /\ d.op # "none"
    BY <1>b DEF CallerKnows, CallFits, Manifests
  <1>1. CASE ReadManifest(p)
    <2>1. d.at = "manifest" /\ UNCHANGED <<manifest, log, staged, cut>>
      BY <1>1 DEF ReadManifest, Waits, files
    <2>2. PICK c \in Calls : /\ io' = [io EXCEPT ![p] = c] /\ c.session = s /\ c.op = d.op
                             /\ c.at = IF d.op = "create" THEN "stageManifest" ELSE "events"
                             /\ d.op # "create" => c.manifest = m
      <3>1. CASE d.op = "create"
        <4> DEFINE c == [d EXCEPT !.at = "stageManifest"]
        <4>1. io' = [io EXCEPT ![p] = c]
          BY <1>1, <3>1 DEF ReadManifest, Proceed
        <4>2. c \in Calls /\ c.session = s /\ c.op = d.op /\ c.at = "stageManifest"
          BY <1>c DEF Calls, Steps
        <4> QED BY <3>1, <4>1, <4>2
      <3>2. CASE d.op # "create"
        <4> DEFINE c == [d EXCEPT !.at = "events", !.manifest = m]
        <4>1. io' = [io EXCEPT ![p] = c]
          BY <1>0, <1>1, <3>2 DEF ReadManifest
        <4>2. c \in Calls /\ c.session = s /\ c.op = d.op /\ c.at = "events" /\ c.manifest = m
          BY <1>c DEF Calls, Steps
        <4> QED BY <3>2, <4>1, <4>2
      <3> QED BY <3>1, <3>2
    <2>3. Current(c, m, l, f, hit)
      BY <1>c, <2>1, <2>2 DEF Current, Half
    <2>4. Agree(m, l, hit, Half(c))
      BY <1>c, <2>1, <2>2 DEF Agree, Half, StepsOf
    <2> QED BY <1>0, <1>c, <2>1, <2>2, <2>3, <2>4, OwnSession
  <1>2. CASE ReadEvents(p)
    <2>1. d.at = "events" /\ UNCHANGED <<manifest, log, staged, cut>> /\ d.op \in {"get", "append", "update"}
      BY <1>2, <1>c DEF ReadEvents, Waits, files, StepsOf
    <2>2. d.manifest = m
      BY <1>c, <2>1 DEF Current, Steps
    <2>3. PICK c \in Calls : /\ io' = [io EXCEPT ![p] = c] /\ c.session = s /\ c.op = d.op
                             /\ c.manifest = m
                             /\ \/ c.at = "failed"
                                \/ m.last = Len(l) /\ c.op = "get" /\ c.at = "done" /\ c.base = l
                                \/ m.last = Len(l) /\ c.op = "append" /\ c.at = "sequence"
                                \/ m.last = Len(l) /\ c.op = "update" /\ c.at = "stageManifest"
      <3>1. ASSUME NEW e \in {"corrupt", "readonly"}, FailWith(p, e)
            PROVE  \E c \in Calls : io' = [io EXCEPT ![p] = c] /\ c.session = s /\ c.op = d.op
                                    /\ c.manifest = m /\ c.at = "failed"
        <4> DEFINE c == [d EXCEPT !.at = "failed", !.error = e]
        <4>1. io' = [io EXCEPT ![p] = c]
          BY <1>0, <3>1 DEF FailWith
        <4>2. c \in Calls /\ c.session = s /\ c.op = d.op /\ c.at = "failed" /\ c.manifest = m
          BY <1>c, <2>2 DEF Calls, Steps
        <4> QED BY <4>1, <4>2
      <3>2. ASSUME m.last = Len(l), d.op = "get", io' = [io EXCEPT ![p].at = "done", ![p].base = l]
            PROVE  \E c \in Calls : io' = [io EXCEPT ![p] = c] /\ c.session = s /\ c.op = d.op
                                    /\ c.manifest = m /\ c.at = "done" /\ c.base = l
        <4> DEFINE c == [d EXCEPT !.at = "done", !.base = l]
        <4>1. io' = [io EXCEPT ![p] = c]
          BY <1>0, <3>2
        <4>2. c \in Calls /\ c.session = s /\ c.op = d.op /\ c.at = "done" /\ c.manifest = m /\ c.base = l
          BY <1>c, <2>2 DEF Calls, Steps
        <4> QED BY <4>1, <4>2
      <3>3. ASSUME NEW at \in {"sequence", "stageManifest"}, Proceed(p, at)
            PROVE  \E c \in Calls : io' = [io EXCEPT ![p] = c] /\ c.session = s /\ c.op = d.op
                                    /\ c.manifest = m /\ c.at = at
        <4> DEFINE c == [d EXCEPT !.at = at]
        <4>1. io' = [io EXCEPT ![p] = c]
          BY <3>3 DEF Proceed
        <4>2. c \in Calls /\ c.session = s /\ c.op = d.op /\ c.at = at /\ c.manifest = m
          BY <1>c, <2>2 DEF Calls, Steps
        <4> QED BY <4>1, <4>2
      <3>4. \/ \E e \in {"corrupt", "readonly"} : FailWith(p, e)
            \/ m.last = Len(l) /\ d.op = "get" /\ io' = [io EXCEPT ![p].at = "done", ![p].base = l]
            \/ m.last = Len(l) /\ d.op = "append" /\ Proceed(p, "sequence")
            \/ m.last = Len(l) /\ d.op = "update" /\ Proceed(p, "stageManifest")
        BY <1>2, <2>1, <2>2 DEF ReadEvents
      <3> QED BY <3>1, <3>2, <3>3, <3>4
    <2>4. Current(c, m, l, f, hit)
      BY <1>c, <2>1, <2>3 DEF Current, Half
    <2>5. Agree(m, l, hit, Half(c))
      BY <1>c, <2>1, <2>3 DEF Agree, Half
    <2> QED BY <1>0, <1>c, <2>1, <2>3, <2>4, <2>5, OwnSession
  <1>3. CASE CheckSequence(p)
    <2>1. d.at = "sequence" /\ UNCHANGED <<manifest, log, staged, cut>> /\ d.op = "append"
      BY <1>3, <1>c DEF CheckSequence, Waits, files, StepsOf
    <2>2. PICK c \in Calls : /\ io' = [io EXCEPT ![p] = c] /\ c.session = s /\ c.op = d.op
                             /\ c.manifest = d.manifest /\ c.seq = d.seq
                             /\ c.at = "failed" \/ (c.at = "base" /\ d.seq = Len(l) + 1)
      <3>1. CASE d.seq = Len(l) + 1
        <4> DEFINE c == [d EXCEPT !.at = "base"]
        <4>1. io' = [io EXCEPT ![p] = c]
          BY <1>3, <3>1 DEF CheckSequence, Proceed
        <4>2. c \in Calls /\ c.session = s /\ c.op = d.op /\ c.at = "base" /\ c.manifest = d.manifest /\ c.seq = d.seq
          BY <1>c DEF Calls, Steps
        <4> QED BY <3>1, <4>1, <4>2
      <3>2. CASE d.seq # Len(l) + 1
        <4> DEFINE c == [d EXCEPT !.at = "failed", !.error = "unavailable"]
        <4>1. io' = [io EXCEPT ![p] = c]
          BY <1>0, <1>3, <3>2 DEF CheckSequence, FailWith
        <4>2. c \in Calls /\ c.session = s /\ c.op = d.op /\ c.at = "failed" /\ c.manifest = d.manifest /\ c.seq = d.seq
          BY <1>c DEF Calls, Steps
        <4> QED BY <4>1, <4>2
      <3> QED BY <3>1, <3>2
    <2>3. Current(c, m, l, f, hit)
      BY <1>c, <2>1, <2>2 DEF Current, Half, Steps
    <2>4. Agree(m, l, hit, Half(c))
      BY <1>c, <2>1, <2>2 DEF Agree, Half
    <2> QED BY <1>0, <1>c, <2>1, <2>2, <2>3, <2>4, OwnSession
  <1>4. CASE ReadBase(p)
    <2> DEFINE c == [d EXCEPT !.at = "stageLog", !.base = l]
    <2>1. d.at = "base" /\ UNCHANGED <<manifest, log, staged, cut>> /\ d.op = "append"
      BY <1>4, <1>c DEF ReadBase, Waits, files, StepsOf
    <2>2. io' = [io EXCEPT ![p] = c]
      BY <1>0, <1>4 DEF ReadBase
    <2>3. /\ c.session = s /\ c.op = d.op /\ c.at = "stageLog" /\ c.base = l
          /\ c.manifest = d.manifest /\ c.seq = d.seq
      BY <1>c DEF Calls
    <2> HIDE DEF c
    <2>4. Current(c, m, l, f, hit)
      BY <1>c, <2>1, <2>3 DEF Current, Half, Steps
    <2>5. Agree(m, l, hit, Half(c))
      BY <1>c, <2>1, <2>3 DEF Agree, Half
    <2> QED BY <1>0, <1>c, <2>1, <2>2, <2>3, <2>4, <2>5, OwnSession
  <1>5. CASE StageLog(p)
    <2> DEFINE c == [d EXCEPT !.at = "moveLog"]
    <2>1. d.at = "stageLog" /\ UNCHANGED <<manifest, log, cut>> /\ d.op = "append"
      BY <1>5, <1>c DEF StageLog, Waits, StepsOf
    <2>2. io' = [io EXCEPT ![p] = c]
      BY <1>5 DEF StageLog, Proceed
    <2>3. /\ c.session = s /\ c.op = d.op /\ c.at = "moveLog" /\ c.base = d.base
          /\ c.manifest = d.manifest /\ c.seq = d.seq /\ c.event = d.event
      BY <1>c DEF Calls
    <2>4. staged'[s].log = Append(d.base, d.event)
      BY <1>0, <1>5, <1>c DEF StageLog, StagedFiles
    <2> HIDE DEF c
    <2>5. Current(c, m, l, staged'[s], hit)
      BY <1>c, <2>1, <2>3, <2>4 DEF Current, Half, Steps
    <2>6. Agree(m, l, hit, Half(c))
      BY <1>c, <2>1, <2>3 DEF Agree, Half
    <2> QED BY <1>0, <1>c, <2>1, <2>2, <2>3, <2>5, <2>6, OwnSession
  <1>6. CASE MoveLog(p)
    <2>1. d.at = "moveLog" /\ UNCHANGED <<manifest, cut>> /\ d.op = "append"
      BY <1>6, <1>c DEF MoveLog, Waits, StepsOf
    <2>2. /\ f.log = Append(l, d.event) /\ d.event \in Events /\ d.seq = Len(l) + 1
          /\ m.last = Len(l) /\ d.manifest = m /\ m.status # "none"
      BY <1>c, <2>1 DEF Current, CallFits, Steps
    <2> DEFINE c == [d EXCEPT !.at = "stageManifest"]
    <2>3. Append(l, d.event) \in Seq(Events) /\ Len(Append(l, d.event)) = Len(l) + 1
      BY <1>c, <2>2
    <2>5. CASE f.log = None
      <3> DEFINE e == [d EXCEPT !.at = "failed", !.error = "unavailable"]
      <3>1. io' = [io EXCEPT ![p] = e] /\ UNCHANGED <<log, staged>>
        BY <1>0, <1>6, <2>5 DEF MoveLog, FailWith
      <3>2. e.session = s /\ e.op = d.op /\ e.at = "failed"
        BY <1>c DEF Calls
      <3> HIDE DEF e
      <3>3. Current(e, m, l, f, hit)
        BY <2>1, <3>2 DEF Current, Half, Steps
      <3>4. Agree(m, l, hit, Half(e))
        BY <1>c, <2>1, <3>2 DEF Agree, Half
      <3> QED BY <1>0, <1>c, <2>1, <3>1, <3>2, <3>3, <3>4, OwnSession
    <2>6. CASE f.log # None
      <3>1. io' = [io EXCEPT ![p] = c] /\ log' = [log EXCEPT ![s] = f.log]
        BY <1>6, <2>6 DEF MoveLog, Proceed
      <3>2. log'[s] = Append(l, d.event) /\ \A t \in Sessions \ {s} : log'[t] = log[t]
        BY <1>0, <1>c, <2>2, <3>1
      <3>3. /\ c.session = s /\ c.op = d.op /\ c.at = "stageManifest" /\ c.manifest = m /\ c.seq = d.seq
        BY <1>c, <2>2 DEF Calls
      <3>4. m.last \in Nat
        BY <1>c DEF Manifests
      <3>5. ~hit /\ m.last \in Nat
        <4>1. Len(l) = m.last + (IF hit \/ Half(d) THEN 1 ELSE 0)
          BY <1>c DEF Agree
        <4>2. hit => Len(l) = m.last + 1
          BY <4>1
        <4>3. Len(l) = m.last
          BY <2>2
        <4> QED BY <3>4, <4>2, <4>3
      <3> HIDE DEF c
      <3>6. Current(c, m, log'[s], staged'[s], hit)
        BY <2>1, <2>2, <2>3, <3>2, <3>3, <3>5 DEF Current, Half, Steps
      <3>7. Agree(m, log'[s], hit, Half(c))
        BY <2>1, <2>2, <2>3, <3>2, <3>3, <3>5 DEF Agree, Half
      <3> QED BY <1>0, <1>c, <2>1, <3>1, <3>2, <3>3, <3>6, <3>7, OwnSession
    <2> QED BY <2>5, <2>6
  <1>7. CASE StageManifest(p)
    <2> DEFINE c == [d EXCEPT !.at = "moveManifest"]
    <2>1. d.at = "stageManifest" /\ UNCHANGED <<manifest, log, cut>>
      BY <1>7 DEF StageManifest, Waits
    <2>2. io' = [io EXCEPT ![p] = c]
      BY <1>7 DEF StageManifest, Proceed
    <2>3. /\ c.session = s /\ c.op = d.op /\ c.at = "moveManifest" /\ c.status = d.status
          /\ c.manifest = d.manifest /\ c.seq = d.seq
      BY <1>c DEF Calls
    <2>4. staged'[s].manifest = NewManifest(d)
      BY <1>0, <1>7, <1>c DEF StageManifest, StagedFiles
    <2>5. NewManifest(c) = NewManifest(d)
      BY <2>3 DEF NewManifest
    <2> HIDE DEF c
    <2>6. Current(c, m, l, staged'[s], hit)
      BY <1>c, <2>1, <2>3, <2>4, <2>5 DEF Current, Half, Steps
    <2>7. Agree(m, l, hit, Half(c))
      BY <1>c, <2>1, <2>3 DEF Agree, Half
    <2> QED BY <1>0, <1>c, <2>1, <2>2, <2>3, <2>6, <2>7, OwnSession
  <1>8. CASE MoveManifest(p)
    <2>1. d.at = "moveManifest" /\ UNCHANGED <<log, cut>>
      BY <1>8 DEF MoveManifest, Waits
    <2>2. f.manifest = NewManifest(d) /\ d.op \in {"create", "append", "update"}
      BY <1>c, <2>1 DEF Current, StepsOf
    <2>3. CASE f.manifest = None
      <3> DEFINE e == [d EXCEPT !.at = "failed", !.error = "unavailable"]
      <3>1. NewManifest(d) \in Manifests /\ NewManifest(d).status # "none" /\ staged[s].manifest = None
        BY <1>c, <2>1, <2>2, <2>3, NewManifestFits DEF CallFits
      <3> QED BY <2>2, <2>3, <3>1, NoneAssumption
    <2>4. CASE f.manifest # None
      <3> DEFINE c == [d EXCEPT !.at = "done"]
      <3>1. io' = [io EXCEPT ![p] = c] /\ manifest' = [manifest EXCEPT ![s] = f.manifest]
        BY <1>8, <2>4 DEF MoveManifest, Proceed
      <3>2. manifest'[s] = NewManifest(d) /\ \A t \in Sessions \ {s} : manifest'[t] = manifest[t]
        BY <1>0, <1>c, <2>2, <3>1
      <3>3. c.session = s /\ c.op = d.op /\ c.at = "done"
        BY <1>c DEF Calls
      <3>4. NewManifest(d).status # "none"
        BY <1>c, <2>1, <2>2, NewManifestFits DEF CallFits
      <3>5. d.op \in {"append", "update"} => d.manifest = m
        BY <1>c, <2>1 DEF Current, Steps
      <3>6. Len(l) = NewManifest(d).last + (IF hit THEN 1 ELSE 0)
        <4>1. CASE d.op = "create"
          BY <1>c, <2>1, <4>1 DEF Current, Agree, Half, NewManifest, NoManifest
        <4>2. CASE d.op = "append"
          BY <1>c, <2>1, <3>5, <4>2 DEF Current, Half, NewManifest, Manifests
        <4>3. CASE d.op = "update"
          BY <1>c, <2>1, <3>5, <4>3 DEF Agree, Half, NewManifest, Manifests
        <4> QED BY <2>2, <4>1, <4>2, <4>3
      <3> HIDE DEF c
      <3>a. c.op = "create" => manifest'[s] = [status |-> "idle", last |-> 0] /\ ~hit
        BY <1>c, <2>1, <3>2, <3>3 DEF NewManifest, Current, Agree, NoManifest
      <3>7. Current(c, manifest'[s], l, staged'[s], hit)
        BY <2>1, <2>2, <3>3, <3>a DEF Current, Half, Steps
      <3>8. Agree(manifest'[s], l, hit, Half(c))
        BY <3>2, <3>3, <3>4, <3>6 DEF Agree, Half
      <3> QED BY <1>0, <1>c, <2>1, <3>1, <3>2, <3>3, <3>7, <3>8, OwnSession
    <2> QED BY <2>3, <2>4
  <1>9. CASE AccessFails(p)
    <2> DEFINE e == [d EXCEPT !.at = "failed", !.error = "unavailable"]
    <2>1. io' = [io EXCEPT ![p] = e] /\ UNCHANGED <<manifest, log>>
      BY <1>0, <1>9 DEF AccessFails, FailWith
    <2>2. e.session = s /\ e.op = d.op /\ e.at = "failed"
      BY <1>c DEF Calls
    <2>3. cut'.event = IF Half(d) THEN cut.event \union {s} ELSE cut.event
      BY <1>9 DEF AccessFails, HalfAppended, Half, Writer, Typed, TypeOK
    <2> HIDE DEF e
    <2>4. Current(e, m, l, staged'[s], s \in cut'.event)
      BY <2>2 DEF Current, Half, Steps
    <2>5. Agree(m, l, s \in cut'.event, Half(e))
      BY <1>c, <2>2, <2>3 DEF Agree, Half, CallFits
    <2> QED BY <1>0, <1>c, <2>1, <2>2, <2>3, <2>4, <2>5, OwnSession
  <1> QED BY <1>1, <1>2, <1>3, <1>4, <1>5, <1>6, <1>7, <1>8, <1>9 DEF Access

LEMMA NoNewWriter ==
    ASSUME OneWriter, Settling' \subseteq Settling,
           recovery'.kind # "none" => recovery.kind # "none" \/ Settling = {}
    PROVE  OneWriter'
  BY DEF OneWriter

\* What a step of a Run does to its record and its call.
LEMMA RunStepShape ==
    ASSUME Typed, NEW r \in Runs, RunStep(r)
    PROVE  /\ \E x : run' = [run EXCEPT ![r] = x]
           /\ r \in Settling
           /\ UNCHANGED <<manifest, log, staged, fresh, recovery, answer, cut>>
           /\ \/ io' = [io EXCEPT ![r] = io[r]]
              \/ /\ io[r].at \in {"idle", "done", "failed"}
                 /\ \E c : /\ io' = [io EXCEPT ![r] = c]
                           /\ \/ c = NoCall
                              \/ c.op \in {"append", "update"} /\ c.at = "manifest"
  <1>0. io \in [Processes -> Calls] /\ r \in Processes
    BY DEF Typed, TypeOK, Processes
  <1>1. ASSUME NEW o, io[r].at \in {"idle", "done", "failed"}, r \in Settling, End(r, o)
        PROVE  /\ \E x : run' = [run EXCEPT ![r] = x]
               /\ UNCHANGED <<manifest, log, staged, fresh, recovery, answer, cut>>
               /\ \E c : io' = [io EXCEPT ![r] = c] /\ c = NoCall
    <2>1. run' = [run EXCEPT ![r] = [run[r] EXCEPT !.phase = "ended", !.outcome = o, !.queue = <<>>]]
      BY <1>1 DEF End, Typed, TypeOK
    <2> QED BY <1>1, <2>1 DEF End, files
  <1>2. ASSUME NEW n, NEW st, io[r].at \in {"idle", "done", "failed"}, r \in Settling, Greet(r, n, st)
        PROVE  /\ \E x : run' = [run EXCEPT ![r] = x]
               /\ UNCHANGED <<manifest, log, staged, fresh, recovery, answer, cut>>
               /\ \E c : io' = [io EXCEPT ![r] = c] /\ c.op = "append" /\ c.at = "manifest"
    <2>1. run' = [run EXCEPT ![r] = [run[r] EXCEPT !.phase = "greeting", !.seq = n,
                                                   !.initial = st, !.status = st]]
      BY <1>2 DEF Greet, Typed, TypeOK
    <2> DEFINE c == AppendCall(run[r].session, n, Event(r, "user"))
    <2>2. io' = [io EXCEPT ![r] = c] /\ c.op = "append" /\ c.at = "manifest"
      BY <1>2 DEF Greet, AppendCall, Call, NoCall
    <2> HIDE DEF c
    <2> QED BY <1>2, <2>1, <2>2 DEF Greet, files
  <1>3. CASE Created(r)
    <2>1. io[r].at \in {"idle", "done", "failed"} /\ r \in Settling
      BY <1>3 DEF Created, Answers, Settling
    <2> QED BY <1>2, <1>3, <2>1 DEF Created
  <1>4. CASE Opened(r)
    <2>1. io[r].at \in {"idle", "done", "failed"} /\ r \in Settling
      BY <1>4 DEF Opened, Answers, Settling
    <2> QED BY <1>2, <1>4, <2>1 DEF Opened
  <1>5. CASE OpenRefused(r) \/ BeginCancelled(r) \/ BeginFails(r) \/ Settle(r)
    <2>1. io[r].at \in {"idle", "done", "failed"} /\ r \in Settling
      BY <1>5 DEF OpenRefused, BeginCancelled, BeginFails, Settle, Answers, Settling
    <2>2. \E o : End(r, o)
      BY <1>5 DEF OpenRefused, BeginCancelled, BeginFails, Settle
    <2> QED BY <1>1, <2>1, <2>2
  <1>6. CASE Greeted(r)
    BY <1>6 DEF Greeted, Answers, Settling, files
  <1>7. CASE EmitStatus(r) \/ EmitReasoning(r) \/ EmitExceeded(r)
    <2>1. r \in Settling
      BY <1>7 DEF EmitStatus, EmitReasoning, EmitExceeded, MayReport, Live, Settling
    <2>2. UNCHANGED <<manifest, log, staged, fresh, io, recovery, answer, cut>>
      BY <1>7 DEF EmitStatus, EmitReasoning, EmitExceeded, files
    <2>3. \E x : run' = [run EXCEPT ![r] = x]
      BY <1>7 DEF EmitStatus, EmitReasoning, EmitExceeded
    <2> QED BY <1>0, <2>1, <2>2, <2>3
  <1>8. CASE Persist(r)
    <2>1. run[r].phase = "running" /\ io[r].at \in {"idle", "done"} /\ run[r].queue # <<>>
      BY <1>8 DEF Persist
    <2>2. run[r].queue \in Seq(Jobs(run[r].session))
      BY <2>1, RunFactsHold DEF RunFacts, RunFits
    <2>3. Head(run[r].queue) \in Jobs(run[r].session)
      BY <2>1, <2>2, HeadTailProperties
    <2>4. Head(run[r].queue).op \in {"append", "update"} /\ Head(run[r].queue).at = "manifest"
      BY <2>3 DEF Jobs
    <2>5. run' = [run EXCEPT ![r] = [run[r] EXCEPT !.queue = Tail(run[r].queue)]]
      BY <1>8 DEF Persist, Typed, TypeOK
    <2>6. io' = [io EXCEPT ![r] = Head(run[r].queue)]
      BY <1>8 DEF Persist
    <2>7. UNCHANGED <<manifest, log, staged, fresh, recovery, answer, cut>>
      BY <1>8 DEF Persist, files
    <2>8. r \in Settling
      BY <2>1 DEF Settling
    <2> QED BY <2>1, <2>4, <2>5, <2>6, <2>7, <2>8
  <1>9. CASE PersistFails(r)
    <2>1. run' = [run EXCEPT ![r] = [run[r] EXCEPT !.queue = <<>>, !.rejected = TRUE]]
      BY <1>9 DEF PersistFails, Typed, TypeOK
    <2> QED BY <1>9, <2>1 DEF PersistFails, Answers, Settling, files
  <1> QED BY <1>3, <1>4, <1>5, <1>6, <1>7, <1>8, <1>9 DEF RunStep

LEMMA RunStepWriter ==
    ASSUME Writer, NEW r \in Runs, RunStep(r)
    PROVE  Writer'
  <1>1. Typed' /\ r \in Processes
    BY RunStepTyped DEF Writer, Processes
  <1>2. /\ \E x : run' = [run EXCEPT ![r] = x]
        /\ r \in Settling
        /\ UNCHANGED <<manifest, log, staged, recovery, cut>>
    BY RunStepShape DEF Writer
  <1>3. Settling' \subseteq Settling
    BY <1>2 DEF Settling, Writer, Typed, TypeOK
  <1>4. OneWriter'
    BY <1>2, <1>3, NoNewWriter DEF Writer
  <1>5. \/ io' = [io EXCEPT ![r] = io[r]]
        \/ /\ io[r].at \in {"idle", "done", "failed"}
           /\ \E c : /\ io' = [io EXCEPT ![r] = c]
                     /\ \/ c = NoCall
                        \/ c.op \in {"append", "update"} /\ c.at = "manifest"
    BY RunStepShape DEF Writer
  <1>6. CASE io' = [io EXCEPT ![r] = io[r]]
    BY <1>1, <1>2, <1>4, <1>6, NoFileWriter
  <1>7. ASSUME io[r].at \in {"idle", "done", "failed"},
               NEW c, io' = [io EXCEPT ![r] = c],
               c = NoCall \/ (c.op \in {"append", "update"} /\ c.at = "manifest")
        PROVE  Writer'
    <2>1. ~HalfAppended(r) /\ c.at \in {"idle", "manifest"} /\ c.op # "create"
      BY <1>7 DEF HalfAppended, NoCall
    <2> QED BY <1>1, <1>2, <1>4, <1>7, <2>1, NoFileWriter
  <1> QED BY <1>5, <1>6, <1>7

LEMMA StartWriter ==
    ASSUME SettledFirst, Writer, NEW r \in Runs, StartNew(r) \/ StartExisting(r)
    PROVE  Writer'
  <1>1. Typed' /\ r \in Processes
    BY StartTyped DEF Writer, Processes
  <1>2. PICK s \in Sessions, phase \in {"creating", "opening"}, op \in {"create", "get"} :
          Start(r, s, phase, op) /\ (op = "create" => manifest[s] = NoManifest)
    BY DEF StartNew, StartExisting
  <1>3. /\ UNCHANGED <<manifest, log, staged, recovery, cut>> /\ recovery.kind = "none"
        /\ run[r].phase = "idle" /\ io' = [io EXCEPT ![r] = Call(op, s)]
    BY <1>2 DEF Start, CanStart, files
  <1>4. run'[r].phase = phase /\ \A q \in Runs \ {r} : run'[q] = run[q]
    BY <1>2 DEF Start, Writer, Typed, TypeOK, RunRecords
  <1>9. Settling = {}
    BY <1>3, <1>4 DEF SettledFirst
  <1>5. OneWriter'
    BY <1>3, <1>4, <1>9 DEF OneWriter, Settling
  <1>6. ~HalfAppended(r)
    BY <1>3, RunFactsHold DEF Writer, RunFacts, RunFits, OpsOf, HalfAppended
  <1> DEFINE c == Call(op, s)
  <1>7. c.at = "manifest" /\ c.op = op /\ c.session = s
    BY DEF Call, NoCall
  <1>8. io' = [io EXCEPT ![r] = c]
    BY <1>3
  <1> HIDE DEF c
  <1> QED BY <1>1, <1>2, <1>3, <1>5, <1>6, <1>7, <1>8, NoFileWriter

LEMMA CancelWriter ==
    ASSUME Writer, NEW r \in Runs, Cancel(r)
    PROVE  Writer'
  <1>1. Typed' /\ r \in Processes
    BY CancelTyped DEF Writer, Processes
  <1>2. UNCHANGED <<manifest, log, staged, recovery, cut>> /\ io' = [io EXCEPT ![r] = io[r]]
    BY DEF Cancel, files, Writer, Typed, TypeOK
  <1>3. \A q \in Runs : run'[q].phase = run[q].phase
    BY DEF Cancel, Writer, Typed, TypeOK, RunRecords
  <1>4. OneWriter'
    BY <1>2, <1>3 DEF OneWriter, Settling, Writer
  <1> QED BY <1>1, <1>2, <1>4, NoFileWriter

\* What a step of the recovery does to its call.
LEMMA RecoveryShape ==
    ASSUME Typed, StartList \/ StartRestore \/ RecoveryStep
    PROVE  /\ UNCHANGED <<manifest, log, staged, fresh, run, active, cut>>
           /\ \/ io' = [io EXCEPT ![Recovery] = io[Recovery]]
              \/ \E c : /\ io' = [io EXCEPT ![Recovery] = c]
                        /\ \/ c = NoCall
                           \/ c.op \in {"get", "update"} /\ c.at = "manifest"
  <1>0. io \in [Processes -> Calls] /\ Recovery \in Processes
    BY DEF Typed, TypeOK, Processes
  <1>1. ASSUME NEW s
        PROVE  /\ Call("get", s).op = "get" /\ Call("get", s).at = "manifest"
               /\ UpdateCall(s, "interrupted").op = "update" /\ UpdateCall(s, "interrupted").at = "manifest"
    BY DEF Call, UpdateCall, NoCall
  <1>2. CASE StartList
    BY <1>0, <1>2 DEF StartList, Recover, files
  <1>3. CASE StartRestore
    BY <1>1, <1>3 DEF StartRestore, Recover, files
  <1>4. CASE ListNext
    BY <1>1, <1>4 DEF ListNext, files
  <1>5. ASSUME NEW o, Conclude(o)
        PROVE  /\ UNCHANGED <<manifest, log, staged, fresh, run, active, cut>>
               /\ \E c : io' = [io EXCEPT ![Recovery] = c] /\ c = NoCall
    BY <1>5 DEF Conclude, files
  <1>6. CASE Restored
    <2>1. \/ /\ io' = [io EXCEPT ![Recovery] = UpdateCall(io[Recovery].session, "interrupted")]
             /\ UNCHANGED <<files, fresh, run, active, answer, cut>>
          \/ \E o : Conclude(o)
      BY <1>6 DEF Restored
    <2> QED BY <1>1, <1>5, <2>1 DEF files
  <1>7. CASE ListDone \/ RestoreMarked \/ RecoveryFails
    <2>1. \E o : Conclude(o)
      BY <1>7 DEF ListDone, RestoreMarked, RecoveryFails
    <2> QED BY <1>5, <2>1
  <1> QED BY <1>2, <1>3, <1>4, <1>6, <1>7 DEF RecoveryStep

LEMMA RecoveryWriter ==
    ASSUME SettledFirst, Writer, StartList \/ StartRestore \/ RecoveryStep
    PROVE  Writer'
  <1>1. Typed' /\ Recovery \in Processes
    BY RecoveryTyped DEF Writer, Processes
  <1>2. UNCHANGED <<manifest, log, staged, run, cut>>
    BY RecoveryShape DEF Writer
  <1>3. recovery'.kind # "none" => recovery.kind # "none" \/ Settling = {}
    <2>1. CASE StartRestore
      BY <2>1 DEF StartRestore, CanRecover, Recover, NoRecovery, SettledFirst
    <2>2. CASE StartList \/ RecoveryStep
      BY <2>2 DEF StartList, RecoveryStep, ListNext, ListDone, Restored, RestoreMarked, RecoveryFails
    <2> QED BY <2>1, <2>2
  <1>4. OneWriter'
    BY <1>2, <1>3, NoNewWriter DEF Writer, Settling
  <1>5. ~HalfAppended(Recovery)
    BY RecoveryFacts DEF Writer, RecoveryFits, RecoveryRecords, HalfAppended, NoCall
  <1>6. \/ io' = [io EXCEPT ![Recovery] = io[Recovery]]
        \/ \E c : /\ io' = [io EXCEPT ![Recovery] = c]
                  /\ c.at \in {"idle", "manifest"} /\ c.op # "create"
    BY RecoveryShape DEF Writer, NoCall
  <1>7. CASE io' = [io EXCEPT ![Recovery] = io[Recovery]]
    BY <1>1, <1>2, <1>4, <1>7, NoFileWriter
  <1>8. ASSUME NEW c, io' = [io EXCEPT ![Recovery] = c],
               c.at \in {"idle", "manifest"}, c.op # "create"
        PROVE  Writer'
    BY <1>1, <1>2, <1>4, <1>5, <1>8, NoFileWriter
  <1> QED BY <1>6, <1>7, <1>8

LEMMA CrashWriter ==
    ASSUME Writer, Crash
    PROVE  Writer'
  <1>1. Typed'
    BY CrashTyped DEF Writer
  <1>2. /\ UNCHANGED <<manifest, log, staged>> /\ io' = [p \in Processes |-> NoCall]
        /\ recovery' = NoRecovery
    BY DEF Crash, files
  <1>3. Settling' = {}
    BY DEF Crash, Settling, Writer, Typed, TypeOK, RunRecords
  <1>4. OneWriter' /\ CallsCurrent'
    BY <1>2, <1>3 DEF OneWriter, CallsCurrent, NoCall
  <1>a. \A s \in Sessions : ~AheadAt(s)'
    BY <1>2 DEF AheadAt, HalfAppended, NoCall
  <1>b. cut'.event = cut.event \union {io[p].session : p \in {q \in Processes : HalfAppended(q)}}
    BY DEF Crash
  <1>5. \A s \in Sessions : ~AheadAt(s)' /\ (s \in cut'.event <=> s \in cut.event \/ AheadAt(s))
    BY <1>a, <1>b DEF AheadAt
  <1>6. FilesAgree'
    <2>1. ASSUME NEW s \in Sessions
          PROVE  Agree(manifest'[s], log'[s], s \in cut'.event, AheadAt(s)')
      <3>1. Agree(manifest[s], log[s], s \in cut.event, AheadAt(s))
        BY DEF Writer, FilesAgree
      <3>2. AheadAt(s) => manifest[s].status # "none"
        BY DEF AheadAt, HalfAppended, Writer, Typed, CallFits
      <3> QED BY <1>2, <1>5, <3>1, <3>2 DEF Agree
    <2> QED BY <2>1 DEF FilesAgree
  <1> QED BY <1>1, <1>4, <1>6 DEF Writer

LEMMA InitWriter == Init => Writer
  <1> SUFFICES ASSUME Init PROVE Writer
    OBVIOUS
  <1>1. OneWriter /\ CallsCurrent
    BY DEF Init, OneWriter, Settling, NoRun, NoRecovery, CallsCurrent, NoCall
  <1>2. \A s \in Sessions : ~AheadAt(s)
    BY DEF Init, AheadAt, HalfAppended, NoCall
  <1>3. \A s \in Sessions : manifest[s].last = 0 /\ log[s] = <<>> /\ s \notin cut.event /\ Len(log[s]) = 0
    BY DEF Init, NoManifest
  <1>4. FilesAgree
    <2>1. ASSUME NEW s \in Sessions
          PROVE  Agree(manifest[s], log[s], s \in cut.event, AheadAt(s))
      BY <1>2, <1>3 DEF Agree
    <2> QED BY <2>1 DEF FilesAgree
  <1> QED BY <1>1, <1>4, InitTyped DEF Writer

LEMMA NextWriter == [SettledFirst]_vars /\ Writer /\ [Next]_vars => Writer'
  <1> SUFFICES ASSUME [SettledFirst]_vars, Writer, [Next]_vars PROVE Writer'
    OBVIOUS
  <1>1. CASE UNCHANGED vars
    <2>1. Typed'
      BY NextTyped DEF Writer
    <2>2. (OneWriter /\ CallsCurrent /\ FilesAgree)'
      BY <1>1 DEF vars, Writer, OneWriter, CallsCurrent, FilesAgree, Settling, AheadAt, HalfAppended
    <2> QED BY <2>1, <2>2 DEF Writer
  <1>2. CASE Next /\ SettledFirst
    BY <1>2, AccessWriter, StartWriter, RunStepWriter, CancelWriter, RecoveryWriter, CrashWriter DEF Next
  <1> QED BY <1>1, <1>2

LEMMA WriterHolds == Spec /\ StartsOneByOne => []Writer
  BY InitWriter, NextWriter, PTL DEF Spec, StartsOneByOne

\* The Patient user of the runs is one who starts no Run and no restore while a Run settles.
THEOREM PatientStartsOneByOne ==
    ASSUME Patient
    PROVE  Spec => StartsOneByOne
  <1>1. ASSUME Typed, Next
        PROVE  SettledFirst
    <2>1. ASSUME NEW p \in Processes, Access(p)
          PROVE  SettledFirst
      BY <2>1 DEF SettledFirst, Access, ReadManifest, ReadEvents, CheckSequence, ReadBase, StageLog, MoveLog,
                  StageManifest, MoveManifest, AccessFails
    <2>2. ASSUME NEW r \in Runs, StartNew(r) \/ StartExisting(r)
          PROVE  SettledFirst
      BY <2>2 DEF SettledFirst, StartNew, StartExisting, Start, CanStart
    <2>3. ASSUME NEW r \in Runs, RunStep(r)
          PROVE  SettledFirst
      <3>1. (\E x : run' = [run EXCEPT ![r] = x]) /\ r \in Settling /\ recovery' = recovery
        BY <1>1, <2>3, RunStepShape
      <3> QED BY <1>1, <3>1 DEF SettledFirst, Settling, Typed, TypeOK
    <2>4. ASSUME NEW r \in Runs, Cancel(r)
          PROVE  SettledFirst
      BY <1>1, <2>4 DEF SettledFirst, Cancel, Typed, TypeOK, RunRecords
    <2>5. CASE StartList \/ StartRestore \/ RecoveryStep
      <3>1. run' = run
        BY <1>1, <2>5, RecoveryShape
      <3>2. Settling # {} /\ recovery.kind = "none" => recovery'.kind # "restore"
        BY <2>5 DEF StartList, Recover, NoRecovery, StartRestore, RecoveryStep, ListNext, ListDone, Restored,
                    RestoreMarked, RecoveryFails
      <3> QED BY <3>1, <3>2 DEF SettledFirst
    <2>6. CASE Crash
      BY <1>1, <2>6 DEF SettledFirst, Crash, Settling, NoRecovery, Typed, TypeOK
    <2> QED BY <1>1, <2>1, <2>2, <2>3, <2>4, <2>5, <2>6 DEF Next
  <1>2. Typed /\ [Next]_vars => [SettledFirst]_vars
    BY <1>1
  <1> QED BY <1>2, TypesHold, PTL DEF Spec, StartsOneByOne

\* As long as nothing is started while a Run settles: the manifest names the last
\* event of the log, except while an event is on its way or a fault has left the log
\* one event ahead for good (session-repository.ts appendEvent and get).
THEOREM LogAndManifestHolds == Spec /\ StartsOneByOne => []LogAndManifest
  <1>1. Writer => LogAndManifest
    BY DEF Writer, Typed, FilesAgree, Agree, AheadAt, LogAndManifest
  <1> QED BY <1>1, WriterHolds, PTL

-----------------------------------------------------------------------------
\* What a step does to the files.

\* Only an access changes a file, and only the one it moves in place.
LEMMA FileSteps ==
    ASSUME Writer, [Next]_vars
    PROVE  \/ UNCHANGED <<manifest, log>>
           \/ \E p \in Processes : MoveLog(p) /\ UNCHANGED manifest
           \/ \E p \in Processes : MoveManifest(p) /\ UNCHANGED log
  <1>1. CASE UNCHANGED vars
    BY <1>1 DEF vars
  <1>2. ASSUME NEW p \in Processes, Access(p)
        PROVE  \/ UNCHANGED <<manifest, log>>
               \/ MoveLog(p) /\ UNCHANGED manifest
               \/ MoveManifest(p) /\ UNCHANGED log
    BY <1>2 DEF Access, ReadManifest, ReadEvents, CheckSequence, ReadBase, StageLog, MoveLog,
                StageManifest, MoveManifest, AccessFails, files
  <1>3. ASSUME NEW r \in Runs, StartNew(r) \/ StartExisting(r) \/ RunStep(r) \/ Cancel(r)
        PROVE  UNCHANGED <<manifest, log>>
    BY <1>3, RunStepShape DEF Writer, StartNew, StartExisting, Start, Cancel, files
  <1>4. CASE StartList \/ StartRestore \/ RecoveryStep
    BY <1>4, RecoveryShape DEF Writer
  <1>5. CASE Crash
    BY <1>5 DEF Crash, files
  <1> QED BY <1>1, <1>2, <1>3, <1>4, <1>5 DEF Next

\* The log that is moved in place is the one it replaces, and one event.
LEMMA MoveLogAppends ==
    ASSUME Writer, NEW p \in Processes, MoveLog(p)
    PROVE  LET s == io[p].session
           IN  /\ s \in Sessions /\ io[p].op = "append" /\ io[p].event \in Events
               /\ io[p].seq = Len(log[s]) + 1
               /\ \/ log' = log
                  \/ log' = [log EXCEPT ![s] = Append(log[s], io[p].event)]
  <1> DEFINE d == io[p]
             s == d.session
  <1>1. d.at = "moveLog"
    BY DEF MoveLog, Waits
  <1>2. CallerKnows(p, d, s)
    BY <1>1, CallerFacts
  <1>3. d.op = "append" /\ s \in Sessions
    BY <1>1, <1>2 DEF CallerKnows, CallFits, StepsOf
  <1>4. staged[s].log = Append(log[s], d.event) /\ d.event \in Events /\ d.seq = Len(log[s]) + 1
    BY <1>1, <1>2, <1>3 DEF CallerKnows, Current, CallFits
  <1> QED BY <1>3, <1>4 DEF MoveLog

\* As long as nothing is started while a Run settles: what was written is never lost
\* or changed, through crashes, failures and the replacement of the whole file by
\* each append (vscode-bounded-text-storage.ts).
THEOREM LogOnlyGrowsHolds == Spec /\ StartsOneByOne => LogOnlyGrows
  <1>1. ASSUME Writer, [Next]_vars, NEW s \in Sessions
        PROVE  SubSeq(log'[s], 1, Len(log[s])) = log[s]
    <2>1. log[s] \in Seq(Events)
      BY <1>1 DEF Writer, Typed, TypeOK
    <2>2. SubSeq(log[s], 1, Len(log[s])) = log[s]
      BY <2>1, SubSeqFull
    <2>3. CASE log' = log
      BY <2>2, <2>3
    <2>4. ASSUME NEW p \in Processes, MoveLog(p), log' # log
          PROVE  SubSeq(log'[s], 1, Len(log[s])) = log[s]
      <3>1. /\ io[p].session \in Sessions /\ io[p].event \in Events
            /\ log' = [log EXCEPT ![io[p].session] = Append(log[io[p].session], io[p].event)]
        BY <1>1, <2>4, MoveLogAppends
      <3>2. CASE s = io[p].session
        <4>1. log'[s] = Append(log[s], io[p].event)
          BY <1>1, <3>1, <3>2 DEF Writer, Typed, TypeOK
        <4>2. SubSeq(Append(log[s], io[p].event), 1, Len(log[s])) = log[s]
          BY <2>1, <3>1
        <4> QED BY <4>1, <4>2
      <3>3. CASE s # io[p].session
        BY <1>1, <2>2, <3>1, <3>3 DEF Writer, Typed, TypeOK
      <3> QED BY <3>2, <3>3
    <2> QED BY <1>1, <2>3, <2>4, FileSteps
  <1>2. Writer /\ [Next]_vars => [\A s \in Sessions : SubSeq(log'[s], 1, Len(log[s])) = log[s]]_vars
    BY <1>1
  <1> QED BY <1>2, WriterHolds, PTL DEF Spec, LogOnlyGrows

\* As long as nothing is started while a Run settles, neither a Run nor a restore:
\* recovery marks a Session as interrupted only when no Run of it is under way, in
\* whatever order it reads the files (webview-run-message-handler.ts
\* acquireSessionHistoryLock, which only the list takes).
THEOREM OnlyRestingIsInterruptedHolds == Spec /\ StartsOneByOne => OnlyRestingIsInterrupted
  <1>1. ASSUME Writer, [Next]_vars, NEW s \in Sessions,
               manifest[s].status # "interrupted", manifest'[s].status = "interrupted"
        PROVE  Settling = {}
    <2>1. PICK p \in Processes : MoveManifest(p)
      BY <1>1, FileSteps
    <2> DEFINE d == io[p]
    <2>2. d.at = "moveManifest"
      BY <2>1 DEF MoveManifest, Waits
    <2>3. CallerKnows(p, d, d.session)
      BY <1>1, <2>2, CallerFacts
    <2>4. /\ d.session = s /\ staged[s].manifest.status = "interrupted"
      BY <1>1, <2>1, <2>3 DEF MoveManifest, CallerKnows, Writer, Typed, TypeOK
    <2>5. NewManifest(d).status = "interrupted" /\ d.op \in {"create", "append", "update"}
      BY <2>2, <2>3, <2>4 DEF CallerKnows, Current, CallFits, StepsOf
    <2>6. d.op # "create"
      BY <2>5 DEF NewManifest
    <2>7. d.op # "append"
      BY <1>1, <2>2, <2>3, <2>4, <2>5 DEF NewManifest, CallerKnows, Current, Steps, Calls, Manifests
    <2>8. d.op = "update" /\ d.status = "interrupted"
      BY <2>3, <2>5, <2>6, <2>7 DEF NewManifest, CallerKnows, Calls, Manifests
    <2>9. p \notin Runs
      BY <1>1, <2>8, RunFactsHold DEF Writer, RunFacts, RunFits, Reportable
    <2> QED BY <1>1, <2>8, <2>9, RecoveryFacts DEF Processes, Writer, OneWriter, RecoveryFits, NoCall
  <1>2. Writer /\ [Next]_vars =>
          [\A s \in Sessions :
             manifest[s].status # "interrupted" /\ manifest'[s].status = "interrupted" =>
                 \A r \in Settling : run[r].session # s]_vars
    BY <1>1
  <1> QED BY <1>2, WriterHolds, PTL DEF Spec, OnlyRestingIsInterrupted

-----------------------------------------------------------------------------
(***************************************************************************)
(* What the logs say. What a Run has reported and not yet written is what  *)
(* its log will be: a sequence of which the log is a prefix and the chain  *)
(* of writes holds the rest. From that follow what the log of a Run that   *)
(* settled says, and that the next Run can read it.                        *)
(***************************************************************************)
-----------------------------------------------------------------------------
\* Reading a log.

\* The status a log ends with.
LastTo(l) == IF At(l, "status") = {} THEN "idle" ELSE l[Latest(At(l, "status"))].to

\* The status before an event.
FromAt(l, i) ==
    LET earlier == Before(At(l, "status"), i)
    IN  IF earlier = {} THEN "idle" ELSE l[Latest(earlier)].to

StepReads(l, i) ==
    /\ l[i].from = FromAt(l, i)
    /\ l[i].to \in LoggedNext(l[i].from)
    /\ Before(At(l, "user"), i) # {}

RunReads(l, u) ==
    /\ \A e \in Ended(l, u), i \in StatusesOf(l, u) : i <= e
    /\ (\E v \in At(l, "user") : v > u) => Ended(l, u) # {} \/ StatusesOf(l, u) = {}

\* What HistoryAccepts asks of a log when the manifest says that its last Run is over.
Reads(l) ==
    /\ \A i \in At(l, "status") : StepReads(l, i)
    /\ \A u \in At(l, "user") : RunReads(l, u)

LEMMA ReadsAccepted ==
    ASSUME NEW l, NEW st \in Closing, Reads(l)
    PROVE  HistoryAccepts(l, st)
  BY DEF Reads, StepReads, RunReads, FromAt, HistoryAccepts

\* A set of positions has a latest one.
LEMMA LatestIn ==
    ASSUME NEW n \in Nat, NEW S, S \subseteq 1 .. n, S # {}
    PROVE  Latest(S) \in S /\ \A j \in S : j <= Latest(S)
  <1> DEFINE R == OpToRel(<, Nat)
             T == {n - i : i \in S}
  <1>1. IsWellFoundedOn(R, Nat)
    BY NatLessThanWellFounded
  <1>2. T \subseteq Nat /\ T # {}
    <2>1. \A i \in S : n - i \in Nat
      BY SMT
    <2>2. PICK i \in S : TRUE
      OBVIOUS
    <2>3. n - i \in T
      BY <2>2
    <2> QED BY <2>1, <2>3
  <1>3. \A x, y \in Nat : y < x => <<y, x>> \in R
    BY DEF OpToRel
  <1> HIDE DEF R, T
  <1>4. PICK x \in T : \A y \in T : ~ (<<y, x>> \in R)
    BY <1>1, <1>2, WFMin
  <1>5. PICK i \in S : x = n - i
    BY <1>4 DEF T
  <1>6. \A j \in S : j <= i
    <2>1. ASSUME NEW j \in S, ~(j <= i) PROVE FALSE
      <3>1. n - j \in T /\ n - j \in Nat /\ x \in Nat /\ n - j < x
        BY <1>5, <2>1 DEF T
      <3> QED BY <1>3, <1>4, <3>1
    <2> QED BY <2>1
  <1> QED BY <1>5, <1>6 DEF Latest

\* A log that is the beginning of another.
Begins(l, w) ==
    /\ l \in Seq(Events) /\ w \in Seq(Events)
    /\ Len(l) <= Len(w)
    /\ \A k \in 1 .. Len(l) : w[k] = l[k]

LEMMA BeginAt ==
    ASSUME NEW l, NEW w, Begins(l, w), NEW type
    PROVE  /\ At(l, type) = {i \in At(w, type) : i <= Len(l)}
           /\ At(w, type) \subseteq 1 .. Len(w) /\ At(l, type) \subseteq 1 .. Len(l)
  <1>1. /\ Len(l) \in Nat /\ Len(w) \in Nat /\ DOMAIN l = 1 .. Len(l) /\ DOMAIN w = 1 .. Len(w)
        /\ Len(l) <= Len(w) /\ \A k \in 1 .. Len(l) : w[k] = l[k]
    BY DEF Begins
  <1> QED BY <1>1 DEF At

LEMMA BeginSteps ==
    ASSUME NEW l, NEW w, Begins(l, w), NEW i \in 1 .. Len(l)
    PROVE  /\ FromAt(l, i) = FromAt(w, i) /\ w[i] = l[i]
           /\ Before(At(l, "user"), i) = Before(At(w, "user"), i)
  <1>1. /\ Len(l) \in Nat /\ \A k \in 1 .. Len(l) : w[k] = l[k]
    BY DEF Begins
  <1>2. \A type : Before(At(l, type), i) = Before(At(w, type), i)
    BY <1>1, BeginAt DEF Before
  <1> DEFINE S == Before(At(l, "status"), i)
  <1>3. S \subseteq 1 .. Len(l)
    BY BeginAt DEF Before
  <1>4. S # {} => Latest(S) \in 1 .. Len(l)
    BY <1>1, <1>3, LatestIn
  <1>5. FromAt(l, i) = FromAt(w, i)
    BY <1>1, <1>2, <1>4 DEF FromAt
  <1> QED BY <1>1, <1>2, <1>5

LEMMA BeginRuns ==
    ASSUME NEW l, NEW w, Begins(l, w), NEW u \in 1 .. Len(l)
    PROVE  /\ StatusesOf(l, u) = {i \in StatusesOf(w, u) : i <= Len(l)}
           /\ Ended(l, u) = {i \in Ended(w, u) : i <= Len(l)}
  <1>1. /\ Len(l) \in Nat /\ Len(w) \in Nat /\ \A k \in 1 .. Len(l) : w[k] = l[k]
    BY DEF Begins
  <1>2. \A type : /\ At(l, type) = {i \in At(w, type) : i <= Len(l)}
                  /\ At(w, type) \subseteq 1 .. Len(w)
    BY BeginAt
  <1>3. StatusesOf(l, u) = {i \in StatusesOf(w, u) : i <= Len(l)}
    <2>1. ASSUME NEW i \in StatusesOf(l, u)
          PROVE  i \in StatusesOf(w, u) /\ i <= Len(l)
      <3>1. i \in At(w, "status") /\ i <= Len(l) /\ i > u /\ i \in Nat
        BY <1>2, <2>1 DEF StatusesOf
      <3>2. \A v \in At(w, "user") : v > u => i < v
        BY <1>1, <1>2, <2>1, <3>1 DEF StatusesOf
      <3> QED BY <3>1, <3>2 DEF StatusesOf
    <2>2. ASSUME NEW i \in StatusesOf(w, u), i <= Len(l)
          PROVE  i \in StatusesOf(l, u)
      BY <1>2, <2>2 DEF StatusesOf
    <2> QED BY <2>1, <2>2
  <1>4. \A i \in StatusesOf(w, u) : i \in 1 .. Len(w)
    BY <1>2 DEF StatusesOf
  <1>5. Ended(l, u) = {i \in Ended(w, u) : i <= Len(l)}
    BY <1>1, <1>3, <1>4 DEF Ended
  <1> QED BY <1>3, <1>5

\* The beginning of what can be read can be read.
LEMMA BeginReads ==
    ASSUME NEW l, NEW w, Begins(l, w), Reads(w)
    PROVE  Reads(l)
  <1>1. /\ Len(l) \in Nat /\ Len(w) \in Nat
    BY DEF Begins
  <1>2. ASSUME NEW i \in At(l, "status")
        PROVE  StepReads(l, i)
    <2>1. i \in At(w, "status") /\ i \in 1 .. Len(l)
      BY BeginAt
    <2> QED BY <2>1, BeginSteps DEF Reads, StepReads
  <1>3. ASSUME NEW u \in At(l, "user")
        PROVE  RunReads(l, u)
    <2>1. u \in At(w, "user") /\ u \in 1 .. Len(l)
      BY BeginAt
    <2>2. RunReads(w, u)
      BY <2>1 DEF Reads
    <2>3. /\ StatusesOf(l, u) = {i \in StatusesOf(w, u) : i <= Len(l)}
          /\ Ended(l, u) = {i \in Ended(w, u) : i <= Len(l)}
      BY <2>1, BeginRuns
    <2>4. ASSUME NEW v \in At(l, "user"), v > u
          PROVE  Ended(l, u) # {} \/ StatusesOf(l, u) = {}
      <3>1. v \in At(w, "user") /\ v \in 1 .. Len(l)
        BY BeginAt
      <3>2. \A i \in StatusesOf(w, u) : i < v /\ i \in 1 .. Len(w)
        BY <2>4, <3>1, BeginAt DEF StatusesOf
      <3>3. \A i \in Ended(w, u) : i \in StatusesOf(w, u)
        BY DEF Ended
      <3>4. Ended(w, u) = Ended(l, u) /\ StatusesOf(w, u) = StatusesOf(l, u)
        BY <1>1, <2>3, <3>1, <3>2, <3>3
      <3> QED BY <2>2, <2>4, <3>1, <3>4 DEF RunReads
    <2>5. \A e \in Ended(l, u), i \in StatusesOf(l, u) : i <= e
      BY <2>2, <2>3 DEF RunReads
    <2> QED BY <2>4, <2>5 DEF RunReads
  <1> QED BY <1>2, <1>3 DEF Reads

LEMMA AppendBegins ==
    ASSUME NEW l \in Seq(Events), NEW e \in Events
    PROVE  LET w == Append(l, e)
               n == Len(l)
           IN  /\ Begins(l, w) /\ w \in Seq(Events) /\ Len(w) = n + 1 /\ w[n + 1] = e /\ n \in Nat
               /\ \A type : e.type = type => At(w, type) = At(l, type) \union {n + 1}
               /\ \A type : e.type # type => At(w, type) = At(l, type)
               /\ \A type : At(l, type) \subseteq 1 .. n
  <1> DEFINE w == Append(l, e)
             n == Len(l)
  <1>1. /\ w \in Seq(Events) /\ Len(w) = n + 1 /\ w[n + 1] = e /\ n \in Nat
        /\ \A k \in 1 .. n : w[k] = l[k]
    OBVIOUS
  <1>2. DOMAIN w = 1 .. n + 1 /\ DOMAIN l = 1 .. n
    BY <1>1
  <1>3. Begins(l, w)
    BY <1>1 DEF Begins
  <1> HIDE DEF w
  <1>4. /\ \A type : e.type = type => At(w, type) = At(l, type) \union {n + 1}
        /\ \A type : e.type # type => At(w, type) = At(l, type)
    BY <1>1, <1>2 DEF At
  <1>5. \A type : At(l, type) \subseteq 1 .. n
    BY <1>2 DEF At
  <1> QED BY <1>1, <1>3, <1>4, <1>5 DEF w

\* The Runs before the last one stay as they are when the log grows.
LEMMA AppendKeepsRuns ==
    ASSUME NEW l \in Seq(Events), NEW e \in Events, Reads(l), NEW u \in At(l, "user"),
           \/ e.type \notin {"user", "status"}
           \/ \E v \in At(l, "user") : v > u
    PROVE  RunReads(Append(l, e), u)
  <1> DEFINE w == Append(l, e)
             n == Len(l)
  <1>1. /\ Begins(l, w) /\ Len(w) = n + 1 /\ w[n + 1] = e /\ n \in Nat
        /\ \A type : e.type = type => At(w, type) = At(l, type) \union {n + 1}
        /\ \A type : e.type # type => At(w, type) = At(l, type)
        /\ \A type : At(l, type) \subseteq 1 .. n
    BY AppendBegins
  <1> HIDE DEF w
  <1>2. u \in 1 .. n /\ RunReads(l, u)
    BY <1>1 DEF Reads
  <1>3. (\A i \in StatusesOf(w, u) : i <= n) /\ (\A i \in Ended(w, u) : i <= n)
    BY <1>1 DEF StatusesOf, Ended
  <1>4. StatusesOf(w, u) = StatusesOf(l, u) /\ Ended(w, u) = Ended(l, u)
    <2>1. /\ StatusesOf(l, u) = {i \in StatusesOf(w, u) : i <= n}
          /\ Ended(l, u) = {i \in Ended(w, u) : i <= n}
      BY <1>1, <1>2, BeginRuns
    <2> QED BY <1>3, <2>1
  <1>5. (\E v \in At(w, "user") : v > u) => (\E v \in At(l, "user") : v > u)
    BY <1>1
  <1> QED BY <1>2, <1>4, <1>5 DEF RunReads, w

LEMMA AppendKeepsSteps ==
    ASSUME NEW l \in Seq(Events), NEW e \in Events, Reads(l), NEW i \in At(l, "status")
    PROVE  StepReads(Append(l, e), i)
  <1> DEFINE w == Append(l, e)
  <1>1. Begins(l, w) /\ i \in 1 .. Len(l)
    BY AppendBegins
  <1> HIDE DEF w
  <1> QED BY <1>1, BeginSteps DEF Reads, StepReads, w

\* What is neither a user message nor a status changes nothing.
LEMMA AppendPlain ==
    ASSUME NEW l \in Seq(Events), NEW e \in Events, e.type \notin {"user", "status"}
    PROVE  /\ Reads(l) => Reads(Append(l, e))
           /\ LastTo(Append(l, e)) = LastTo(l)
  <1> DEFINE w == Append(l, e)
             n == Len(l)
  <1>1. /\ Begins(l, w) /\ n \in Nat
        /\ At(w, "status") = At(l, "status") /\ At(w, "user") = At(l, "user")
        /\ At(l, "status") \subseteq 1 .. n
    BY AppendBegins
  <1>2. At(l, "status") # {} => Latest(At(l, "status")) \in 1 .. n
    BY <1>1, LatestIn
  <1>3. LastTo(w) = LastTo(l)
    BY <1>1, <1>2 DEF LastTo, Begins
  <1>4. Reads(l) => Reads(w)
    BY <1>1, AppendKeepsRuns, AppendKeepsSteps DEF Reads
  <1> QED BY <1>3, <1>4

\* No log ends with the status of a new Session.
LEMMA LastToFacts ==
    ASSUME NEW l \in Seq(Events), Reads(l)
    PROVE  \A i \in At(l, "status") : l[i].to # "idle"
  BY DEF Reads, StepReads, LoggedNext, Closing, Lifecycle!TerminalStatuses, Lifecycle!LegalNext

\* The next Run begins when the log says that the last one is over.
LEMMA AppendUser ==
    ASSUME NEW l \in Seq(Events), NEW e \in Events, e.type = "user"
    PROVE  /\ Reads(l) /\ LastTo(l) \in Closing \union {"idle"} => Reads(Append(l, e))
           /\ LastTo(Append(l, e)) = LastTo(l)
  <1> DEFINE w == Append(l, e)
             n == Len(l)
             S == At(l, "status")
  <1>1. /\ Begins(l, w) /\ n \in Nat /\ Len(w) = n + 1
        /\ At(w, "status") = S /\ At(w, "user") = At(l, "user") \union {n + 1}
        /\ S \subseteq 1 .. n /\ At(l, "user") \subseteq 1 .. n
    BY AppendBegins, SMTT(30)
  <1>2. S # {} => Latest(S) \in S /\ \A j \in S : j <= Latest(S)
    BY <1>1, LatestIn
  <1>3. LastTo(w) = LastTo(l)
    BY <1>1, <1>2 DEF LastTo, Begins
  <1>4. ASSUME Reads(l), LastTo(l) \in Closing \union {"idle"}, NEW u \in At(w, "user")
        PROVE  RunReads(w, u)
    <2>1. CASE \E v \in At(l, "user") : v > u
      BY <1>1, <1>4, <2>1, AppendKeepsRuns
    <2>2. CASE u = n + 1
      <3>1. StatusesOf(w, u) = {} /\ Ended(w, u) = {}
        BY <1>1, <2>2 DEF StatusesOf, Ended
      <3> QED BY <3>1 DEF RunReads
    <2>3. CASE u \in At(l, "user") /\ \A v \in At(l, "user") : ~(v > u)
      <3>1. u \in 1 .. n /\ RunReads(l, u)
        BY <1>1, <1>4, <2>3 DEF Reads
      <3>2. StatusesOf(w, u) = StatusesOf(l, u) /\ Ended(w, u) = Ended(l, u)
        <4>1. (\A i \in StatusesOf(w, u) : i <= n) /\ (\A i \in Ended(w, u) : i <= n)
          BY <1>1 DEF StatusesOf, Ended
        <4>2. /\ StatusesOf(l, u) = {i \in StatusesOf(w, u) : i <= n}
              /\ Ended(l, u) = {i \in Ended(w, u) : i <= n}
          BY <1>1, <3>1, BeginRuns
        <4> QED BY <4>1, <4>2
      <3>3. StatusesOf(l, u) # {} => Ended(l, u) # {}
        <4> SUFFICES ASSUME NEW i \in StatusesOf(l, u) PROVE Ended(l, u) # {}
          OBVIOUS
        <4>1. i \in S /\ i > u
          BY DEF StatusesOf
        <4>2. Latest(S) \in S /\ Latest(S) >= i /\ l[Latest(S)].to = LastTo(l)
          BY <1>2, <4>1 DEF LastTo
        <4>3. Latest(S) > u /\ Latest(S) \in 1 .. n /\ i \in 1 .. n
          BY <1>1, <3>1, <4>1, <4>2
        <4>4. Latest(S) \in StatusesOf(l, u)
          BY <2>3, <4>2, <4>3 DEF StatusesOf
        <4>5. l[Latest(S)].to \in Closing
          BY <1>4, <4>2, LastToFacts
        <4> QED BY <4>4, <4>5 DEF Ended
      <3> QED BY <3>1, <3>2, <3>3 DEF RunReads
    <2> QED BY <1>1, <2>1, <2>2, <2>3
  <1>5. Reads(l) /\ LastTo(l) \in Closing \union {"idle"} => Reads(w)
    BY <1>1, <1>4, AppendKeepsSteps DEF Reads
  <1> QED BY <1>3, <1>5

\* A status goes on from the one before; after the end of a Run only a new one may.
LEMMA AppendStatus ==
    ASSUME NEW l \in Seq(Events), NEW e \in Events, e.type = "status"
    PROVE  /\ LastTo(Append(l, e)) = e.to
           /\ (/\ Reads(l) /\ At(l, "user") # {}
               /\ e.from = LastTo(l) /\ e.to \in LoggedNext(e.from)
               /\ LastTo(l) \notin Closing \/ l[Len(l)].type = "user")
              => Reads(Append(l, e))
  <1> DEFINE w == Append(l, e)
             n == Len(l)
             S == At(l, "status")
  <1>1. /\ Begins(l, w) /\ n \in Nat /\ Len(w) = n + 1 /\ w[n + 1] = e
        /\ At(w, "status") = S \union {n + 1} /\ At(w, "user") = At(l, "user")
        /\ S \subseteq 1 .. n /\ At(l, "user") \subseteq 1 .. n
    BY AppendBegins
  <1>2. S # {} => Latest(S) \in S /\ \A j \in S : j <= Latest(S)
    BY <1>1, LatestIn
  <1> HIDE DEF w
  <1>3. Latest(At(w, "status")) = n + 1
    <2>1. n + 1 \in At(w, "status") /\ \A j \in At(w, "status") : j <= n + 1 /\ j \in 1 .. n + 1
      BY <1>1
    <2>2. At(w, "status") \subseteq 1 .. n + 1 /\ At(w, "status") # {}
      BY <2>1
    <2>3. Latest(At(w, "status")) \in At(w, "status") /\ n + 1 <= Latest(At(w, "status"))
      BY <1>1, <2>1, <2>2, LatestIn
    <2> QED BY <1>1, <2>1, <2>3
  <1>4. LastTo(w) = e.to
    BY <1>1, <1>3 DEF LastTo
  <1>5. ASSUME Reads(l), At(l, "user") # {}, e.from = LastTo(l), e.to \in LoggedNext(e.from),
               LastTo(l) \notin Closing \/ l[Len(l)].type = "user"
        PROVE  Reads(w)
    <2>1. StepReads(w, n + 1)
      <3>1. Before(At(w, "status"), n + 1) = S /\ Before(At(w, "user"), n + 1) = At(l, "user")
        BY <1>1 DEF Before
      <3>2. FromAt(w, n + 1) = LastTo(l)
        BY <1>1, <1>2, <3>1 DEF FromAt, LastTo, Begins
      <3> QED BY <1>1, <1>5, <3>1, <3>2 DEF StepReads
    <2>2. \A i \in S : StepReads(w, i)
      BY <1>5, AppendKeepsSteps DEF w
    <2>3. ASSUME NEW u \in At(l, "user")
          PROVE  RunReads(w, u)
      <3>1. CASE \E v \in At(l, "user") : v > u
        BY <1>5, <3>1, AppendKeepsRuns DEF w
      <3>2. CASE \A v \in At(l, "user") : ~(v > u)
        <4>1. u \in 1 .. n /\ RunReads(l, u)
          BY <1>1, <1>5 DEF Reads
        <4>2. /\ StatusesOf(l, u) = {i \in StatusesOf(w, u) : i <= n}
              /\ Ended(l, u) = {i \in Ended(w, u) : i <= n}
          BY <1>1, <4>1, BeginRuns
        <4>3. Ended(l, u) = {}
          <5> SUFFICES ASSUME NEW x \in Ended(l, u) PROVE FALSE
            OBVIOUS
          <5>1. x \in StatusesOf(l, u) /\ l[x].to \in Closing /\ x \in S /\ x > u
            BY DEF Ended, StatusesOf
          <5>2. Latest(S) \in S /\ Latest(S) >= x /\ x \in 1 .. n /\ Latest(S) \in 1 .. n
            BY <1>1, <1>2, <5>1
          <5>3. Latest(S) > u
            BY <4>1, <5>1, <5>2
          <5>4. Latest(S) \in StatusesOf(l, u)
            BY <3>2, <5>2, <5>3 DEF StatusesOf
          <5>5. Latest(S) <= x
            BY <4>1, <5>4 DEF RunReads
          <5>6. Latest(S) = x
            BY <5>2, <5>5
          <5>7. LastTo(l) \in Closing
            BY <5>1, <5>6 DEF LastTo
          <5>8. n \in At(l, "user")
            BY <1>1, <1>5, <5>2, <5>7 DEF At
          <5> QED BY <3>2, <4>1, <5>1, <5>2, <5>8
        <4>4. \A i \in StatusesOf(w, u) : i \in 1 .. n + 1
          BY <1>1 DEF StatusesOf
        <4>5. \A x \in Ended(w, u) : x = n + 1
          BY <1>1, <4>2, <4>3, <4>4 DEF Ended
        <4> QED BY <1>1, <3>2, <4>4, <4>5 DEF RunReads
      <3> QED BY <3>1, <3>2
    <2> QED BY <1>1, <2>1, <2>2, <2>3 DEF Reads
  <1> QED BY <1>4, <1>5 DEF w

LEMMA LastIsStatus ==
    ASSUME NEW l \in Seq(Events), Len(l) > 0, l[Len(l)].type = "status"
    PROVE  LastTo(l) = l[Len(l)].to
  <1> DEFINE S == At(l, "status")
             n == Len(l)
  <1>1. n \in Nat /\ DOMAIN l = 1 .. n
    OBVIOUS
  <1>2. S \subseteq 1 .. n /\ n \in S
    BY <1>1 DEF At
  <1>3. Latest(S) \in S /\ n <= Latest(S)
    BY <1>1, <1>2, LatestIn
  <1>4. Latest(S) = n
    BY <1>1, <1>2, <1>3
  <1> QED BY <1>2, <1>4 DEF LastTo

LEMMA FromLast ==
    ASSUME NEW l \in Seq(Events), NEW e \in Events
    PROVE  FromAt(Append(l, e), Len(l) + 1) = LastTo(l)
  <1> DEFINE w == Append(l, e)
             n == Len(l)
             S == At(l, "status")
  <1>0. /\ Begins(l, w) /\ n \in Nat /\ Len(w) = n + 1
        /\ S \subseteq 1 .. n
        /\ e.type = "status" => At(w, "status") = S \union {n + 1}
        /\ e.type # "status" => At(w, "status") = S
    BY AppendBegins
  <1> HIDE DEF w
  <1>1. /\ \A i \in At(w, "status") : i \in S \/ i = n + 1
        /\ S \subseteq At(w, "status") /\ S \subseteq 1 .. n
    BY <1>0
  <1>2. S # {} => Latest(S) \in S /\ \A j \in S : j <= Latest(S)
    BY <1>0, LatestIn
  <1>3. Before(At(w, "status"), n + 1) = S
    BY <1>0, <1>1 DEF Before
  <1>4. FromAt(w, n + 1) = LastTo(l)
    BY <1>0, <1>2, <1>3 DEF FromAt, LastTo, Begins
  <1> QED BY <1>4 DEF w

-----------------------------------------------------------------------------
\* What a Run has reported, and what of it is written.

Appending(c) ==
    c.op = "append" /\ c.at \in {"manifest", "events", "sequence", "base", "stageLog", "moveLog"}

Appended(c) == c.op = "append" /\ c.at \in {"stageManifest", "moveManifest", "done"}

\* How many events of a log are written, with the one that is on its way.
Written(c, l) == IF Appending(c) THEN Len(l) + 1 ELSE Len(l)

IsStatus(e, to) == e.type = "status" /\ e.to = to

Says(c, to) == c.op = "append" /\ IsStatus(c.event, to)

\* The chain holds what is not yet on its way, in order, each status followed by its
\* update of the manifest.
QueueFits(q, c, n, w) ==
    /\ \A i \in DOMAIN q : q[i].op = "append" =>
          /\ q[i].seq \in n + 1 .. Len(w)
          /\ q[i].event = w[q[i].seq]
          /\ q[i].event.type = "status" => i + 1 \in DOMAIN q /\ q[i + 1].op = "update"
    /\ \A i \in DOMAIN q : q[i].op = "update" =>
          Says(IF i = 1 THEN c ELSE q[i - 1], q[i].status)
    /\ \A i, j \in DOMAIN q : i < j /\ q[i].op = "append" /\ q[j].op = "append" => q[i].seq < q[j].seq
    /\ \A k \in n + 1 .. Len(w) : \E i \in DOMAIN q : q[i].op = "append" /\ q[i].seq = k

\* w is what the log l will be: x is the Run, c the call it waits for, st the status
\* the manifest has.
Plan(x, c, l, st, w) ==
    /\ Begins(l, w)
    /\ Appending(c) => c.seq = Len(l) + 1 /\ Len(l) < Len(w) /\ c.event = w[Len(l) + 1]
    /\ Appended(c) => c.seq = Len(l) /\ Len(l) > 0 /\ c.event = w[Len(l)]
    /\ c.op = "update" => /\ Len(l) > 0 /\ IsStatus(w[Len(l)], c.status)
                          /\ c.at = "done" => st = c.status
    /\ c.op = "append" /\ c.event.type = "status" => x.queue # <<>> /\ x.queue[1].op = "update"
    /\ x.phase = "running" => x.seq - x.emitted <= Len(l) /\ (c.op = "none" => x.queue # <<>>)
    /\ QueueFits(x.queue, c, Written(c, l), w)

\* The log has a status that the manifest does not have yet.
HalfStated(c) ==
    \/ Appended(c) /\ c.event.type = "status"
    \/ c.op = "update" /\ c.at # "done"

StatedBy(c) == IF c.op = "update" THEN c.status ELSE c.event.to

\* The manifest has the status of the log; while it does not, it has an active one,
\* unless the Run just begins.
Stated(c, l, st) ==
    /\ ~HalfStated(c) => st = LastTo(l)
    /\ HalfStated(c) /\ StatedBy(c) # "preparing" => st \in Lifecycle!ActiveStatuses

\* An access of the Run's call, from c to d.
SameCall(c, d) ==
    d.op = c.op /\ d.event = c.event /\ d.status = c.status /\ d.seq = c.seq

LEMMA PlanQuiet ==
    ASSUME NEW x, NEW c, NEW d, NEW l, NEW st, NEW w, Plan(x, c, l, st, w), SameCall(c, d),
           Appending(d) <=> Appending(c), Appended(d) <=> Appended(c), d.op = "update" => d.at # "done"
    PROVE  Plan(x, d, l, st, w)
  <1>1. QueueFits(x.queue, d, Written(d, l), w)
    BY DEF Plan, SameCall, QueueFits, Says, Written
  <1> QED BY <1>1 DEF Plan, SameCall

LEMMA StatedQuiet ==
    ASSUME NEW c, NEW d, NEW l, NEW st, Stated(c, l, st), SameCall(c, d),
           Appended(d) <=> Appended(c), d.op = "update" => (d.at = "done" <=> c.at = "done")
    PROVE  Stated(d, l, st)
  BY DEF Stated, HalfStated, StatedBy, SameCall

\* The event is in the log.
LEMMA PlanWritten ==
    ASSUME NEW x, NEW c, NEW d, NEW l \in Seq(Events), NEW st, NEW w, Plan(x, c, l, st, w),
           SameCall(c, d), c.op = "append", c.at = "moveLog", d.at = "stageManifest",
           c.event \in Events, x.seq - x.emitted \in Int
    PROVE  Plan(x, d, Append(l, c.event), st, w) /\ w[Len(l) + 1] = c.event
  <1> DEFINE e == c.event
             m == Append(l, e)
             n == Len(l)
  <1>1. /\ m \in Seq(Events) /\ Len(m) = n + 1 /\ m[n + 1] = e /\ n \in Nat
        /\ \A k \in 1 .. n : m[k] = l[k]
    OBVIOUS
  <1>2. Appending(c) /\ ~Appended(c) /\ Appended(d) /\ ~Appending(d)
    BY DEF Appending, Appended, SameCall
  <1>3. c.seq = n + 1 /\ n < Len(w) /\ e = w[n + 1] /\ Begins(l, w)
    BY <1>2 DEF Plan
  <1> HIDE DEF m
  <1>4. Begins(m, w)
    BY <1>1, <1>3, SMTT(30) DEF Begins
  <1>5. Written(d, m) = Written(c, l)
    BY <1>1, <1>2 DEF Written
  <1>6. QueueFits(x.queue, d, Written(d, m), w)
    BY <1>5 DEF Plan, SameCall, QueueFits, Says
  <1>7. Plan(x, d, m, st, w)
    BY <1>1, <1>2, <1>3, <1>4, <1>6 DEF Plan, SameCall
  <1> QED BY <1>3, <1>7 DEF m

\* Only a new Run goes on from a status that is not active.
LEMMA NextFromActive ==
    ASSUME NEW st, NEW to \in LoggedNext(st), to \notin {"preparing", "interrupted"}
    PROVE  st \in Lifecycle!ActiveStatuses
  BY DEF LoggedNext, Closing, Lifecycle!LegalNext, Lifecycle!ActiveStatuses, Lifecycle!TerminalStatuses

LEMMA StatedWritten ==
    ASSUME NEW c, NEW d, NEW l \in Seq(Events), NEW st, NEW w, Begins(Append(l, c.event), w),
           Reads(w), Stated(c, l, st), SameCall(c, d), c.op = "append", c.at = "moveLog",
           d.at = "stageManifest", c.event \in Events, c.event.to # "interrupted"
    PROVE  Stated(d, Append(l, c.event), st)
  <1> DEFINE e == c.event
             m == Append(l, e)
             n == Len(l)
  <1>1. ~HalfStated(c) /\ st = LastTo(l)
    BY DEF Stated, HalfStated, Appended
  <1>2. CASE e.type # "status"
    <2>1. LastTo(m) = LastTo(l)
      BY <1>2, AppendPlain, AppendUser
    <2>2. ~HalfStated(d)
      BY <1>2 DEF HalfStated, SameCall
    <2> QED BY <1>1, <2>1, <2>2 DEF Stated
  <1>3. CASE e.type = "status"
    <2>1. Reads(m)
      BY BeginReads
    <2>2. n + 1 \in At(m, "status") /\ m[n + 1] = e
      BY <1>3, AppendBegins
    <2>3. e.from = FromAt(m, n + 1) /\ e.to \in LoggedNext(e.from)
      BY <2>1, <2>2 DEF Reads, StepReads
    <2>4. e.to \in LoggedNext(st)
      BY <1>1, <2>3, FromLast
    <2>5. HalfStated(d) /\ StatedBy(d) = e.to
      BY <1>3 DEF HalfStated, StatedBy, SameCall, Appended
    <2> QED BY <2>4, <2>5, NextFromActive DEF Stated
  <1> QED BY <1>2, <1>3

\* The manifest is in place.
LEMMA PlanStated ==
    ASSUME NEW x, NEW c, NEW d, NEW l, NEW st, NEW w, Plan(x, c, l, st, w), SameCall(c, d),
           c.op \in {"append", "update"}, c.at = "moveManifest", d.at = "done"
    PROVE  Plan(x, d, l, IF c.op = "update" THEN c.status ELSE st, w)
  <1>1. Appending(d) <=> Appending(c)
    BY DEF Appending, SameCall
  <1>2. Appended(d) <=> Appended(c)
    BY DEF Appended, SameCall
  <1>3. QueueFits(x.queue, d, Written(d, l), w)
    BY <1>1 DEF Plan, SameCall, QueueFits, Says, Written
  <1> QED BY <1>1, <1>2, <1>3 DEF Plan, SameCall

LEMMA StatedDone ==
    ASSUME NEW x, NEW c, NEW d, NEW l \in Seq(Events), NEW st, NEW w, Plan(x, c, l, st, w), SameCall(c, d),
           Stated(c, l, st),
           c.op \in {"append", "update"}, c.at = "moveManifest", d.at = "done"
    PROVE  Stated(d, l, IF c.op = "update" THEN c.status ELSE st)
  <1>1. CASE c.op = "append"
    <2>1. Appended(d) <=> Appended(c)
      BY DEF Appended, SameCall
    <2> QED BY <1>1, <2>1 DEF Stated, HalfStated, StatedBy, SameCall
  <1>2. CASE c.op = "update"
    <2>1. Len(l) > 0 /\ IsStatus(w[Len(l)], c.status) /\ Begins(l, w)
      BY <1>2 DEF Plan
    <2>2. l[Len(l)] = w[Len(l)] /\ Len(l) \in Nat
      BY <2>1 DEF Begins
    <2>3. LastTo(l) = c.status
      BY <2>1, <2>2, LastIsStatus DEF IsStatus
    <2>4. ~HalfStated(d)
      BY <1>2 DEF HalfStated, Appended, SameCall
    <2> QED BY <1>2, <2>3, <2>4 DEF Stated
  <1> QED BY <1>1, <1>2

-----------------------------------------------------------------------------
\* What a Run has reported is what its log will be.

\* x is what the Run r has reported: its part of w is the last, a user message and then
\* statuses and blocks, and it has ended when it says so.
Story(r, x, w) ==
    LET first == x.seq - x.emitted
    IN  /\ Len(w) = x.seq
        /\ first \in 1 .. Len(w)
        /\ \A k \in 1 .. Len(w) :
              /\ w[k].run = r <=> k >= first
              /\ k > first => w[k].type # "user" /\ w[k].to # "interrupted"
              /\ k > first /\ w[k].type # "status" => w[k].to = "none"
        /\ w[first].type = "user" /\ w[first].to = "none"
        /\ x.phase = "greeting" => x.status \in Lifecycle!ResetStatuses
        /\ x.phase = "running" => x.emitted > 0
        /\ x.phase = "running" /\ x.status \notin Lifecycle!ActiveStatuses =>
              IsStatus(w[Len(w)], x.status)

\* A Run that writes and has not failed to.
Tracked(x, c) == x.phase \in {"greeting", "running"} /\ ~x.rejected /\ c.at # "failed"

\* w is what the log will be, and in a Session without faults it can be read.
Told(r, x, c, l, st, fine, w) ==
    /\ Plan(x, c, l, st, w)
    /\ Story(r, x, w)
    /\ fine => Reads(w) /\ LastTo(w) = x.status /\ Stated(c, l, st)

\* No crash took the beginning of a Run of the Session, all of its Runs could write
\* and none began after a mark.
Sound(x) == ~x.rejected /\ x.initial # "interrupted"

Fine(s) ==
    /\ s \notin cut.begin
    /\ \A r \in Runs : run[r].session = s => Sound(run[r])

Begun(c) ==
    \/ c.op = "append" /\ c.event.to = "preparing" /\ c.at \in {"stageManifest", "moveManifest", "done"}
    \/ c.op = "update" /\ c.status = "preparing" /\ c.at # "done"

\* The log can be read, and says the same as the manifest when no Run is on its way.
Rests(l, st, hit, begun) ==
    /\ Reads(l)
    /\ ~hit /\ ~begun /\ st \in Lifecycle!ResetStatuses \ {"interrupted"} => LastTo(l) = st

BegunAt(s) == \E r \in Runs : io[r].session = s /\ Begun(io[r])

\* What a Run that settled with its own status has left.
RecordedIn(r, x, l, st) ==
    LET first == x.seq - x.emitted
    IN  x.phase = "ended" /\ x.outcome \in Lifecycle!TerminalStatuses /\ x.emitted > 0 =>
           /\ first > 0 /\ x.seq <= Len(l)
           /\ {i \in DOMAIN l : l[i].run = r} = first .. x.seq
           /\ l[first].type = "user"
           /\ IsStatus(l[x.seq], x.outcome)
           /\ Latest(At(l, "status")) = x.seq => st = x.outcome

Early == {"idle", "creating", "opening"}

Marked == Recoverable \union {"interrupted"}

RunTold(r) ==
    LET x == run[r]
        s == x.session
    IN  Tracked(x, io[r]) =>
           \E w \in Seq(Events) : Told(r, x, io[r], log[s], manifest[s].status, Fine(s), w)

Unheard(r) ==
    run[r].phase \in Early =>
        /\ run[r].initial # "interrupted"
        /\ \A s \in Sessions : \A k \in DOMAIN log[s] : log[s][k].run # r

\* A chain that was rejected writes nothing more.
Silenced(x, c) == x.rejected => c.op = "none" /\ x.queue = <<>>

RunKept(r) ==
    /\ RunTold(r)
    /\ Unheard(r)
    /\ Silenced(run[r], io[r])
    /\ RecordedIn(r, run[r], log[run[r].session], manifest[run[r].session].status)

AtRest(s) == Fine(s) => Rests(log[s], manifest[s].status, s \in cut.event, BegunAt(s))

\* The recovery marks only what is not over.
MarksOnlyOpen ==
    /\ recovery.kind # "none" => \A s \in recovery.todo : manifest[s].status \in Marked
    /\ io[Recovery].op = "update" => manifest[io[Recovery].session].status \in Marked

Record ==
    /\ \A r \in Runs : RunKept(r)
    /\ \A s \in Sessions : AtRest(s)
    /\ MarksOnlyOpen

LEMMA ToldLess ==
    ASSUME NEW r, NEW x, NEW c, NEW l, NEW st, NEW more, NEW fine, NEW w,
           Told(r, x, c, l, st, more, w), fine => more
    PROVE  Told(r, x, c, l, st, fine, w)
  BY DEF Told

\* Only a Run that is under way has something to tell.
LEMMA TrackedSettles ==
    ASSUME NEW r \in Runs, Tracked(run[r], io[r])
    PROVE  r \in Settling
  BY DEF Tracked, Settling

\* A step of a Run that moves no file.
LEMMA RecordFrame ==
    ASSUME Record, Writer, OneWriter', NEW r \in Runs, NEW x, NEW c,
           run' = [run EXCEPT ![r] = x], io' = [io EXCEPT ![r] = c],
           UNCHANGED <<manifest, log, recovery>>,
           cut'.begin = cut.begin, cut.event \subseteq cut'.event,
           run[r].session \in Sessions => x.session = run[r].session,
           run[r].rejected => x.rejected,
           run[r].initial = "interrupted" => x.initial = "interrupted",
           Begun(io[r]) /\ io[r].session \in Sessions =>
               \/ Begun(c) /\ c.session = io[r].session
               \/ io[r].session \in cut'.event
               \/ x.rejected /\ x.session = io[r].session,
           x.phase \in Early => run[r].phase \in Early /\ x.initial = run[r].initial,
           Silenced(x, c),
           RecordedIn(r, x, log[x.session], manifest[x.session].status),
           Tracked(x, c) =>
               /\ x.session \in Sessions
               /\ \E w \in Seq(Events) :
                     Told(r, x, c, log[x.session], manifest[x.session].status,
                          Fine(x.session) /\ Sound(x), w)
    PROVE  Record'
  <1>1. /\ run'[r] = x /\ io'[r] = c /\ r # Recovery /\ io'[Recovery] = io[Recovery]
        /\ \A q \in Runs \ {r} : run'[q] = run[q] /\ io'[q] = io[q]
    BY StoreAssumption DEF Processes, Writer, Typed, TypeOK
  <1>2. ASSUME NEW s \in Sessions, Fine(s)'
        PROVE  Fine(s) /\ (x.session = s => Sound(x))
    BY <1>1, <1>2 DEF Fine, Sound
  <1>3. ASSUME NEW q \in Runs
        PROVE  RunKept(q)'
    <2>1. CASE q = r
      <3>1. RunTold(r)'
        <4> SUFFICES ASSUME Tracked(x, c)
                     PROVE  \E w \in Seq(Events) :
                               Told(r, x, c, log[x.session], manifest[x.session].status, Fine(x.session)', w)
          BY <1>1 DEF RunTold
        <4>1. PICK w \in Seq(Events) :
                 Told(r, x, c, log[x.session], manifest[x.session].status, Fine(x.session) /\ Sound(x), w)
          OBVIOUS
        <4>2. Fine(x.session)' => Fine(x.session) /\ Sound(x)
          BY <1>2
        <4>3. Told(r, x, c, log[x.session], manifest[x.session].status, Fine(x.session)', w)
          BY <4>1, <4>2, ToldLess
        <4> QED BY <4>3
      <3>2. Unheard(r)'
        BY <1>1 DEF Record, RunKept, Unheard
      <3>3. (Silenced(run[r], io[r]))'
        BY <1>1
      <3>4. RecordedIn(r, run'[r], log'[run'[r].session], manifest'[run'[r].session].status)
        BY <1>1
      <3> QED BY <2>1, <3>1, <3>2, <3>3, <3>4 DEF RunKept
    <2>2. CASE q # r
      <3>1. run'[q] = run[q] /\ io'[q] = io[q] /\ RunKept(q)
        BY <1>1, <2>2 DEF Record
      <3>2. RunTold(q)'
        <4> SUFFICES ASSUME Tracked(run[q], io[q])
                     PROVE  RunTold(q)'
          BY <3>1 DEF RunTold
        <4>1. run[q].session \in Sessions
          BY RunFactsHold DEF Writer, RunFacts, RunFits, Tracked
        <4> QED BY <1>2, <3>1, <4>1, ToldLess DEF RunKept, RunTold
      <3>3. Unheard(q)'
        BY <3>1 DEF RunKept, Unheard
      <3> QED BY <3>1, <3>2, <3>3 DEF RunKept
    <2> QED BY <2>1, <2>2
  <1>4. ASSUME NEW s \in Sessions
        PROVE  AtRest(s)'
    <2> SUFFICES ASSUME Fine(s)'
                 PROVE  Rests(log[s], manifest[s].status, s \in cut'.event, BegunAt(s)')
      BY DEF AtRest
    <2>1. Rests(log[s], manifest[s].status, s \in cut.event, BegunAt(s))
      BY <1>2 DEF Record, AtRest
    <2>2. s \notin cut'.event /\ BegunAt(s) => BegunAt(s)'
      BY <1>1, <1>2 DEF BegunAt, Sound
    <2> QED BY <2>1, <2>2 DEF Rests
  <1>5. MarksOnlyOpen'
    BY <1>1 DEF Record, MarksOnlyOpen
  <1> QED BY <1>3, <1>4, <1>5 DEF Record

\* A step of the recovery that moves no file.
LEMMA RecordRecovery ==
    ASSUME Record, Writer, NEW c, io' = [io EXCEPT ![Recovery] = c],
           UNCHANGED <<manifest, log, run>>,
           cut'.begin = cut.begin, cut.event \subseteq cut'.event,
           MarksOnlyOpen'
    PROVE  Record'
  <1>1. \A q \in Runs : io'[q] = io[q]
    BY StoreAssumption DEF Processes, Writer, Typed, TypeOK
  <1>2. \A s : Fine(s)' <=> Fine(s)
    BY DEF Fine
  <1>3. \A s : BegunAt(s)' <=> BegunAt(s)
    BY <1>1 DEF BegunAt
  <1>4. ASSUME NEW q \in Runs
        PROVE  RunKept(q)'
    <2>1. RunKept(q) /\ io'[q] = io[q] /\ run'[q] = run[q]
      BY <1>1 DEF Record
    <2>2. RunTold(q)'
      BY <1>2, <2>1 DEF RunKept, RunTold
    <2>3. Unheard(q)'
      BY <2>1 DEF RunKept, Unheard
    <2> QED BY <2>1, <2>2, <2>3 DEF RunKept
  <1>5. ASSUME NEW s \in Sessions
        PROVE  AtRest(s)'
    BY <1>2, <1>3 DEF Record, AtRest, Rests
  <1> QED BY <1>4, <1>5 DEF Record

\* An access that moves a file of the Session s in place.
LEMMA RecordFiles ==
    ASSUME Record, Writer, NEW p \in Processes, NEW c, NEW s \in Sessions, NEW m, NEW l,
           io' = [io EXCEPT ![p] = c], io[p].session = s, c.session = s,
           manifest' = [manifest EXCEPT ![s] = m], log' = [log EXCEPT ![s] = l],
           UNCHANGED <<run, recovery, cut>>,
           \A q \in Runs : run[q].session = s => RecordedIn(q, run[q], l, m.status),
           \A q \in Runs : run[q].phase \in Early => \A k \in DOMAIN l : l[k].run # q,
           \A q \in Runs \ {p} : ~Tracked(run[q], io[q]),
           p \in Runs /\ Tracked(run[p], c) =>
               /\ run[p].session = s
               /\ \E w \in Seq(Events) : Told(p, run[p], c, l, m.status, Fine(s), w),
           Fine(s) => Rests(l, m.status, s \in cut.event, BegunAt(s)'),
           MarksOnlyOpen'
    PROVE  Record'
  <1>1. /\ io'[p] = c /\ \A q \in Processes \ {p} : io'[q] = io[q]
        /\ Runs \subseteq Processes
        /\ manifest'[s] = m /\ log'[s] = l
        /\ \A t \in Sessions \ {s} : manifest'[t] = manifest[t] /\ log'[t] = log[t]
    BY DEF Processes, Writer, Typed, TypeOK
  <1>2. \A t : Fine(t)' <=> Fine(t)
    BY DEF Fine
  <1>3. ASSUME NEW q \in Runs
        PROVE  RunKept(q)'
    <2>1. RunKept(q) /\ RunFits(run[q], io[q], manifest)
      BY RunFactsHold DEF Record, Writer, RunFacts
    <2>2. RunTold(q)'
      <3>1. CASE q = p
        <4> SUFFICES ASSUME Tracked(run[p], c)
                     PROVE  \E w \in Seq(Events) :
                               Told(p, run[p], c, log'[run[p].session], manifest'[run[p].session].status,
                                    Fine(run[p].session)', w)
          BY <1>1, <3>1 DEF RunTold
        <4>1. run[p].session = s /\ (Fine(s)' <=> Fine(s)) /\ p \in Runs
          BY <1>2, <3>1
        <4>2. PICK w \in Seq(Events) : Told(p, run[p], c, l, m.status, Fine(s), w)
          BY <3>1
        <4>3. Told(p, run[p], c, l, m.status, Fine(s)', w)
          BY <4>1, <4>2, ToldLess
        <4> QED BY <1>1, <4>1, <4>3
      <3>2. CASE q # p
        BY <1>1, <3>2 DEF RunTold
      <3> QED BY <3>1, <3>2
    <2>3. Unheard(q)'
      BY <1>1, <2>1 DEF RunKept, Unheard
    <2>4. (Silenced(run[q], io[q]))'
      <3>1. q = p /\ run[q].rejected => io[p].op = "none"
        BY <2>1 DEF RunKept, Silenced
      <3>2. io[p].op # "none"
        BY SMT, IdleCalls, StoreAssumption DEF Writer, NoCall
      <3> QED BY <1>1, <2>1, <3>1, <3>2 DEF RunKept, Silenced
    <2>5. RecordedIn(q, run[q], log'[run[q].session], manifest'[run[q].session].status)
      <3> SUFFICES ASSUME run[q].phase = "ended"
                   PROVE  RecordedIn(q, run[q], log'[run[q].session], manifest'[run[q].session].status)
        BY DEF RecordedIn
      <3>1. run[q].session \in Sessions
        BY <2>1 DEF RunFits
      <3> QED BY <1>1, <2>1, <3>1 DEF RunKept
    <2> QED BY <2>2, <2>3, <2>4, <2>5 DEF RunKept
  <1>4. ASSUME NEW t \in Sessions
        PROVE  AtRest(t)'
    <2>1. CASE t = s
      BY <1>1, <1>2, <2>1 DEF AtRest
    <2>2. CASE t # s
      <3>1. BegunAt(t)' <=> BegunAt(t)
        BY <1>1, <2>2 DEF BegunAt
      <3> QED BY <1>1, <1>2, <2>2, <3>1 DEF Record, AtRest, Rests
    <2> QED BY <2>1, <2>2
  <1> QED BY <1>3, <1>4 DEF Record

LEMMA LatestIsLast ==
    ASSUME NEW l \in Seq(Events), Len(l) > 0, l[Len(l)].type = "status"
    PROVE  Latest(At(l, "status")) = Len(l)
  <1> DEFINE S == At(l, "status")
             n == Len(l)
  <1>1. n \in Nat /\ DOMAIN l = 1 .. n
    OBVIOUS
  <1>2. S \subseteq 1 .. n /\ n \in S
    BY <1>1 DEF At
  <1>3. Latest(S) \in S /\ n <= Latest(S)
    BY <1>1, <1>2, LatestIn
  <1> QED BY <1>1, <1>2, <1>3

\* What a Run has left stays as it is when another one writes.
LEMMA RecordedAppend ==
    ASSUME NEW q, NEW x \in RunRecords, NEW l \in Seq(Events), NEW e \in Events, NEW st,
           e.run # q, RecordedIn(q, x, l, st)
    PROVE  RecordedIn(q, x, Append(l, e), st)
  <1> DEFINE w == Append(l, e)
             n == Len(l)
             first == x.seq - x.emitted
  <1> SUFFICES ASSUME x.phase = "ended", x.outcome \in Lifecycle!TerminalStatuses, x.emitted > 0
               PROVE  RecordedIn(q, x, w, st)
    BY DEF RecordedIn
  <1>1. /\ first > 0 /\ x.seq <= n /\ {i \in DOMAIN l : l[i].run = q} = first .. x.seq
        /\ l[first].type = "user" /\ IsStatus(l[x.seq], x.outcome)
        /\ Latest(At(l, "status")) = x.seq => st = x.outcome
    BY DEF RecordedIn
  <1>2. x.seq \in Nat /\ x.emitted \in Nat /\ first \in Int /\ first <= x.seq
    BY StoreAssumption DEF RunRecords
  <1>3. /\ w \in Seq(Events) /\ Len(w) = n + 1 /\ w[n + 1] = e /\ n \in Nat
        /\ DOMAIN w = 1 .. n + 1 /\ DOMAIN l = 1 .. n
        /\ \A k \in 1 .. n : w[k] = l[k]
    OBVIOUS
  <1>4. e.type # "status" => At(w, "status") = At(l, "status")
    BY AppendBegins
  <1> HIDE DEF w
  <1>5. e.type = "status" => Latest(At(w, "status")) = n + 1
    BY <1>3, LatestIsLast
  <1>6. {i \in DOMAIN w : w[i].run = q} = first .. x.seq
    <2>1. ASSUME NEW i \in DOMAIN w, w[i].run = q
          PROVE  i \in first .. x.seq
      BY <1>1, <1>3, <2>1
    <2>2. ASSUME NEW i \in first .. x.seq
          PROVE  i \in DOMAIN w /\ w[i].run = q
      <3>1. i \in DOMAIN l /\ l[i].run = q
        BY <1>1
      <3> QED BY <1>3, <3>1
    <2> QED BY <2>1, <2>2
  <1>7. w[first] = l[first] /\ w[x.seq] = l[x.seq]
    BY <1>1, <1>2, <1>3
  <1> HIDE DEF first
  <1>8. Latest(At(w, "status")) = x.seq => st = x.outcome
    BY <1>1, <1>2, <1>3, <1>4, <1>5
  <1>9. first > 0 /\ x.seq <= Len(w) /\ w[first].type = "user" /\ IsStatus(w[x.seq], x.outcome)
    BY <1>1, <1>2, <1>3, <1>7
  <1>10. RecordedIn(q, x, w, st)
    BY <1>6, <1>8, <1>9 DEF RecordedIn, first
  <1> QED BY <1>10 DEF w

\* A status of another Run at the end of the log is not the end of this one.
LEMMA RecordedOther ==
    ASSUME NEW q, NEW x \in RunRecords, NEW l \in Seq(Events), NEW st, NEW new,
           Len(l) > 0, l[Len(l)].type = "status", l[Len(l)].run # q, RecordedIn(q, x, l, st)
    PROVE  RecordedIn(q, x, l, new)
  <1>1. Latest(At(l, "status")) = Len(l)
    BY LatestIsLast
  <1>2. x.seq \in Nat /\ x.emitted \in Nat
    BY StoreAssumption DEF RunRecords
  <1>3. x.seq \in x.seq - x.emitted .. x.seq
    BY <1>2
  <1> QED BY <1>1, <1>3 DEF RecordedIn

\* Where a Run tells what the log will be, the log is what it should be.
LEMMA ToldRests ==
    ASSUME NEW r, NEW x, NEW c, NEW l, NEW st, NEW w, NEW hit, NEW begun,
           Told(r, x, c, l, st, TRUE, w), Begun(c) => begun
    PROVE  Rests(l, st, hit, begun)
  <1>1. Reads(l) /\ Stated(c, l, st)
    BY BeginReads DEF Told, Plan
  <1>2. HalfStated(c) /\ ~begun => st \in Lifecycle!ActiveStatuses
    BY <1>1 DEF Stated, HalfStated, StatedBy, Appended, Begun
  <1>3. st \in Lifecycle!ActiveStatuses => st \notin Lifecycle!ResetStatuses
    BY DEF Lifecycle!ActiveStatuses, Lifecycle!ResetStatuses, Lifecycle!TerminalStatuses
  <1> QED BY <1>1, <1>2, <1>3 DEF Rests, Stated

\* What a Run writes is its own.
LEMMA OwnEvent ==
    ASSUME NEW r, NEW x \in RunRecords, NEW c, NEW l \in Seq(Events), NEW st, NEW w, NEW fine,
           Told(r, x, c, l, st, fine, w), x.phase \in {"greeting", "running"},
           x.phase = "greeting" => x.queue = <<>> /\ x.emitted = 0
    PROVE  /\ Appending(c) => c.event.run = r /\ c.event.to # "interrupted"
           /\ c.op = "update" /\ x.phase = "running" =>
                 Len(l) > 0 /\ l[Len(l)].type = "status" /\ l[Len(l)].run = r
  <1> DEFINE first == x.seq - x.emitted
             n == Len(l)
  <1>1. /\ Plan(x, c, l, st, w) /\ Story(r, x, w) /\ Begins(l, w)
    BY DEF Told, Plan
  <1>2. /\ n \in Nat /\ Len(w) \in Nat /\ x.seq \in Nat /\ x.emitted \in Nat /\ first \in Int
        /\ n <= Len(w) /\ \A k \in 1 .. n : w[k] = l[k]
    BY <1>1, StoreAssumption DEF Begins, RunRecords
  <1>3. x.phase = "running" => first <= n
    BY <1>1 DEF Plan
  <1>4. ASSUME Appending(c)
        PROVE  c.event.run = r /\ c.event.to # "interrupted"
    <2>1. n < Len(w) /\ c.event = w[n + 1]
      BY <1>1, <1>4 DEF Plan
    <2>2. first <= n + 1
      <3>1. CASE x.phase = "greeting"
        <4>1. \A k \in n + 2 .. Len(w) : FALSE
          BY <1>1, <1>4, <3>1 DEF Plan, QueueFits, Written
        <4>2. Len(w) = n + 1
          BY <1>2, <2>1, <4>1
        <4> QED BY <1>1, <1>2, <3>1, <4>2 DEF Story
      <3> QED BY <1>2, <1>3, <3>1
    <2>3. w[n + 1].run = r /\ w[n + 1].to # "interrupted"
      <3>1. n + 1 \in 1 .. Len(w)
        BY <1>2, <2>1
      <3>2. CASE n + 1 > first
        BY <1>1, <1>2, <3>1, <3>2 DEF Story
      <3>3. CASE n + 1 = first
        BY <1>1, <1>2, <3>1, <3>3 DEF Story
      <3> QED BY <1>2, <2>2, <3>2, <3>3
    <2> QED BY <2>1, <2>3
  <1>5. ASSUME c.op = "update", x.phase = "running"
        PROVE  n > 0 /\ l[n].type = "status" /\ l[n].run = r
    <2>1. n > 0 /\ IsStatus(w[n], c.status)
      BY <1>1, <1>5 DEF Plan
    <2>2. n \in 1 .. Len(w) /\ n >= first /\ w[n] = l[n]
      BY <1>2, <1>3, <1>5, <2>1
    <2>3. w[n].run = r
      BY <1>1, <2>2 DEF Story
    <2> QED BY <2>1, <2>2, <2>3 DEF IsStatus
  <1> QED BY <1>4, <1>5

-----------------------------------------------------------------------------
\* The accesses.

\* An access that only goes on.
Quiet(d, c) ==
    /\ c.at # "failed" /\ d.at \notin {"failed", "idle"}
    /\ Appending(c) <=> Appending(d)
    /\ Appended(c) <=> Appended(d)
    /\ c.op = "update" => c.at # "done" /\ d.at # "done"

\* What an access of a call does: it goes on, fails, or moves a file in place.
LEMMA AccessEffects ==
    ASSUME Writer, NEW p \in Processes, Access(p)
    PROVE  LET d == io[p]
               s == d.session
           IN  /\ UNCHANGED <<run, recovery>> /\ cut'.begin = cut.begin
               /\ CallerKnows(p, d, s)
               /\ \E c : /\ io' = [io EXCEPT ![p] = c] /\ SameCall(d, c) /\ c.session = s
                         /\ \/ Quiet(d, c) /\ UNCHANGED <<manifest, log, cut>>
                            \/ /\ c.at = "failed" /\ d.at \notin {"done", "failed", "idle"}
                               /\ cut.event \subseteq cut'.event
                               /\ Half(d) => s \in cut'.event
                               /\ UNCHANGED <<manifest, log>>
                            \/ /\ d.op = "append" /\ d.at = "moveLog" /\ c.at = "stageManifest"
                               /\ log' = [log EXCEPT ![s] = Append(log[s], d.event)]
                               /\ UNCHANGED <<manifest, cut>>
                            \/ /\ d.op \in {"create", "append", "update"}
                               /\ d.at = "moveManifest" /\ c.at = "done"
                               /\ manifest' = [manifest EXCEPT ![s] = NewManifest(d)]
                               /\ UNCHANGED <<log, cut>>
  <1> DEFINE d == io[p]
             s == d.session
             Going(c) == io' = [io EXCEPT ![p] = c] /\ SameCall(d, c) /\ c.session = s
             Ok(c) == /\ Going(c)
                      /\ \/ Quiet(d, c) /\ UNCHANGED <<manifest, log, cut>>
                         \/ /\ c.at = "failed" /\ d.at \notin {"done", "failed", "idle"}
                            /\ cut.event \subseteq cut'.event
                            /\ Half(d) => s \in cut'.event
                            /\ UNCHANGED <<manifest, log>>
                         \/ /\ d.op = "append" /\ d.at = "moveLog" /\ c.at = "stageManifest"
                            /\ log' = [log EXCEPT ![s] = Append(log[s], d.event)]
                            /\ UNCHANGED <<manifest, cut>>
                         \/ /\ d.op \in {"create", "append", "update"}
                            /\ d.at = "moveManifest" /\ c.at = "done"
                            /\ manifest' = [manifest EXCEPT ![s] = NewManifest(d)]
                            /\ UNCHANGED <<log, cut>>
  <1>0. /\ UNCHANGED <<run, recovery>> /\ cut'.begin = cut.begin
        /\ io \in [Processes -> Calls] /\ cut \in [event : SUBSET Sessions, begin : SUBSET Sessions]
    <2>1. UNCHANGED <<run, recovery>>
      BY DEF Access
    <2>2. io \in [Processes -> Calls] /\ cut \in [event : SUBSET Sessions, begin : SUBSET Sessions]
      BY DEF Writer, Typed, TypeOK
    <2>3. cut'.begin = cut.begin
      BY <2>2 DEF Access, ReadManifest, ReadEvents, CheckSequence, ReadBase, StageLog, MoveLog,
             StageManifest, MoveManifest, AccessFails
    <2> QED BY <2>1, <2>2, <2>3
  <1>a. d.at \notin {"idle", "done", "failed"}
    BY DEF Access, ReadManifest, ReadEvents, CheckSequence, ReadBase, StageLog, MoveLog,
           StageManifest, MoveManifest, AccessFails, Waits, Pending
  <1>b. CallerKnows(p, d, s)
    BY <1>a, CallerFacts
  <1>c. /\ d \in Calls /\ d.op \in {"create", "get", "append", "update"} /\ d.at \in StepsOf(d.op)
        /\ Current(d, manifest[s], log[s], staged[s], s \in cut.event)
    BY <1>b DEF CallerKnows, CallFits
  <1>d. ASSUME NEW at \in Steps, Proceed(p, at)
        PROVE  \E c : Going(c) /\ c.at = at
    <2> DEFINE c == [d EXCEPT !.at = at]
    <2>1. io' = [io EXCEPT ![p] = c]
      BY <1>d DEF Proceed
    <2>2. SameCall(d, c) /\ c.session = s /\ c.at = at
      BY <1>c DEF SameCall, Calls
    <2> QED BY <2>1, <2>2
  <1>e. ASSUME NEW e, FailWith(p, e), UNCHANGED <<manifest, log>>, cut.event \subseteq cut'.event,
               Half(d) => s \in cut'.event
        PROVE  \E c : Ok(c)
    <2> DEFINE c == [d EXCEPT !.at = "failed", !.error = e]
    <2>1. io' = [io EXCEPT ![p] = c]
      BY <1>0, <1>e DEF FailWith
    <2>2. SameCall(d, c) /\ c.session = s /\ c.at = "failed"
      BY <1>c DEF SameCall, Calls
    <2>3. Ok(c)
      BY <1>a, <1>e, <2>1, <2>2
    <2> QED BY <2>3
  <1>f. ASSUME NEW c, Going(c), Quiet(d, c), UNCHANGED <<manifest, log, cut>>
        PROVE  Ok(c)
    BY <1>f
  <1>g. ASSUME NEW c, Going(c), c.at = "stageManifest", d.op = "append", d.at = "moveLog",
               log' = [log EXCEPT ![s] = Append(log[s], d.event)], UNCHANGED <<manifest, cut>>
        PROVE  Ok(c)
    BY <1>g
  <1>h. ASSUME NEW c, Going(c), c.at = "done", d.op \in {"create", "append", "update"},
               d.at = "moveManifest", manifest' = [manifest EXCEPT ![s] = NewManifest(d)],
               UNCHANGED <<log, cut>>
        PROVE  Ok(c)
    BY <1>h
  <1> SUFFICES \E c : Ok(c)
    BY <1>0, <1>b
  <1> HIDE DEF Ok
  <1>1. CASE ReadManifest(p)
    <2>1. d.at = "manifest" /\ UNCHANGED <<manifest, log, cut>>
      BY <1>1 DEF ReadManifest, Waits, files
    <2>2. CASE d.op = "create"
      <3>1. PICK c : Going(c) /\ c.at = "stageManifest"
        BY <1>1, <1>d, <2>2 DEF ReadManifest, Steps
      <3>2. Quiet(d, c)
        BY <2>1, <2>2, <3>1 DEF Quiet, SameCall, Appending, Appended
      <3> QED BY <1>f, <2>1, <3>1, <3>2
    <2>3. CASE d.op # "create"
      <3> DEFINE c == [d EXCEPT !.at = "events", !.manifest = manifest[s]]
      <3>1. io' = [io EXCEPT ![p] = c]
        BY <1>0, <1>1, <2>3 DEF ReadManifest
      <3>2. SameCall(d, c) /\ c.session = s /\ c.at = "events"
        BY <1>c DEF SameCall, Calls
      <3> HIDE DEF c
      <3>3. Quiet(d, c)
        BY <2>1, <3>2 DEF Quiet, SameCall, Appending, Appended
      <3> QED BY <1>f, <2>1, <3>1, <3>2, <3>3
    <2> QED BY <2>2, <2>3
  <1>2. CASE ReadEvents(p)
    <2>1. /\ d.at = "events" /\ UNCHANGED <<manifest, log, cut>> /\ d.op \in {"get", "append", "update"}
          /\ ~Half(d)
      BY <1>2, <1>c DEF ReadEvents, Waits, files, StepsOf, Half
    <2>2. \/ \E e \in {"corrupt", "readonly"} : FailWith(p, e)
          \/ d.op = "get" /\ io' = [io EXCEPT ![p].at = "done", ![p].base = log[s]]
          \/ d.op = "append" /\ Proceed(p, "sequence")
          \/ d.op = "update" /\ Proceed(p, "stageManifest")
      BY <1>2, <2>1 DEF ReadEvents
    <2>3. CASE \E e \in {"corrupt", "readonly"} : FailWith(p, e)
      BY <1>e, <2>1, <2>3
    <2>4. CASE d.op = "get" /\ io' = [io EXCEPT ![p].at = "done", ![p].base = log[s]]
      <3> DEFINE c == [d EXCEPT !.at = "done", !.base = log[s]]
      <3>1. io' = [io EXCEPT ![p] = c]
        BY <1>0, <2>4
      <3>2. SameCall(d, c) /\ c.session = s /\ c.at = "done"
        BY <1>c DEF SameCall, Calls
      <3> HIDE DEF c
      <3>3. Quiet(d, c)
        BY <2>1, <2>4, <3>2 DEF Quiet, SameCall, Appending, Appended
      <3> QED BY <1>f, <2>1, <3>1, <3>2, <3>3
    <2>5. ASSUME NEW at \in {"sequence", "stageManifest"}, Proceed(p, at),
                 d.op = IF at = "sequence" THEN "append" ELSE "update"
          PROVE  \E c : Ok(c)
      <3>1. PICK c : Going(c) /\ c.at = at
        BY <1>d, <2>5 DEF Steps
      <3>2. Quiet(d, c)
        BY <2>1, <2>5, <3>1 DEF Quiet, SameCall, Appending, Appended
      <3> QED BY <1>f, <2>1, <3>1, <3>2
    <2> QED BY <2>2, <2>3, <2>4, <2>5
  <1>3. CASE CheckSequence(p)
    <2>1. d.at = "sequence" /\ UNCHANGED <<manifest, log, cut>> /\ d.op = "append" /\ ~Half(d)
      BY <1>3, <1>c DEF CheckSequence, Waits, files, StepsOf, Half
    <2>2. CASE Proceed(p, "base")
      <3>1. PICK c : Going(c) /\ c.at = "base"
        BY <1>d, <2>2 DEF Steps
      <3>2. Quiet(d, c)
        BY <2>1, <3>1 DEF Quiet, SameCall, Appending, Appended
      <3> QED BY <1>f, <2>1, <3>1, <3>2
    <2>3. CASE FailWith(p, "unavailable")
      BY <1>e, <2>1, <2>3
    <2> QED BY <1>3, <2>2, <2>3 DEF CheckSequence
  <1>4. CASE ReadBase(p)
    <2> DEFINE c == [d EXCEPT !.at = "stageLog", !.base = log[s]]
    <2>1. d.at = "base" /\ UNCHANGED <<manifest, log, cut>> /\ d.op = "append"
      BY <1>4, <1>c DEF ReadBase, Waits, files, StepsOf
    <2>2. io' = [io EXCEPT ![p] = c]
      BY <1>0, <1>4 DEF ReadBase
    <2>3. SameCall(d, c) /\ c.session = s /\ c.at = "stageLog"
      BY <1>c DEF SameCall, Calls
    <2> HIDE DEF c
    <2>4. Quiet(d, c)
      BY <2>1, <2>3 DEF Quiet, SameCall, Appending, Appended
    <2> QED BY <1>f, <2>1, <2>2, <2>3, <2>4
  <1>5. CASE StageLog(p)
    <2>1. d.at = "stageLog" /\ UNCHANGED <<manifest, log, cut>> /\ d.op = "append"
      BY <1>5, <1>c DEF StageLog, Waits, StepsOf
    <2>2. PICK c : Going(c) /\ c.at = "moveLog"
      BY <1>5, <1>d DEF StageLog, Steps
    <2>3. Quiet(d, c)
      BY <2>1, <2>2 DEF Quiet, SameCall, Appending, Appended
    <2> QED BY <1>f, <2>1, <2>2, <2>3
  <1>6. CASE MoveLog(p)
    <2>1. d.at = "moveLog" /\ UNCHANGED <<manifest, cut>> /\ d.op = "append" /\ ~Half(d)
      BY <1>6, <1>c DEF MoveLog, Waits, StepsOf, Half
    <2>2. CASE FailWith(p, "unavailable") /\ UNCHANGED log
      BY <1>e, <2>1, <2>2
    <2>3. CASE log' = [log EXCEPT ![s] = staged[s].log] /\ Proceed(p, "stageManifest")
      <3>1. PICK c : Going(c) /\ c.at = "stageManifest"
        BY <1>d, <2>3 DEF Steps
      <3>2. staged[s].log = Append(log[s], d.event)
        BY <1>c, <2>1 DEF Current
      <3> QED BY <1>g, <2>1, <2>3, <3>1, <3>2
    <2> QED BY <1>6, <2>2, <2>3 DEF MoveLog
  <1>7. CASE StageManifest(p)
    <2>1. d.at = "stageManifest" /\ UNCHANGED <<manifest, log, cut>>
      BY <1>7 DEF StageManifest, Waits
    <2>2. PICK c : Going(c) /\ c.at = "moveManifest"
      BY <1>7, <1>d DEF StageManifest, Steps
    <2>3. Quiet(d, c)
      BY <2>1, <2>2 DEF Quiet, SameCall, Appending, Appended
    <2> QED BY <1>f, <2>1, <2>2, <2>3
  <1>8. CASE MoveManifest(p)
    <2>1. d.at = "moveManifest" /\ UNCHANGED <<log, cut>>
      BY <1>8 DEF MoveManifest, Waits
    <2>2. staged[s].manifest = NewManifest(d) /\ d.op \in {"create", "append", "update"}
      BY <1>c, <2>1 DEF Current, StepsOf
    <2>3. NewManifest(d) \in Manifests
      BY <1>b, <2>1, <2>2, NewManifestFits DEF CallerKnows, CallFits
    <2>4. staged[s].manifest # None
      BY <2>2, <2>3, NoneAssumption
    <2>5. manifest' = [manifest EXCEPT ![s] = NewManifest(d)] /\ Proceed(p, "done")
      BY <1>8, <2>2, <2>4 DEF MoveManifest
    <2>6. PICK c : Going(c) /\ c.at = "done"
      BY <1>d, <2>5 DEF Steps
    <2> QED BY <1>h, <2>1, <2>2, <2>5, <2>6
  <1>9. CASE AccessFails(p)
    <2>1. cut.event \subseteq cut'.event /\ (Half(d) => s \in cut'.event)
      BY <1>0, <1>9 DEF AccessFails, HalfAppended, Half
    <2> QED BY <1>9, <1>e, <2>1 DEF AccessFails
  <1> QED BY <1>1, <1>2, <1>3, <1>4, <1>5, <1>6, <1>7, <1>8, <1>9 DEF Access

\* What is known of the Run whose call is under way.
LEMMA CallingRun ==
    ASSUME Record, Writer, NEW r \in Runs, io[r].op # "none"
    PROVE  /\ run[r] \in RunRecords /\ io[r] \in Calls /\ RunFits(run[r], io[r], manifest)
           /\ CallFits(io[r], manifest) /\ r \in Processes
           /\ run[r].session = io[r].session /\ io[r].session \in Sessions
           /\ ~run[r].rejected /\ r \in Settling
           /\ \A q \in Runs \ {r} : ~Tracked(run[q], io[q]) /\ io[q].op = "none"
           /\ io[Recovery].op = "none" /\ recovery.kind = "none"
           /\ io[r].op \in {"append", "update"} =>
                 /\ run[r].phase \in {"greeting", "running"}
                 /\ io[r].at # "failed" =>
                       \E w \in Seq(Events) :
                           Told(r, run[r], io[r], log[io[r].session], manifest[io[r].session].status,
                                Fine(io[r].session), w)
  <1>1. /\ run[r] \in RunRecords /\ io[r] \in Calls /\ RunFits(run[r], io[r], manifest)
        /\ CallFits(io[r], manifest) /\ r \in Processes
    BY RunFactsHold DEF Writer, RunFacts
  <1>2. run[r].session = io[r].session /\ io[r].session \in Sessions
    BY <1>1 DEF RunFits, CallFits
  <1>3. ~run[r].rejected
    BY DEF Record, RunKept, Silenced
  <1>4. r \in Settling
    BY <1>1 DEF RunFits, OpsOf, Settling
  <1>5. recovery.kind = "none"
    BY <1>4 DEF Writer, OneWriter
  <1>6. \A q \in Runs \ {r} : ~Tracked(run[q], io[q])
    BY <1>4, TrackedSettles DEF Writer, OneWriter
  <1>7. (\A q \in Runs \ {r} : io[q].op = "none") /\ io[Recovery].op = "none"
    BY <1>1, SoleCaller, StoreAssumption DEF Writer, Processes
  <1>8. ASSUME io[r].op \in {"append", "update"}
        PROVE  run[r].phase \in {"greeting", "running"}
    BY <1>1, <1>8 DEF RunFits, OpsOf, RunRecords
  <1>9. ASSUME io[r].op \in {"append", "update"}, io[r].at # "failed"
        PROVE  \E w \in Seq(Events) :
                  Told(r, run[r], io[r], log[io[r].session], manifest[io[r].session].status,
                       Fine(io[r].session), w)
    <2>1. Tracked(run[r], io[r]) /\ RunTold(r)
      BY <1>3, <1>8, <1>9 DEF Tracked, Record, RunKept
    <2> QED BY <1>2, <2>1 DEF RunTold
  <1> QED BY <1>1, <1>2, <1>3, <1>4, <1>5, <1>6, <1>7, <1>8, <1>9

\* An access of a Run that moves no file.
LEMMA RunAccessFrame ==
    ASSUME Record, Writer, OneWriter', NEW r \in Runs, NEW c,
           io[r].op # "none", io' = [io EXCEPT ![r] = c], SameCall(io[r], c),
           c.session = io[r].session, UNCHANGED <<run, recovery, manifest, log>>,
           cut'.begin = cut.begin, cut.event \subseteq cut'.event,
           \/ Quiet(io[r], c)
           \/ /\ c.at = "failed" /\ io[r].at \notin {"done", "failed"}
              /\ Half(io[r]) => io[r].session \in cut'.event
    PROVE  Record'
  <1> DEFINE d == io[r]
             x == run[r]
             s == d.session
  <1>1. /\ x \in RunRecords /\ s \in Sessions /\ x.session = s /\ ~x.rejected
        /\ RunFits(x, d, manifest)
    BY CallingRun
  <1>2. run' = [run EXCEPT ![r] = x]
    BY DEF Writer, Typed, TypeOK
  <1>3. RunKept(r)
    BY DEF Record
  <1>4. Silenced(x, c)
    BY <1>1 DEF Silenced
  <1>5. RecordedIn(r, x, log[x.session], manifest[x.session].status)
    BY <1>3 DEF RunKept
  <1>6. Begun(d) => Begun(c) \/ s \in cut'.event
    <2>1. CASE Quiet(d, c)
      BY <2>1 DEF Quiet, SameCall, Begun, Appended
    <2>2. CASE /\ c.at = "failed" /\ d.at \notin {"done", "failed"}
               /\ Half(d) => s \in cut'.event
      BY <2>2 DEF SameCall, Begun, Half
    <2> QED BY <2>1, <2>2
  <1>7. ASSUME Tracked(x, c)
        PROVE  \E w \in Seq(Events) :
                  Told(r, x, c, log[x.session], manifest[x.session].status, Fine(x.session) /\ Sound(x), w)
    <2>1. Quiet(d, c) /\ Tracked(x, d)
      BY <1>7 DEF Quiet, Tracked
    <2>2. PICK w \in Seq(Events) : Told(r, x, d, log[s], manifest[s].status, Fine(s), w)
      BY <1>1, <1>3, <2>1 DEF RunKept, RunTold
    <2>3. Plan(x, c, log[s], manifest[s].status, w)
      BY <2>1, <2>2, PlanQuiet DEF Told, Quiet
    <2>4. Stated(d, log[s], manifest[s].status) => Stated(c, log[s], manifest[s].status)
      BY <2>1, StatedQuiet DEF Quiet, SameCall
    <2>5. Told(r, x, c, log[s], manifest[s].status, Fine(s) /\ Sound(x), w)
      BY <2>2, <2>3, <2>4 DEF Told
    <2> QED BY <1>1, <2>5
  <1> HIDE DEF x
  <1>8. /\ x.session = run[r].session /\ x.rejected = run[r].rejected /\ x.initial = run[r].initial
        /\ x.phase = run[r].phase
    BY DEF x
  <1> QED BY <1>1, <1>2, <1>4, <1>5, <1>6, <1>7, <1>8, RecordFrame

\* An event of a Run is in the log.
LEMMA RunAccessWritten ==
    ASSUME Record, Writer, NEW r \in Runs, NEW c, NEW s, io[r].session = s,
           io[r].op = "append", io[r].at = "moveLog", c.at = "stageManifest",
           io' = [io EXCEPT ![r] = c], SameCall(io[r], c), c.session = s,
           log' = [log EXCEPT ![s] = Append(log[s], io[r].event)],
           UNCHANGED <<run, recovery, manifest, cut>>
    PROVE  Record'
  <1> DEFINE d == io[r]
             x == run[r]
             e == d.event
             l == log[s]
             n == Append(l, e)
             m == manifest[s]
  <1>1. /\ x \in RunRecords /\ d \in Calls /\ s \in Sessions /\ x.session = s /\ ~x.rejected
        /\ RunFits(x, d, manifest) /\ CallFits(d, manifest) /\ r \in Processes
        /\ x.phase \in {"greeting", "running"}
        /\ \A q \in Runs \ {r} : ~Tracked(run[q], io[q])
        /\ io[Recovery].op = "none" /\ recovery.kind = "none"
    BY CallingRun
  <1>2. PICK w \in Seq(Events) : Told(r, x, d, l, m.status, Fine(s), w)
    BY CallingRun
  <1>3. e \in Events /\ l \in Seq(Events) /\ n \in Seq(Events)
    BY <1>1 DEF CallFits, Writer, Typed, TypeOK
  <1>4. e.run = r /\ e.to # "interrupted"
    <2>1. x.phase = "greeting" => x.queue = <<>> /\ x.emitted = 0
      BY <1>1 DEF RunFits
    <2>2. Appending(d)
      BY DEF Appending
    <2> QED BY <1>1, <1>2, <1>3, <2>1, <2>2, OwnEvent
  <1>5. Plan(x, d, l, m.status, w) /\ x.seq - x.emitted \in Int
    BY <1>1, <1>2, StoreAssumption DEF Told, RunRecords
  <1>6. Plan(x, c, n, m.status, w)
    BY <1>3, <1>5, PlanWritten
  <1>7. Begins(n, w)
    BY <1>6 DEF Plan
  <1>8. Reads(w) /\ Stated(d, l, m.status) => Stated(c, n, m.status)
    BY <1>3, <1>4, <1>7, StatedWritten
  <1>9. Told(r, x, c, n, m.status, Fine(s), w)
    BY <1>2, <1>6, <1>8 DEF Told
  <1>10. Fine(s) => Rests(n, m.status, s \in cut.event, BegunAt(s)')
    <2>1. io'[r] = c
      BY <1>1 DEF Writer, Typed, TypeOK
    <2>2. Begun(c) => BegunAt(s)'
      BY <2>1 DEF BegunAt
    <2> QED BY <1>9, <2>2, ToldRests DEF Told
  <1>11. ASSUME NEW q \in Runs, run[q].session = s
         PROVE  RecordedIn(q, run[q], n, m.status)
    <2>1. CASE q = r
      BY <1>1, <2>1 DEF RecordedIn
    <2>2. CASE q # r
      <3>1. RecordedIn(q, run[q], l, m.status) /\ run[q] \in RunRecords
        BY <1>11 DEF Record, RunKept, Writer, Typed, TypeOK
      <3> QED BY <1>3, <1>4, <2>2, <3>1, RecordedAppend
    <2> QED BY <2>1, <2>2
  <1>12. ASSUME NEW q \in Runs, run[q].phase \in Early, NEW k \in DOMAIN n
         PROVE  n[k].run # q
    <2>1. q # r
      BY <1>1, <1>12 DEF Early
    <2>2. \A i \in DOMAIN l : l[i].run # q
      BY <1>1, <1>12 DEF Record, RunKept, Unheard
    <2> QED BY <1>3, <1>4, <2>1, <2>2
  <1>13. MarksOnlyOpen'
    BY <1>1, StoreAssumption DEF MarksOnlyOpen, Writer, Typed, TypeOK
  <1>14. manifest' = [manifest EXCEPT ![s] = m] /\ log' = [log EXCEPT ![s] = n]
    BY DEF Writer, Typed, TypeOK
  <1>15. /\ io[r].session = s /\ c.session = s /\ run[r].session = s
         /\ \E v \in Seq(Events) : Told(r, run[r], c, n, m.status, Fine(s), v)
    BY <1>1, <1>9
  <1>16. \A q \in Runs \ {r} : ~Tracked(run[q], io[q])
    BY <1>1
  <1> HIDE DEF m, n, l, e, d, x
  <1> QED BY <1>1, <1>10, <1>11, <1>12, <1>13, <1>14, <1>15, <1>16, RecordFiles

\* What is written over a manifest changes its status only where it says so.
LEMMA NewStatus ==
    ASSUME NEW p, NEW d, NEW s, CallerKnows(p, d, s), d.at = "moveManifest",
           d.op \in {"create", "append", "update"}
    PROVE  NewManifest(d).status =
              CASE d.op = "create" -> "idle"
                [] d.op = "update" -> d.status
                [] OTHER -> manifest[s].status
  <1>1. d \in Calls /\ manifest[s] \in Manifests /\ d.manifest \in Manifests
    BY DEF CallerKnows, Calls
  <1>2. d.op # "create" => d.manifest = manifest[s]
    BY DEF CallerKnows, Current, Steps
  <1>3. CASE d.op = "create"
    BY <1>3 DEF NewManifest
  <1>4. CASE d.op = "append"
    BY <1>1, <1>2, <1>4 DEF NewManifest, Manifests
  <1>5. CASE d.op = "update"
    BY <1>1, <1>2, <1>5 DEF NewManifest, Manifests
  <1> QED BY <1>3, <1>4, <1>5

\* A Run has its event or its status in the manifest.
LEMMA RunAccessStated ==
    ASSUME Record, Writer, NEW r \in Runs, NEW c, NEW s, CallerKnows(r, io[r], s),
           io[r].op \in {"append", "update"}, io[r].at = "moveManifest", c.at = "done",
           io' = [io EXCEPT ![r] = c], SameCall(io[r], c), c.session = s,
           manifest' = [manifest EXCEPT ![s] = NewManifest(io[r])],
           UNCHANGED <<run, recovery, log, cut>>
    PROVE  Record'
  <1> DEFINE d == io[r]
             x == run[r]
             l == log[s]
             st == manifest[s].status
             m == NewManifest(d)
  <1>0. s = d.session /\ s \in Sessions /\ l \in Seq(Events)
    BY DEF CallerKnows
  <1>1. /\ x \in RunRecords /\ x.session = s /\ ~x.rejected
        /\ RunFits(x, d, manifest) /\ r \in Processes
        /\ x.phase \in {"greeting", "running"}
        /\ \A q \in Runs \ {r} : ~Tracked(run[q], io[q])
        /\ io[Recovery].op = "none" /\ recovery.kind = "none"
    BY <1>0, CallingRun
  <1>2. PICK w \in Seq(Events) : Told(r, x, d, l, st, Fine(s), w)
    BY <1>0, CallingRun
  <1>3. m.status = IF d.op = "update" THEN d.status ELSE st
    BY NewStatus
  <1>4. Plan(x, c, l, m.status, w)
    BY <1>2, <1>3, PlanStated DEF Told
  <1>5. Plan(x, d, l, st, w) /\ (Stated(d, l, st) => Stated(c, l, m.status))
    BY <1>0, <1>2, <1>3, StatedDone DEF Told
  <1>6. Told(r, x, c, l, m.status, Fine(s), w)
    BY <1>2, <1>4, <1>5 DEF Told
  <1>7. Fine(s) => Rests(l, m.status, s \in cut.event, BegunAt(s)')
    <2>1. io'[r] = c
      BY <1>1 DEF Writer, Typed, TypeOK
    <2>2. Begun(c) => BegunAt(s)'
      BY <2>1 DEF BegunAt
    <2> QED BY <1>6, <2>2, ToldRests DEF Told
  <1>8. ASSUME NEW q \in Runs, run[q].session = s
        PROVE  RecordedIn(q, run[q], l, m.status)
    <2>1. CASE q = r
      BY <1>1, <2>1 DEF RecordedIn
    <2>2. RecordedIn(q, run[q], l, st) /\ run[q] \in RunRecords
      BY <1>8 DEF Record, RunKept, Writer, Typed, TypeOK
    <2>3. CASE d.op = "append"
      BY <1>3, <2>2, <2>3
    <2>4. CASE q # r /\ d.op = "update"
      <3>1. x.phase = "running" /\ (x.phase = "greeting" => x.queue = <<>> /\ x.emitted = 0)
        BY <1>1, <2>4 DEF RunFits, OpsOf
      <3>2. Len(l) > 0 /\ l[Len(l)].type = "status" /\ l[Len(l)].run = r
        BY <1>0, <1>1, <1>2, <2>4, <3>1, OwnEvent
      <3> QED BY <1>0, <2>2, <2>4, <3>2, RecordedOther
    <2> QED BY <2>1, <2>3, <2>4
  <1>9. ASSUME NEW q \in Runs, run[q].phase \in Early, NEW k \in DOMAIN l
        PROVE  l[k].run # q
    BY <1>0, <1>9 DEF Record, RunKept, Unheard
  <1>10. MarksOnlyOpen'
    BY <1>1, StoreAssumption DEF MarksOnlyOpen, Writer, Typed, TypeOK
  <1>11. manifest' = [manifest EXCEPT ![s] = m] /\ log' = [log EXCEPT ![s] = l]
    BY DEF Writer, Typed, TypeOK
  <1>12. /\ io[r].session = s /\ c.session = s /\ run[r].session = s
         /\ \E v \in Seq(Events) : Told(r, run[r], c, l, m.status, Fine(s), v)
    BY <1>0, <1>1, <1>6
  <1>13. \A q \in Runs \ {r} : ~Tracked(run[q], io[q])
    BY <1>1
  <1> HIDE DEF m, l, st, d, x
  <1> QED BY <1>0, <1>1, <1>7, <1>8, <1>9, <1>10, <1>11, <1>12, <1>13, RecordFiles

\* A Session is there; nothing was written to it before.
LEMMA RunAccessCreated ==
    ASSUME Record, Writer, NEW r \in Runs, NEW c, NEW s, CallerKnows(r, io[r], s),
           io[r].op = "create", io[r].at = "moveManifest", c.at = "done",
           io' = [io EXCEPT ![r] = c], SameCall(io[r], c), c.session = s,
           manifest' = [manifest EXCEPT ![s] = NewManifest(io[r])],
           UNCHANGED <<run, recovery, log, cut>>
    PROVE  Record'
  <1> DEFINE d == io[r]
             l == log[s]
             m == NewManifest(d)
  <1>0. s = d.session /\ s \in Sessions /\ l \in Seq(Events)
    BY DEF CallerKnows
  <1>1. /\ RunFits(run[r], d, manifest) /\ r \in Processes
        /\ \A q \in Runs \ {r} : ~Tracked(run[q], io[q])
        /\ io[Recovery].op = "none" /\ recovery.kind = "none"
    BY <1>0, CallingRun
  <1>2. ~Tracked(run[r], c)
    BY <1>1 DEF RunFits, OpsOf, Tracked
  <1>3. l = <<>> /\ manifest[s] = NoManifest
    BY <1>0 DEF CallerKnows, Current, Agree, NoManifest
  <1>4. m.status = "idle"
    BY NewStatus
  <1>5. Fine(s) => Rests(l, m.status, s \in cut.event, BegunAt(s)')
    <2>1. Fine(s) => Reads(l)
      BY <1>0 DEF Record, AtRest, Rests
    <2>2. LastTo(l) = "idle"
      BY <1>3 DEF LastTo, At
    <2> QED BY <1>4, <2>1, <2>2 DEF Rests
  <1>6. ASSUME NEW q \in Runs, run[q].session = s
        PROVE  RecordedIn(q, run[q], l, m.status)
    <2>1. RecordedIn(q, run[q], l, manifest[s].status) /\ run[q] \in RunRecords
      BY <1>6 DEF Record, RunKept, Writer, Typed, TypeOK
    <2>2. run[q].seq \in Nat /\ run[q].emitted \in Nat
      BY <2>1, StoreAssumption DEF RunRecords
    <2>3. Len(l) = 0
      BY <1>3
    <2> QED BY <2>1, <2>2, <2>3 DEF RecordedIn
  <1>7. ASSUME NEW q \in Runs, run[q].phase \in Early, NEW k \in DOMAIN l
        PROVE  l[k].run # q
    BY <1>0, <1>7 DEF Record, RunKept, Unheard
  <1>8. MarksOnlyOpen'
    BY <1>1, StoreAssumption DEF MarksOnlyOpen, Writer, Typed, TypeOK
  <1>9. manifest' = [manifest EXCEPT ![s] = m] /\ log' = [log EXCEPT ![s] = l]
    BY DEF Writer, Typed, TypeOK
  <1>10. io[r].session = s
    BY <1>0
  <1>11. \A q \in Runs \ {r} : ~Tracked(run[q], io[q])
    BY <1>1
  <1> HIDE DEF m, l, d
  <1> QED BY <1>0, <1>1, <1>2, <1>5, <1>6, <1>7, <1>8, <1>9, <1>10, <1>11, RecordFiles

\* The recovery has its mark in a manifest that said nothing of an end.
LEMMA RecoveryAccessStated ==
    ASSUME Record, Writer, NEW c, NEW s, CallerKnows(Recovery, io[Recovery], s),
           io[Recovery].op \in {"create", "append", "update"},
           io[Recovery].at = "moveManifest", c.at = "done",
           io' = [io EXCEPT ![Recovery] = c], SameCall(io[Recovery], c), c.session = s,
           manifest' = [manifest EXCEPT ![s] = NewManifest(io[Recovery])],
           UNCHANGED <<run, recovery, log, cut>>
    PROVE  Record'
  <1> DEFINE d == io[Recovery]
             l == log[s]
             m == NewManifest(d)
  <1>0. s = d.session /\ s \in Sessions /\ l \in Seq(Events)
    BY DEF CallerKnows
  <1>1. /\ d.op = "update" /\ d.status = "interrupted" /\ recovery.kind # "none" /\ Settling = {}
        /\ Recovery \in Processes /\ Recovery \notin Runs
    BY StoreAssumption DEF Writer, Typed, RecoveryFits, TypeOK, RecoveryRecords, OneWriter, Processes, NoCall
  <1>2. \A q \in Runs : ~Tracked(run[q], io[q])
    BY <1>1, TrackedSettles
  <1>3. m.status = "interrupted" /\ m.status \in Marked
    BY <1>1, NewStatus DEF Marked
  <1>4. manifest[s].status \in Marked
    BY <1>0, <1>1 DEF Record, MarksOnlyOpen
  <1>5. Fine(s) => Rests(l, m.status, s \in cut.event, BegunAt(s)')
    <2>1. Fine(s) => Reads(l)
      BY <1>0 DEF Record, AtRest, Rests
    <2> QED BY <1>3, <2>1 DEF Rests
  <1>6. ASSUME NEW q \in Runs, run[q].session = s
        PROVE  RecordedIn(q, run[q], l, m.status)
    <2>1. RecordedIn(q, run[q], l, manifest[s].status)
      BY <1>6 DEF Record, RunKept
    <2>2. \A o \in Lifecycle!TerminalStatuses : o \notin Marked
      BY DEF Marked, Recoverable, Lifecycle!ActiveStatuses, Lifecycle!TerminalStatuses
    <2> QED BY <1>4, <2>1, <2>2 DEF RecordedIn
  <1>7. ASSUME NEW q \in Runs, run[q].phase \in Early, NEW k \in DOMAIN l
        PROVE  l[k].run # q
    BY <1>0, <1>7 DEF Record, RunKept, Unheard
  <1>8. MarksOnlyOpen'
    <2>1. /\ manifest'[s] = m /\ \A t \in Sessions \ {s} : manifest'[t] = manifest[t]
          /\ io'[Recovery] = c /\ recovery.todo \subseteq Sessions
      BY <1>0, <1>1 DEF Writer, Typed, TypeOK, RecoveryRecords
    <2> QED BY <1>3, <2>1 DEF Record, MarksOnlyOpen
  <1>9. manifest' = [manifest EXCEPT ![s] = m] /\ log' = [log EXCEPT ![s] = l]
    BY DEF Writer, Typed, TypeOK
  <1>10. io[Recovery].session = s
    BY <1>0
  <1> HIDE DEF m, l, d
  <1> QED BY <1>0, <1>1, <1>2, <1>5, <1>6, <1>7, <1>8, <1>9, <1>10, RecordFiles

LEMMA RecordAccess ==
    ASSUME Record, Writer, OneWriter', NEW p \in Processes, Access(p)
    PROVE  Record'
  <1> DEFINE d == io[p]
             s == d.session
  <1>1. UNCHANGED <<run, recovery>> /\ cut'.begin = cut.begin /\ CallerKnows(p, d, s)
    BY AccessEffects
  <1>2. PICK c : /\ io' = [io EXCEPT ![p] = c] /\ SameCall(d, c) /\ c.session = s
                 /\ \/ Quiet(d, c) /\ UNCHANGED <<manifest, log, cut>>
                    \/ /\ c.at = "failed" /\ d.at \notin {"done", "failed", "idle"}
                       /\ cut.event \subseteq cut'.event
                       /\ Half(d) => s \in cut'.event
                       /\ UNCHANGED <<manifest, log>>
                    \/ /\ d.op = "append" /\ d.at = "moveLog" /\ c.at = "stageManifest"
                       /\ log' = [log EXCEPT ![s] = Append(log[s], d.event)]
                       /\ UNCHANGED <<manifest, cut>>
                    \/ /\ d.op \in {"create", "append", "update"}
                       /\ d.at = "moveManifest" /\ c.at = "done"
                       /\ manifest' = [manifest EXCEPT ![s] = NewManifest(d)]
                       /\ UNCHANGED <<log, cut>>
    BY AccessEffects
  <1>3. s \in Sessions /\ d.op # "none"
    BY <1>1 DEF CallerKnows
  <1>4. CASE p \in Runs
    <2>1. CASE Quiet(d, c) /\ UNCHANGED <<manifest, log, cut>>
      BY <1>1, <1>2, <1>3, <1>4, <2>1, RunAccessFrame
    <2>2. CASE /\ c.at = "failed" /\ d.at \notin {"done", "failed", "idle"}
               /\ cut.event \subseteq cut'.event
               /\ Half(d) => s \in cut'.event
               /\ UNCHANGED <<manifest, log>>
      BY <1>1, <1>2, <1>3, <1>4, <2>2, RunAccessFrame
    <2>3. CASE /\ d.op = "append" /\ d.at = "moveLog" /\ c.at = "stageManifest"
               /\ log' = [log EXCEPT ![s] = Append(log[s], d.event)]
               /\ UNCHANGED <<manifest, cut>>
      BY <1>1, <1>2, <1>3, <1>4, <2>3, RunAccessWritten
    <2>4. CASE /\ d.op \in {"create", "append", "update"}
               /\ d.at = "moveManifest" /\ c.at = "done"
               /\ manifest' = [manifest EXCEPT ![s] = NewManifest(d)]
               /\ UNCHANGED <<log, cut>>
      BY <1>1, <1>2, <1>3, <1>4, <2>4, RunAccessStated, RunAccessCreated
    <2> QED BY <1>2, <2>1, <2>2, <2>3, <2>4
  <1>5. CASE p = Recovery
    <2>1. d.op # "append"
      BY <1>5 DEF Writer, Typed, RecoveryFits, TypeOK, RecoveryRecords, NoCall
    <2>2. CASE /\ d.op \in {"create", "append", "update"}
               /\ d.at = "moveManifest" /\ c.at = "done"
               /\ manifest' = [manifest EXCEPT ![s] = NewManifest(d)]
               /\ UNCHANGED <<log, cut>>
      BY <1>1, <1>2, <1>5, <2>2, RecoveryAccessStated
    <2>3. CASE cut.event \subseteq cut'.event /\ UNCHANGED <<manifest, log>>
      <3>1. io'[Recovery].op = d.op /\ io'[Recovery].session = s
        BY <1>2, <1>5 DEF SameCall, Writer, Typed, TypeOK
      <3>2. MarksOnlyOpen'
        BY <1>1, <1>5, <2>3, <3>1 DEF Record, MarksOnlyOpen
      <3> QED BY <1>1, <1>2, <1>5, <2>3, <3>2, RecordRecovery
    <2> QED BY <1>2, <2>1, <2>2, <2>3
  <1> QED BY <1>4, <1>5 DEF Processes

-----------------------------------------------------------------------------
\* The steps of a Run.

\* What was written last by a Run: a status, if it has a status.
LEMMA WrittenEvent ==
    ASSUME NEW r, NEW x \in RunRecords, NEW c, NEW l \in Seq(Events), NEW st, NEW w, NEW fine,
           Told(r, x, c, l, st, fine, w), x.phase \in {"greeting", "running"},
           x.phase = "greeting" => x.queue = <<>> /\ x.emitted = 0, Appended(c)
    PROVE  /\ c.event.to # "none" => c.event.type = "status"
           /\ x.phase = "greeting" => x.seq = Len(l)
  <1> DEFINE first == x.seq - x.emitted
             n == Len(l)
  <1>1. /\ Plan(x, c, l, st, w) /\ Story(r, x, w) /\ Begins(l, w)
    BY DEF Told, Plan
  <1>2. /\ n \in Nat /\ Len(w) \in Nat /\ x.seq \in Nat /\ x.emitted \in Nat /\ first \in Int
        /\ n <= Len(w) /\ n > 0 /\ c.event = w[n] /\ Len(w) = x.seq
    BY <1>1, StoreAssumption DEF Begins, RunRecords, Plan, Story
  <1>3. first <= n /\ (x.phase = "greeting" => x.seq = n)
    <2>1. CASE x.phase = "running"
      BY <1>1, <2>1 DEF Plan
    <2>2. CASE x.phase = "greeting"
      <3>1. \A k \in n + 1 .. Len(w) : FALSE
        BY <1>1, <2>2 DEF Plan, QueueFits, Written, Appending, Appended
      <3> QED BY <1>2, <2>2, <3>1
    <2> QED BY <2>1, <2>2
  <1>4. n \in 1 .. Len(w)
    BY <1>2
  <1>5. CASE n = first
    BY <1>1, <1>2, <1>3, <1>5 DEF Story
  <1>6. CASE n > first
    BY <1>1, <1>2, <1>3, <1>4, <1>6 DEF Story
  <1> QED BY <1>2, <1>3, <1>5, <1>6

\* A Run says one thing more.
LEMMA PlanMore ==
    ASSUME NEW x \in RunRecords, NEW y, NEW c, NEW l \in Seq(Events), NEW st, NEW w \in Seq(Events),
           NEW e \in Events, NEW s,
           Plan(x, c, l, st, w), Len(w) = x.seq, x.seq - x.emitted <= Len(l),
           y.seq = x.seq + 1, y.emitted = x.emitted + 1,
           e.type = "status" =>
               y.queue = x.queue \o <<AppendCall(s, x.seq + 1, e), UpdateCall(s, e.to)>>,
           e.type # "status" => y.queue = x.queue \o <<AppendCall(s, x.seq + 1, e)>>
    PROVE  Plan(y, c, l, st, Append(w, e))
  <1> DEFINE v == Append(w, e)
             q == x.queue
             p == y.queue
             n == Written(c, l)
             job == AppendCall(s, x.seq + 1, e)
             mark == UpdateCall(s, e.to)
  <1>1. /\ v \in Seq(Events) /\ Len(v) = Len(w) + 1 /\ v[Len(w) + 1] = e
        /\ \A k \in 1 .. Len(w) : v[k] = w[k]
        /\ Len(w) \in Nat /\ Len(l) \in Nat
    OBVIOUS
  <1>2. /\ x.seq \in Nat /\ x.emitted \in Nat /\ q \in Seq(Calls)
    BY StoreAssumption DEF RunRecords
  <1>3. /\ job.op = "append" /\ job.seq = Len(w) + 1 /\ job.event = e
        /\ mark.op = "update" /\ mark.status = e.to
    BY DEF AppendCall, UpdateCall, Call, NoCall
  <1> HIDE DEF job, mark, v
  <1>4. Len(q) \in Nat /\ DOMAIN q = 1 .. Len(q)
    BY <1>2
  <1>5. /\ \A i \in 1 .. Len(q) : p[i] = q[i]
        /\ p[Len(q) + 1] = job
        /\ IF e.type = "status"
           THEN DOMAIN p = 1 .. Len(q) + 2 /\ p[Len(q) + 2] = mark
           ELSE DOMAIN p = 1 .. Len(q) + 1
    <2> DEFINE T == Calls \union {job, mark}
    <2>1. q \in Seq(T) /\ <<job, mark>> \in Seq(T) /\ <<job>> \in Seq(T)
      BY <1>2
    <2> DEFINE two == <<job, mark>>
               one == <<job>>
    <2>2. Len(two) = 2 /\ two[1] = job /\ two[2] = mark /\ Len(one) = 1 /\ one[1] = job
      OBVIOUS
    <2>3. /\ e.type = "status" => p = q \o two
          /\ e.type # "status" => p = q \o one
      BY DEF job, mark, q
    <2>6. two \in Seq(T) /\ one \in Seq(T)
      BY <2>1
    <2> HIDE DEF T, q, two, one, p
    <2>4. CASE e.type = "status"
      <3>1. p = q \o two
        BY <2>3, <2>4
      <3>2. /\ p \in Seq(T) /\ Len(p) = Len(q) + 2
            /\ \A i \in 1 .. Len(q) + 2 : p[i] = IF i <= Len(q) THEN q[i] ELSE two[i - Len(q)]
        <4>1. /\ q \o two \in Seq(T) /\ Len(q \o two) = Len(q) + Len(two)
              /\ \A i \in 1 .. Len(q) + Len(two) :
                    (q \o two)[i] = IF i <= Len(q) THEN q[i] ELSE two[i - Len(q)]
          BY <2>1, <2>6, ConcatProperties
        <4> QED BY <2>2, <3>1, <4>1
      <3>3. DOMAIN p = 1 .. Len(q) + 2
        BY <3>2
      <3>4. p[Len(q) + 1] = job /\ p[Len(q) + 2] = mark /\ \A i \in 1 .. Len(q) : p[i] = q[i]
        <4>1. p[Len(q) + 1] = two[1]
          <5>1. /\ Len(q) + 1 \in 1 .. Len(q) + 2 /\ ~(Len(q) + 1 <= Len(q))
                /\ (Len(q) + 1) - Len(q) = 1
            BY <1>4
          <5> QED BY <3>2, <5>1
        <4>2. p[Len(q) + 2] = two[2]
          <5>1. /\ Len(q) + 2 \in 1 .. Len(q) + 2 /\ ~(Len(q) + 2 <= Len(q))
                /\ (Len(q) + 2) - Len(q) = 2
            BY <1>4
          <5> QED BY <3>2, <5>1
        <4> QED BY <1>4, <2>2, <3>2, <4>1, <4>2
      <3> QED BY <2>4, <3>3, <3>4
    <2>5. CASE e.type # "status"
      <3>1. p = q \o one
        BY <2>3, <2>5
      <3>2. /\ p \in Seq(T) /\ Len(p) = Len(q) + 1
            /\ \A i \in 1 .. Len(q) + 1 : p[i] = IF i <= Len(q) THEN q[i] ELSE one[i - Len(q)]
        <4>1. /\ q \o one \in Seq(T) /\ Len(q \o one) = Len(q) + Len(one)
              /\ \A i \in 1 .. Len(q) + Len(one) :
                    (q \o one)[i] = IF i <= Len(q) THEN q[i] ELSE one[i - Len(q)]
          BY <2>1, <2>6, ConcatProperties
        <4> QED BY <2>2, <3>1, <4>1
      <3>3. DOMAIN p = 1 .. Len(q) + 1
        BY <3>2
      <3>4. p[Len(q) + 1] = job /\ \A i \in 1 .. Len(q) : p[i] = q[i]
        BY <1>4, <2>2, <3>2
      <3> QED BY <2>5, <3>3, <3>4
    <2> QED BY <2>4, <2>5
  <1> HIDE DEF p, q
  <1>a. \A i \in DOMAIN p : i \in 1 .. Len(q) \/ i = Len(q) + 1 \/ i = Len(q) + 2
    <2>1. CASE e.type = "status"
      BY <1>4, <1>5, <2>1, SMTT(30)
    <2>2. CASE e.type # "status"
      BY <1>4, <1>5, <2>2
    <2> QED BY <2>1, <2>2
  <1>6. n \in Nat /\ n <= Len(w) /\ Len(l) <= Len(w) /\ QueueFits(q, c, n, w)
    BY <1>1 DEF Plan, Begins, Written, q
  <1>7. QueueFits(p, c, n, v)
    <2>1. ASSUME NEW i \in DOMAIN p, p[i].op = "append"
          PROVE  /\ p[i].seq \in n + 1 .. Len(v) /\ p[i].event = v[p[i].seq]
                 /\ p[i].event.type = "status" => i + 1 \in DOMAIN p /\ p[i + 1].op = "update"
                 /\ i \in 1 .. Len(q) => p[i].seq <= Len(w)
                 /\ i \notin 1 .. Len(q) => p[i].seq = Len(w) + 1
      <3>1. CASE i \in 1 .. Len(q)
        <4>1. /\ p[i].seq \in n + 1 .. Len(w) /\ p[i].event = w[p[i].seq]
              /\ p[i].event.type = "status" => i + 1 \in 1 .. Len(q) /\ q[i + 1].op = "update"
          <5>1. i \in DOMAIN q /\ q[i].op = "append" /\ p[i] = q[i]
            BY <1>4, <1>5, <2>1, <3>1
          <5> QED BY <1>4, <1>6, <5>1, SMTT(30) DEF QueueFits
        <4>2. p[i].seq \in 1 .. Len(w) /\ p[i].seq \in n + 1 .. Len(v)
          BY <1>1, <1>6, <4>1, SMTT(30)
        <4>3. p[i].event.type = "status" => i + 1 \in DOMAIN p /\ p[i + 1] = q[i + 1]
          BY <1>4, <1>5, <4>1, SMTT(30)
        <4> QED BY <1>1, <3>1, <4>1, <4>2, <4>3, SMTT(30)
      <3>2. CASE i = Len(q) + 1
        <4>1. p[i] = job /\ Len(w) + 1 \in n + 1 .. Len(v)
          BY <1>1, <1>5, <1>6, <3>2
        <4>2. e.type = "status" => i + 1 \in DOMAIN p /\ p[i + 1] = mark
          BY <1>4, <1>5, <3>2
        <4> QED BY <1>1, <1>3, <1>4, <3>2, <4>1, <4>2, SMTT(30)
      <3>3. CASE i = Len(q) + 2
        BY <1>3, <1>4, <1>5, <2>1, <3>3
      <3> QED BY <1>a, <3>1, <3>2, <3>3
    <2>2. ASSUME NEW i \in DOMAIN p, p[i].op = "update"
          PROVE  Says(IF i = 1 THEN c ELSE p[i - 1], p[i].status)
      <3>1. CASE i \in 1 .. Len(q)
        <4>1. Says(IF i = 1 THEN c ELSE q[i - 1], q[i].status)
          BY <1>4, <1>5, <1>6, <2>2, <3>1 DEF QueueFits
        <4>2. i # 1 => i - 1 \in 1 .. Len(q)
          BY <1>4, <3>1
        <4> QED BY <1>5, <3>1, <4>1, <4>2
      <3>2. CASE i = Len(q) + 1
        BY <1>3, <1>5, <2>2, <3>2
      <3>3. CASE i = Len(q) + 2
        <4>1. i # 1 /\ p[i - 1] = job /\ p[i].status = e.to /\ e.type = "status"
          BY <1>3, <1>4, <1>5, <3>3
        <4> QED BY <1>3, <4>1 DEF Says, IsStatus
      <3> QED BY <1>4, <1>5, <3>1, <3>2, <3>3, SMTT(30)
    <2>3. ASSUME NEW i \in DOMAIN p, NEW j \in DOMAIN p, i < j, p[i].op = "append", p[j].op = "append"
          PROVE  p[i].seq < p[j].seq
      <3>1. CASE j \in 1 .. Len(q)
        <4>0. i \in Nat /\ i >= 1
          <5>1. CASE e.type = "status"
            BY <1>4, <1>5, <5>1
          <5>2. CASE e.type # "status"
            BY <1>4, <1>5, <5>2
          <5> QED BY <5>1, <5>2
        <4>1. i \in 1 .. Len(q)
          BY <1>4, <2>3, <3>1, <4>0
        <4> QED BY <1>4, <1>5, <1>6, <2>3, <3>1, <4>1 DEF QueueFits
      <3>2. CASE j \notin 1 .. Len(q)
        <4>0. j \in Nat /\ (j = Len(q) + 1 \/ (j = Len(q) + 2 /\ p[j] = mark))
          <5>1. CASE e.type = "status"
            BY <1>4, <1>5, <2>3, <3>2, <5>1
          <5>2. CASE e.type # "status"
            BY <1>4, <1>5, <2>3, <3>2, <5>2
          <5> QED BY <5>1, <5>2
        <4>1. j = Len(q) + 1
          BY <1>3, <2>3, <4>0
        <4>2. i \in 1 .. Len(q)
          BY <1>4, <1>5, <2>3, <4>1, SMTT(30)
        <4>3. p[j].seq = Len(w) + 1 /\ p[i].seq <= Len(w) /\ p[i].seq \in n + 1 .. Len(v)
          BY <2>1, <2>3, <3>2, <4>2
        <4> QED BY <1>1, <1>6, <4>3
      <3> QED BY <3>1, <3>2
    <2>4. ASSUME NEW k \in n + 1 .. Len(v)
          PROVE  \E i \in DOMAIN p : p[i].op = "append" /\ p[i].seq = k
      <3>1. CASE k = Len(w) + 1
        <4>1. Len(q) + 1 \in DOMAIN p
          BY <1>4, <1>5
        <4> QED BY <1>3, <1>5, <3>1, <4>1
      <3>2. CASE k # Len(w) + 1
        <4>1. k \in n + 1 .. Len(w)
          BY <1>1, <1>6, <3>2
        <4>2. PICK i \in 1 .. Len(q) : q[i].op = "append" /\ q[i].seq = k
          BY <1>4, <1>6, <4>1 DEF QueueFits
        <4>3. i \in DOMAIN p /\ p[i] = q[i]
          BY <1>4, <1>5, SMTT(30)
        <4> QED BY <4>2, <4>3
      <3> QED BY <3>1, <3>2
    <2> QED BY <2>1, <2>2, <2>3, <2>4 DEF QueueFits
  <1>8. Begins(l, v)
    BY <1>1, <1>6 DEF Plan, Begins
  <1>9. /\ Appending(c) => c.seq = Len(l) + 1 /\ Len(l) < Len(v) /\ c.event = v[Len(l) + 1]
        /\ Appended(c) => c.seq = Len(l) /\ Len(l) > 0 /\ c.event = v[Len(l)]
        /\ c.op = "update" => /\ Len(l) > 0 /\ IsStatus(v[Len(l)], c.status)
                              /\ c.at = "done" => st = c.status
    <2>1. Len(l) < Len(w) => v[Len(l) + 1] = w[Len(l) + 1]
      <3>1. Len(l) < Len(w) => Len(l) + 1 \in 1 .. Len(w)
        BY <1>1
      <3> QED BY <1>1, <3>1
    <2>2. Len(l) > 0 => v[Len(l)] = w[Len(l)]
      BY <1>1, <1>6
    <2> QED BY <1>1, <1>6, <2>1, <2>2 DEF Plan
  <1>10. p # <<>>
    <2>1. Len(q) + 1 \in DOMAIN p
      BY <1>4, <1>5
    <2> QED BY <2>1
  <1>11. c.op = "append" /\ c.event.type = "status" => p[1].op = "update"
    <2> SUFFICES ASSUME c.op = "append", c.event.type = "status" PROVE p[1].op = "update"
      OBVIOUS
    <2>1. q # <<>> /\ q[1].op = "update"
      BY DEF Plan, q
    <2>2. 1 \in 1 .. Len(q)
      BY <1>2, <2>1 DEF q
    <2> QED BY <1>5, <2>1, <2>2
  <1>12. y.seq - y.emitted <= Len(l)
    BY <1>2
  <1> QED BY <1>7, <1>8, <1>9, <1>10, <1>11, <1>12 DEF Plan, p, v

\* What a Run tells goes on with what it reports.
LEMMA ToldMore ==
    ASSUME NEW r, NEW x \in RunRecords, NEW y, NEW c, NEW l \in Seq(Events), NEW st, NEW fine,
           NEW w \in Seq(Events), NEW e \in Events, NEW s,
           Told(r, x, c, l, st, fine, w), x.seq - x.emitted <= Len(l),
           y.phase = "running", y.seq = x.seq + 1, y.emitted = x.emitted + 1, y.status \in Lifecycle!Statuses,
           e.run = r, e.type # "user", e.to # "interrupted",
           e.type # "status" => /\ y.queue = x.queue \o <<AppendCall(s, x.seq + 1, e)>>
                                /\ e.to = "none" /\ y.status = x.status
                                /\ x.status \in Lifecycle!ActiveStatuses,
           e.type = "status" =>
               /\ y.queue = x.queue \o <<AppendCall(s, x.seq + 1, e), UpdateCall(s, e.to)>>
               /\ e.from = x.status /\ e.to = y.status
               /\ \/ x.status \in Lifecycle!ActiveStatuses /\ e.to \in Lifecycle!LegalNext(x.status)
                  \/ x.emitted = 0 /\ x.status \in Lifecycle!ResetStatuses /\ e.to = "preparing"
    PROVE  Told(r, y, c, l, st, fine, Append(w, e))
  <1> DEFINE v == Append(w, e)
             first == x.seq - x.emitted
  <1>1. Plan(x, c, l, st, w) /\ Story(r, x, w)
    BY DEF Told
  <1>2. Plan(y, c, l, st, v)
    BY <1>1, PlanMore DEF Story
  <1>3. /\ v \in Seq(Events) /\ Len(v) = Len(w) + 1 /\ v[Len(w) + 1] = e
        /\ \A k \in 1 .. Len(w) : v[k] = w[k]
        /\ Len(w) \in Nat /\ x.seq \in Nat /\ x.emitted \in Nat /\ first \in 1 .. Len(w)
        /\ Len(w) = x.seq /\ y.seq - y.emitted = first
    BY <1>1, StoreAssumption, SMTT(30) DEF RunRecords, Story
  <1> HIDE DEF v
  <1>4. \A k \in 1 .. Len(v) :
              /\ v[k].run = r <=> k >= first
              /\ k > first => v[k].type # "user" /\ v[k].to # "interrupted"
              /\ k > first /\ v[k].type # "status" => v[k].to = "none"
    <2> TAKE k \in 1 .. Len(v)
    <2>1. CASE k \in 1 .. Len(w)
      BY <1>1, <1>3, <2>1 DEF Story
    <2>2. CASE k = Len(w) + 1
      BY <1>3, <2>2
    <2> QED BY <1>3, <2>1, <2>2
  <1>5. w[first].type = "user" /\ w[first].to = "none" /\ v[first] = w[first] /\ first \in 1 .. Len(v)
    BY <1>1, <1>3, SMTT(30) DEF Story
  <1>6. y.status \notin Lifecycle!ActiveStatuses => IsStatus(v[Len(v)], y.status)
    BY <1>3 DEF IsStatus
  <1>7. Story(r, y, v)
    <2>1. Len(v) = y.seq /\ y.emitted > 0
      BY <1>3
    <2> QED BY <1>3, <1>4, <1>5, <1>6, <2>1 DEF Story
  <1>8. ASSUME fine
        PROVE  Reads(v) /\ LastTo(v) = y.status
    <2>1. Reads(w) /\ LastTo(w) = x.status
      BY <1>8 DEF Told
    <2>2. CASE e.type # "status"
      BY <2>1, <2>2, AppendPlain DEF v
    <2>3. CASE e.type = "status"
      <3>1. first \in At(w, "user")
        BY <1>3, <1>5 DEF At
      <3>2. e.to \in LoggedNext(e.from)
        <4>1. x.status \in Lifecycle!ActiveStatuses => x.status \notin Closing
          BY DEF Closing, Lifecycle!ActiveStatuses, Lifecycle!TerminalStatuses
        <4>2. x.status \in Lifecycle!ResetStatuses => "preparing" \in LoggedNext(x.status)
          BY DEF LoggedNext, Closing, Lifecycle!ResetStatuses, Lifecycle!TerminalStatuses, Lifecycle!LegalNext
        <4> QED BY <2>3, <4>1, <4>2 DEF LoggedNext
      <3>3. LastTo(w) \notin Closing \/ w[Len(w)].type = "user"
        <4>1. CASE x.emitted = 0
          BY <1>3, <1>5, <4>1
        <4>2. CASE x.status \in Lifecycle!ActiveStatuses
          BY <2>1, <4>2 DEF Closing, Lifecycle!ActiveStatuses, Lifecycle!TerminalStatuses
        <4> QED BY <2>3, <4>1, <4>2
      <3> QED BY <2>1, <2>3, <3>1, <3>2, <3>3, AppendStatus DEF v
    <2> QED BY <2>2, <2>3
  <1>9. fine => Stated(c, l, st)
    BY DEF Told
  <1>10. Told(r, y, c, l, st, fine, v)
    BY <1>2, <1>7, <1>8, <1>9 DEF Told
  <1> QED BY <1>10 DEF v

\* What a Run x becomes when it reports e in the Session s.
Reporting(x, y, s, e) ==
    /\ y.phase = "running" /\ y.session = s /\ y.rejected = x.rejected /\ y.initial = x.initial
    /\ y.seq = x.seq + 1 /\ y.emitted = x.emitted + 1 /\ y.status \in Lifecycle!Statuses
    /\ x.rejected => y.queue = <<>>
    /\ e.type # "user" /\ e.to # "interrupted"
    /\ e.type # "status" =>
          /\ ~x.rejected => y.queue = x.queue \o <<AppendCall(s, x.seq + 1, e)>>
          /\ e.to = "none" /\ y.status = x.status /\ x.status \in Lifecycle!ActiveStatuses
    /\ e.type = "status" =>
          /\ ~x.rejected => y.queue = x.queue \o <<AppendCall(s, x.seq + 1, e), UpdateCall(s, e.to)>>
          /\ e.from = x.status /\ e.to = y.status
          /\ \/ x.status \in Lifecycle!ActiveStatuses /\ e.to \in Lifecycle!LegalNext(x.status)
             \/ x.emitted = 0 /\ x.status \in Lifecycle!ResetStatuses /\ e.to = "preparing"

\* A report of a Run moves no file.
LEMMA ReportRecord ==
    ASSUME Record, Writer, OneWriter', NEW r \in Runs, NEW y, NEW c, NEW e \in Events,
           NEW s \in Sessions, run[r].session = s, run[r].phase \in {"greeting", "running"},
           run' = [run EXCEPT ![r] = y], io' = [io EXCEPT ![r] = c],
           UNCHANGED <<manifest, log, recovery, cut>>,
           e.run = r, Reporting(run[r], y, s, e),
           Begun(io[r]) => c = io[r],
           run[r].rejected => c.op = "none",
           ~run[r].rejected /\ c.at # "failed" =>
               /\ \E w \in Seq(Events) :
                     Told(r, run[r], c, log[s], manifest[s].status, Fine(s), w)
               /\ run[r].seq - run[r].emitted <= Len(log[s])
    PROVE  Record'
  <1>1. run[r] \in RunRecords /\ log[s] \in Seq(Events)
    BY DEF Writer, Typed, TypeOK
  <1>2. ASSUME Tracked(y, c)
        PROVE  \E w \in Seq(Events) :
                  Told(r, y, c, log[y.session], manifest[y.session].status, Fine(y.session) /\ Sound(y), w)
    <2>1. ~run[r].rejected /\ c.at # "failed" /\ y.session = s
      BY <1>2 DEF Tracked, Reporting
    <2>2. PICK w \in Seq(Events) : Told(r, run[r], c, log[s], manifest[s].status, Fine(s), w)
      BY <2>1
    <2> DEFINE x == run[r]
               l == log[s]
               st == manifest[s].status
    <2>5. x.seq - x.emitted <= Len(l)
      BY <2>1
    <2>6. /\ y.phase = "running" /\ y.seq = x.seq + 1 /\ y.emitted = x.emitted + 1
          /\ y.status \in Lifecycle!Statuses /\ e.type # "user" /\ e.to # "interrupted"
      BY DEF Reporting
    <2>7. e.type # "status" =>
             /\ y.queue = x.queue \o <<AppendCall(s, x.seq + 1, e)>>
             /\ e.to = "none" /\ y.status = x.status
             /\ x.status \in Lifecycle!ActiveStatuses
      BY <2>1 DEF Reporting
    <2>8. e.type = "status" =>
             /\ y.queue = x.queue \o <<AppendCall(s, x.seq + 1, e), UpdateCall(s, e.to)>>
             /\ e.from = x.status /\ e.to = y.status
             /\ \/ x.status \in Lifecycle!ActiveStatuses /\ e.to \in Lifecycle!LegalNext(x.status)
                \/ x.emitted = 0 /\ x.status \in Lifecycle!ResetStatuses /\ e.to = "preparing"
      BY <2>1 DEF Reporting
    <2>9. w \in Seq(Events) /\ Told(r, x, c, l, st, Fine(s), w) /\ x \in RunRecords /\ l \in Seq(Events)
      BY <1>1, <2>2
    <2>10. e \in Events /\ e.run = r
      OBVIOUS
    <2>3. Told(r, y, c, log[s], manifest[s].status, Fine(s), Append(w, e))
      <3> HIDE DEF x, l, st
      <3>1. Told(r, y, c, l, st, Fine(s), Append(w, e))
        BY <2>5, <2>6, <2>7, <2>8, <2>9, <2>10, ToldMore
      <3> QED BY <3>1 DEF l, st
    <2>4. Told(r, y, c, log[s], manifest[s].status, Fine(s) /\ Sound(y), Append(w, e))
      BY <2>3, ToldLess
    <2>11. Append(w, e) \in Seq(Events)
      OBVIOUS
    <2> QED BY <2>1, <2>4, <2>11
  <1>3. Silenced(y, c)
    BY DEF Silenced, Reporting
  <1>4. RecordedIn(r, y, log[y.session], manifest[y.session].status)
    BY DEF RecordedIn, Reporting
  <1>5. /\ y.phase \notin Early /\ y.session = s /\ y.rejected = run[r].rejected
        /\ y.initial = run[r].initial
    BY DEF Early, Reporting
  <1>6. cut'.begin = cut.begin /\ cut.event \subseteq cut'.event /\ UNCHANGED <<manifest, log, recovery>>
    OBVIOUS
  <1> QED BY <1>2, <1>3, <1>4, <1>5, <1>6, RecordFrame

\* The user message is in the log: nothing is on its way.
LEMMA GreetingTold ==
    ASSUME NEW r, NEW x \in RunRecords, NEW c, NEW l \in Seq(Events), NEW st, NEW fine,
           NEW w \in Seq(Events), Told(r, x, c, l, st, fine, w), x.phase = "greeting",
           x.queue = <<>>, x.emitted = 0, c.op = "append", c.at = "done"
    PROVE  /\ Told(r, x, NoCall, l, st, fine, w) /\ x.seq - x.emitted <= Len(l)
           /\ ~Begun(c) /\ x.status \in Lifecycle!ResetStatuses
  <1>1. Plan(x, c, l, st, w) /\ Story(r, x, w) /\ Appended(c) /\ ~Appending(c)
    BY DEF Told, Appended, Appending
  <1>2. c.event.type # "status"
    BY <1>1 DEF Plan
  <1>3. (c.event.to # "none" => c.event.type = "status") /\ x.seq = Len(l)
    BY <1>1, WrittenEvent
  <1>4. ~Begun(c)
    BY <1>2, <1>3 DEF Begun
  <1>5. x.seq - x.emitted <= Len(l)
    BY <1>3
  <1>6. NoCall.op = "none" /\ ~Appending(NoCall) /\ ~Appended(NoCall) /\ ~HalfStated(NoCall)
    BY DEF NoCall, Appending, Appended, HalfStated
  <1>7. QueueFits(x.queue, NoCall, Written(NoCall, l), w)
    <2>1. Written(NoCall, l) = Written(c, l)
      BY <1>1, <1>6 DEF Written
    <2>2. QueueFits(x.queue, c, Written(c, l), w)
      BY <1>1 DEF Plan
    <2> QED BY <2>1, <2>2 DEF QueueFits
  <1>8. Plan(x, NoCall, l, st, w)
    BY <1>1, <1>6, <1>7 DEF Plan
  <1>9. fine => Stated(NoCall, l, st)
    <2>1. ~HalfStated(c)
      BY <1>2 DEF HalfStated
    <2> QED BY <1>6, <2>1 DEF Told, Stated
  <1>10. x.status \in Lifecycle!ResetStatuses
    BY <1>1 DEF Story
  <1>11. Told(r, x, NoCall, l, st, fine, w)
    BY <1>8, <1>9 DEF Told
  <1> QED BY <1>4, <1>5, <1>10, <1>11

\* What a report leaves of a Run.
LEMMA ReportFields ==
    ASSUME NEW r, run[r] \in RunRecords, NEW e, NEW u
    PROVE  LET y == Reported(r, e, u)
           IN  /\ y.seq = run[r].seq + 1 /\ y.emitted = run[r].emitted + 1
               /\ y.rejected = run[r].rejected /\ y.initial = run[r].initial
               /\ y.queue = IF run[r].rejected THEN <<>>
                            ELSE run[r].queue \o (<<AppendCall(run[r].session, run[r].seq + 1, e)>> \o u)
  BY DEF Reported, RunRecords

LEMMA JobPairs ==
    ASSUME NEW a, NEW b
    PROVE  <<a>> \o <<b>> = <<a, b>> /\ <<a>> \o <<>> = <<a>>
  <1> DEFINE T == {a, b}
             one == <<a>>
             other == <<b>>
             two == <<a, b>>
             none == <<>>
  <1>1. one \in Seq(T) /\ other \in Seq(T) /\ two \in Seq(T) /\ none \in Seq(T)
    OBVIOUS
  <1>2. /\ Len(one) = 1 /\ one[1] = a /\ Len(other) = 1 /\ other[1] = b
        /\ Len(two) = 2 /\ two[1] = a /\ two[2] = b /\ Len(none) = 0
    OBVIOUS
  <1> HIDE DEF T, one, other, two, none
  <1>3. one \o other = two
    <2>1. /\ one \o other \in Seq(T) /\ Len(one \o other) = 2
          /\ \A i \in 1 .. 2 : (one \o other)[i] = IF i <= 1 THEN one[i] ELSE other[i - 1]
      BY <1>1, <1>2, ConcatProperties
    <2>2. (one \o other)[1] = a /\ (one \o other)[2] = b
      BY <1>2, <2>1
    <2>3. \A i \in 1 .. 2 : (one \o other)[i] = two[i]
      BY <1>2, <2>2
    <2> QED BY <1>1, <1>2, <2>1, <2>3, SeqEqual
  <1>4. one \o none = one
    BY <1>1 DEF none
  <1> QED BY <1>3, <1>4 DEF one, other, two, none

\* A Run reports a status, a block or the end of its budget.
LEMMA EmitRecord ==
    ASSUME Record, Writer, OneWriter', NEW r \in Runs,
           EmitStatus(r) \/ EmitReasoning(r) \/ EmitExceeded(r)
    PROVE  Record'
  <1> DEFINE s == run[r].session
  <1>1. /\ run[r] \in RunRecords /\ io[r] \in Calls /\ RunFits(run[r], io[r], manifest)
        /\ RunTold(r) /\ Silenced(run[r], io[r]) /\ io \in [Processes -> Calls]
    BY RunFactsHold DEF Writer, RunFacts, Record, RunKept, Typed, TypeOK
  <1>2. /\ Live(r) /\ run[r].phase = "running" /\ run[r].status \in Lifecycle!ActiveStatuses
        /\ run[r].emitted <= MaxEvents + 1 /\ s \in Sessions /\ io' = [io EXCEPT ![r] = io[r]]
    BY <1>1 DEF EmitStatus, EmitReasoning, EmitExceeded, MayReport, Live, RunFits
  <1>3. UNCHANGED <<manifest, log, recovery, cut>>
    BY DEF EmitStatus, EmitReasoning, EmitExceeded, files
  <1>4. ASSUME ~run[r].rejected, io[r].at # "failed"
        PROVE  /\ \E w \in Seq(Events) :
                     Told(r, run[r], io[r], log[s], manifest[s].status, Fine(s), w)
               /\ run[r].seq - run[r].emitted <= Len(log[s])
    <2>1. PICK w \in Seq(Events) : Told(r, run[r], io[r], log[s], manifest[s].status, Fine(s), w)
      BY <1>1, <1>2, <1>4 DEF Tracked, RunTold
    <2>2. run[r].seq - run[r].emitted <= Len(log[s])
      BY <1>2, <2>1 DEF Told, Plan
    <2> QED BY <2>1, <2>2
  <1>5. run[r].rejected => io[r].op = "none"
    BY <1>1 DEF Silenced
  <1>6. run[r].seq \in Nat /\ run[r].emitted \in Nat /\ run[r].blocks \in Nat
    BY <1>1, StoreAssumption DEF RunRecords
  <1>7. CASE EmitStatus(r)
    <2>1. PICK to \in NextStatuses(r) : run' = [run EXCEPT ![r] = ReportedStatus(r, to)]
      BY <1>7 DEF EmitStatus
    <2> DEFINE e == StatusEvent(r, run[r].status, to)
               u == <<UpdateCall(s, to)>>
               y == Reported(r, e, u)
               z == [y EXCEPT !.status = to]
    <2>2. /\ to \in Reportable /\ to \in Lifecycle!LegalNext(run[r].status) /\ to # "interrupted"
          /\ to \in Lifecycle!Statuses
      BY <1>2, StatusFacts DEF NextStatuses, Reportable
    <2>3. e \in Events /\ e.run = r /\ e.type = "status" /\ e.to = to /\ e.from = run[r].status
      BY <1>2, <2>2, NewEvents, StatusFacts DEF StatusEvent, Event
    <2>4. run' = [run EXCEPT ![r] = z]
      BY <2>1 DEF ReportedStatus
    <2>5. /\ y \in RunRecords /\ y.phase = "running" /\ y.session = s
          /\ y.seq = run[r].seq + 1 /\ y.emitted = run[r].emitted + 1
          /\ y.rejected = run[r].rejected /\ y.initial = run[r].initial
          /\ y.queue = IF run[r].rejected THEN <<>>
                       ELSE run[r].queue \o (<<AppendCall(s, run[r].seq + 1, e)>> \o u)
      <3>1. /\ y \in RunRecords /\ y.phase = run[r].phase /\ y.session = run[r].session
        BY <1>2, <2>2, <2>3, ReportedFits DEF Writer
      <3> QED BY <1>1, <1>2, <3>1, ReportFields
    <2>6. <<AppendCall(s, run[r].seq + 1, e)>> \o u = <<AppendCall(s, run[r].seq + 1, e), UpdateCall(s, e.to)>>
      BY <2>3, JobPairs
    <2> HIDE DEF y, e, u
    <2>7. /\ z.phase = "running" /\ z.session = s /\ z.status = to
          /\ z.seq = run[r].seq + 1 /\ z.emitted = run[r].emitted + 1
          /\ z.rejected = run[r].rejected /\ z.initial = run[r].initial
          /\ z.queue = IF run[r].rejected THEN <<>>
                       ELSE run[r].queue \o (<<AppendCall(s, run[r].seq + 1, e)>> \o u)
      BY <2>5 DEF RunRecords
    <2> HIDE DEF z
    <2>8. Reporting(run[r], z, s, e)
      BY <1>2, <2>2, <2>3, <2>6, <2>7 DEF Reporting
    <2> QED BY <1>2, <1>3, <1>4, <1>5, <2>3, <2>4, <2>8, ReportRecord
  <1>8. CASE EmitReasoning(r)
    <2> DEFINE b == run[r].blocks + 1
               e == [Event(r, "reasoning") EXCEPT !.block = b]
               u == <<>>
               y == Reported(r, e, u)
               z == [y EXCEPT !.blocks = b]
    <2>3. e \in Events /\ e.run = r /\ e.type = "reasoning" /\ e.to = "none"
      <3>1. b \in Nat /\ run[r].status \in Lifecycle!Statuses
        BY <1>2, <1>6, StatusFacts
      <3>2. e \in Events
        BY <3>1, NewEvents
      <3> QED BY <3>2 DEF Event
    <2>4. run' = [run EXCEPT ![r] = z]
      BY <1>8 DEF EmitReasoning
    <2>5. /\ y \in RunRecords /\ y.phase = "running" /\ y.session = s /\ y.status = run[r].status
          /\ y.seq = run[r].seq + 1 /\ y.emitted = run[r].emitted + 1
          /\ y.rejected = run[r].rejected /\ y.initial = run[r].initial
          /\ y.queue = IF run[r].rejected THEN <<>>
                       ELSE run[r].queue \o (<<AppendCall(s, run[r].seq + 1, e)>> \o u)
      <3>1. /\ y \in RunRecords /\ y.phase = run[r].phase /\ y.session = run[r].session
            /\ y.status = run[r].status
        BY <1>2, <2>3, ReportedFits DEF Writer
      <3> HIDE DEF u
      <3> QED BY <1>1, <1>2, <3>1, ReportFields
    <2>6. <<AppendCall(s, run[r].seq + 1, e)>> \o u = <<AppendCall(s, run[r].seq + 1, e)>>
      BY JobPairs
    <2> HIDE DEF y, e, b
    <2>7. /\ z.phase = "running" /\ z.session = s /\ z.status = run[r].status
          /\ z.seq = run[r].seq + 1 /\ z.emitted = run[r].emitted + 1
          /\ z.rejected = run[r].rejected /\ z.initial = run[r].initial
          /\ z.queue = y.queue
      BY <2>5 DEF RunRecords
    <2>8. run[r].status \in Lifecycle!Statuses
      BY <1>2, StatusFacts
    <2> HIDE DEF z
    <2>9. Reporting(run[r], z, s, e)
      BY <1>2, <2>3, <2>5, <2>6, <2>7, <2>8 DEF Reporting
    <2> QED BY <1>2, <1>3, <1>4, <1>5, <2>3, <2>4, <2>9, ReportRecord
  <1>9. CASE EmitExceeded(r)
    <2> DEFINE e == Event(r, "exceeded")
               u == <<>>
               y == Reported(r, e, u)
               z == [y EXCEPT !.exceeded = TRUE]
    <2>3. e \in Events /\ e.run = r /\ e.type = "exceeded" /\ e.to = "none"
      BY <1>2, <1>6, NewEvents, StatusFacts DEF Event
    <2>4. run' = [run EXCEPT ![r] = z]
      BY <1>9 DEF EmitExceeded
    <2>5. /\ y \in RunRecords /\ y.phase = "running" /\ y.session = s /\ y.status = run[r].status
          /\ y.seq = run[r].seq + 1 /\ y.emitted = run[r].emitted + 1
          /\ y.rejected = run[r].rejected /\ y.initial = run[r].initial
          /\ y.queue = IF run[r].rejected THEN <<>>
                       ELSE run[r].queue \o (<<AppendCall(s, run[r].seq + 1, e)>> \o u)
      <3>1. /\ y \in RunRecords /\ y.phase = run[r].phase /\ y.session = run[r].session
            /\ y.status = run[r].status
        BY <1>2, <2>3, ReportedFits DEF Writer
      <3> HIDE DEF u
      <3> QED BY <1>1, <1>2, <3>1, ReportFields
    <2>6. <<AppendCall(s, run[r].seq + 1, e)>> \o u = <<AppendCall(s, run[r].seq + 1, e)>>
      BY JobPairs
    <2> HIDE DEF y, e
    <2>7. /\ z.phase = "running" /\ z.session = s /\ z.status = run[r].status
          /\ z.seq = run[r].seq + 1 /\ z.emitted = run[r].emitted + 1
          /\ z.rejected = run[r].rejected /\ z.initial = run[r].initial
          /\ z.queue = y.queue
      BY <2>5 DEF RunRecords
    <2>8. run[r].status \in Lifecycle!Statuses
      BY <1>2, StatusFacts
    <2> HIDE DEF z
    <2>9. Reporting(run[r], z, s, e)
      BY <1>2, <2>3, <2>5, <2>6, <2>7, <2>8 DEF Reporting
    <2> QED BY <1>2, <1>3, <1>4, <1>5, <2>3, <2>4, <2>9, ReportRecord
  <1> QED BY <1>7, <1>8, <1>9

\* A Run begins when its user message is written.
LEMMA GreetedRecord ==
    ASSUME Record, Writer, OneWriter', NEW r \in Runs, Greeted(r)
    PROVE  Record'
  <1> DEFINE s == run[r].session
             e == StatusEvent(r, run[r].status, "preparing")
             u == <<UpdateCall(s, "preparing")>>
             y == Reported(r, e, u)
             z == [y EXCEPT !.status = "preparing"]
             v == [z EXCEPT !.phase = "running"]
  <1>1. /\ run[r] \in RunRecords /\ RunFits(run[r], io[r], manifest)
        /\ RunTold(r) /\ io[r].at = "done" /\ run[r].phase = "greeting"
    BY RunFactsHold DEF Writer, RunFacts, Record, RunKept, Greeted, Answers
  <1>2. /\ io[r].op = "append" /\ s \in Sessions /\ run[r].emitted = 0 /\ run[r].queue = <<>>
        /\ ~run[r].rejected /\ run[r].status \in Lifecycle!Statuses /\ log[s] \in Seq(Events)
    BY <1>1 DEF RunFits, OpsOf, Writer, Typed, TypeOK
  <1>3. PICK w \in Seq(Events) : Told(r, run[r], io[r], log[s], manifest[s].status, Fine(s), w)
    BY <1>1, <1>2 DEF Tracked, RunTold
  <1>4. /\ Told(r, run[r], NoCall, log[s], manifest[s].status, Fine(s), w)
        /\ run[r].seq - run[r].emitted <= Len(log[s])
        /\ ~Begun(io[r]) /\ run[r].status \in Lifecycle!ResetStatuses
    BY <1>1, <1>2, <1>3, GreetingTold
  <1>5. "preparing" \in Reportable /\ "preparing" \in Lifecycle!Statuses
    BY StatusFacts
  <1>6. /\ e \in Events /\ e.run = r /\ e.type = "status" /\ e.to = "preparing"
        /\ e.from = run[r].status
    BY <1>2, <1>5, NewEvents DEF StatusEvent, Event
  <1>7. run' = [run EXCEPT ![r] = v] /\ io' = [io EXCEPT ![r] = NoCall]
    BY DEF Greeted, ReportedStatus
  <1>8. UNCHANGED <<manifest, log, recovery, cut>>
    BY DEF Greeted, files
  <1>9. /\ y.seq = run[r].seq + 1 /\ y.emitted = run[r].emitted + 1
        /\ y.rejected = run[r].rejected /\ y.initial = run[r].initial
        /\ y.queue = IF run[r].rejected THEN <<>>
                     ELSE run[r].queue \o (<<AppendCall(s, run[r].seq + 1, e)>> \o u)
    BY <1>1, ReportFields
  <1>10. y \in RunRecords /\ y.session = s
    <2>1. run[r].emitted <= MaxEvents + 1
      BY <1>2, StoreAssumption
    <2> QED BY <1>1, <1>5, <1>6, <2>1, ReportedFits DEF Writer
  <1>11. <<AppendCall(s, run[r].seq + 1, e)>> \o u = <<AppendCall(s, run[r].seq + 1, e), UpdateCall(s, e.to)>>
    BY <1>6, JobPairs
  <1> HIDE DEF y, e, u
  <1>12. /\ z \in RunRecords /\ z.session = s /\ z.status = "preparing"
         /\ z.seq = y.seq /\ z.emitted = y.emitted /\ z.rejected = y.rejected
         /\ z.initial = y.initial /\ z.queue = y.queue
    BY <1>5, <1>10 DEF RunRecords
  <1> HIDE DEF z
  <1>13. /\ v.phase = "running" /\ v.session = s /\ v.status = "preparing"
         /\ v.seq = z.seq /\ v.emitted = z.emitted /\ v.rejected = z.rejected
         /\ v.initial = z.initial /\ v.queue = z.queue
    BY <1>12 DEF RunRecords
  <1> HIDE DEF v
  <1>14. Reporting(run[r], v, s, e)
    BY <1>2, <1>4, <1>5, <1>6, <1>9, <1>11, <1>12, <1>13 DEF Reporting
  <1> QED BY <1>1, <1>2, <1>4, <1>6, <1>7, <1>8, <1>14, ReportRecord

\* The next job of the chain is on its way.
LEMMA PlanNext ==
    ASSUME NEW x, NEW y, NEW c, NEW d, NEW l \in Seq(Events), NEW st, NEW w \in Seq(Events), NEW s,
           Plan(x, c, l, st, w), x.phase = "running", x.queue \in Seq(Jobs(s)), x.queue # <<>>,
           d = Head(x.queue), y.queue = Tail(x.queue), y.seq = x.seq, y.emitted = x.emitted,
           c.at \in {"idle", "done"}, c.at = "idle" => c.op = "none",
           Appended(c) /\ c.event.to # "none" => c.event.type = "status"
    PROVE  /\ Plan(y, d, l, st, w)
           /\ Stated(c, l, st) => Stated(d, l, st)
           /\ Begun(c) => Begun(d)
           /\ d.at = "manifest" /\ d.session = s
  <1> DEFINE q == x.queue
             p == y.queue
             n == Len(l)
  <1>1. /\ q \in Seq(Jobs(s)) /\ Len(q) \in Nat /\ DOMAIN q = 1 .. Len(q) /\ Len(q) > 0
        /\ d = q[1]
    OBVIOUS
  <1>2. /\ p \in Seq(Jobs(s)) /\ Len(p) = Len(q) - 1 /\ DOMAIN p = 1 .. Len(q) - 1
        /\ \A i \in 1 .. Len(q) - 1 : p[i] = q[i + 1]
    <2>1. /\ p \in Seq(Jobs(s)) /\ Len(p) = Len(q) - 1
          /\ \A i \in 1 .. Len(p) : p[i] = q[i + 1]
      BY <1>1, HeadTailProperties
    <2> QED BY <2>1
  <1>3. d \in Jobs(s) /\ d.op \in {"append", "update"} /\ d.at = "manifest" /\ d.session = s
    BY <1>1 DEF Jobs
  <1> HIDE DEF q, p
  <1>4. n \in Nat /\ Len(w) \in Nat /\ n <= Len(w) /\ Begins(l, w)
    BY DEF Plan, Begins
  <1>5. Written(c, l) = n /\ ~Appending(c) /\ (Appended(c) <=> c.op = "append")
    BY DEF Written, Appending, Appended
  <1>6. QueueFits(q, c, n, w)
    BY <1>5 DEF Plan, q
  <1>7. CASE d.op = "append"
    <2>1. d.seq = n + 1 /\ d.event = w[n + 1] /\ n < Len(w)
      <3>1. d.seq \in n + 1 .. Len(w) /\ d.event = w[d.seq]
        BY <1>1, <1>6, <1>7 DEF QueueFits
      <3>2. n + 1 \in n + 1 .. Len(w)
        BY <1>4, <3>1
      <3>3. PICK i \in DOMAIN q : q[i].op = "append" /\ q[i].seq = n + 1
        BY <1>6, <3>2 DEF QueueFits
      <3>4. i = 1
        <4>1. 1 < i => q[1].seq < n + 1
          BY <1>1, <1>6, <1>7, <3>3 DEF QueueFits
        <4> QED BY <1>1, <1>4, <3>1, <4>1
      <3> QED BY <1>1, <1>4, <3>1, <3>3, <3>4
    <2>2. Appending(d) /\ ~Appended(d) /\ Written(d, l) = n + 1
      BY <1>3, <1>7 DEF Appending, Appended, Written
    <2>3. d.event.type = "status" => p # <<>> /\ p[1].op = "update"
      <3> SUFFICES ASSUME d.event.type = "status" PROVE p # <<>> /\ p[1].op = "update"
        OBVIOUS
      <3>1. 1 + 1 \in DOMAIN q /\ q[1 + 1].op = "update"
        BY <1>1, <1>6, <1>7 DEF QueueFits
      <3>2. 1 \in DOMAIN p /\ p[1] = q[1 + 1]
        BY <1>1, <1>2, <3>1
      <3> QED BY <3>1, <3>2
    <2>4. QueueFits(p, d, n + 1, w)
      <3>1. ASSUME NEW i \in DOMAIN p, p[i].op = "append"
            PROVE  /\ p[i].seq \in n + 1 + 1 .. Len(w) /\ p[i].event = w[p[i].seq]
                   /\ p[i].event.type = "status" => i + 1 \in DOMAIN p /\ p[i + 1].op = "update"
        <4>1. i \in 1 .. Len(q) - 1 /\ i + 1 \in DOMAIN q /\ 1 \in DOMAIN q /\ 1 < i + 1 /\ p[i] = q[i + 1]
          BY <1>1, <1>2
        <4>2. /\ q[i + 1].seq \in n + 1 .. Len(w) /\ q[i + 1].event = w[q[i + 1].seq]
              /\ q[1].seq < q[i + 1].seq
              /\ q[i + 1].event.type = "status" => i + 1 + 1 \in DOMAIN q /\ q[i + 1 + 1].op = "update"
          <5>1. q[i + 1].op = "append" /\ q[1].op = "append"
            BY <1>1, <1>7, <3>1, <4>1
          <5>2. q[1].seq < q[i + 1].seq
            BY <1>6, <4>1, <5>1 DEF QueueFits
          <5> QED BY <1>6, <4>1, <5>1, <5>2 DEF QueueFits
        <4>3. q[i + 1].seq \in n + 1 + 1 .. Len(w)
          BY <1>1, <1>4, <2>1, <4>2
        <4>4. i + 1 + 1 \in DOMAIN q => i + 1 \in DOMAIN p /\ p[i + 1] = q[i + 1 + 1]
          BY <1>1, <1>2, <4>1
        <4> QED BY <4>1, <4>2, <4>3, <4>4
      <3>2. ASSUME NEW i \in DOMAIN p, p[i].op = "update"
            PROVE  Says(IF i = 1 THEN d ELSE p[i - 1], p[i].status)
        <4>1. i \in 1 .. Len(q) - 1 /\ i + 1 \in DOMAIN q /\ i + 1 # 1 /\ p[i] = q[i + 1] /\ i + 1 - 1 = i
          BY <1>1, <1>2
        <4>2. Says(q[i], q[i + 1].status)
          BY <1>6, <3>2, <4>1 DEF QueueFits
        <4>3. q[i] = IF i = 1 THEN d ELSE p[i - 1]
          <5>1. i # 1 => i - 1 \in 1 .. Len(q) - 1 /\ i - 1 + 1 = i
            BY <1>1, <4>1
          <5> QED BY <1>1, <1>2, <5>1
        <4> QED BY <4>1, <4>2, <4>3
      <3>3. ASSUME NEW i \in DOMAIN p, NEW j \in DOMAIN p, i < j, p[i].op = "append", p[j].op = "append"
            PROVE  p[i].seq < p[j].seq
        <4>1. i + 1 \in DOMAIN q /\ j + 1 \in DOMAIN q /\ i + 1 < j + 1 /\ p[i] = q[i + 1] /\ p[j] = q[j + 1]
          BY <1>1, <1>2, <3>3
        <4> QED BY <1>6, <3>3, <4>1 DEF QueueFits
      <3>4. ASSUME NEW k \in n + 1 + 1 .. Len(w)
            PROVE  \E i \in DOMAIN p : p[i].op = "append" /\ p[i].seq = k
        <4>1. k \in n + 1 .. Len(w) /\ k # n + 1
          BY <1>4
        <4>2. PICK j \in DOMAIN q : q[j].op = "append" /\ q[j].seq = k
          BY <1>6, <4>1 DEF QueueFits
        <4>3. j # 1
          BY <1>1, <2>1, <4>1, <4>2
        <4>4. j - 1 \in DOMAIN p /\ p[j - 1] = q[j]
          <5>1. j - 1 \in 1 .. Len(q) - 1 /\ j - 1 + 1 = j
            BY <1>1, <4>2, <4>3
          <5> QED BY <1>2, <5>1
        <4> QED BY <4>2, <4>4
      <3> QED BY <3>1, <3>2, <3>3, <3>4 DEF QueueFits
    <2>5. Plan(y, d, l, st, w)
      BY <1>4, <1>7, <2>1, <2>2, <2>3, <2>4 DEF Plan, p
    <2>6. c.op = "append" => c.event.type # "status"
      BY <1>1, <1>7 DEF Plan, q
    <2>7. ~HalfStated(c) /\ ~HalfStated(d) /\ ~Begun(c)
      BY <1>5, <1>7, <2>2, <2>6 DEF HalfStated, Begun
    <2> QED BY <1>3, <2>5, <2>7 DEF Stated
  <1>8. CASE d.op = "update"
    <2>1. Says(c, d.status)
      BY <1>1, <1>6, <1>8, SMTT(30) DEF QueueFits
    <2>2. /\ c.op = "append" /\ c.at = "done" /\ IsStatus(c.event, d.status) /\ Appended(c)
          /\ n > 0 /\ c.event = w[n]
      BY <1>5, <2>1 DEF Says, Plan
    <2>3. ~Appending(d) /\ ~Appended(d) /\ Written(d, l) = n
      BY <1>8 DEF Appending, Appended, Written
    <2>4. QueueFits(p, d, n, w)
      <3>1. ASSUME NEW i \in DOMAIN p, p[i].op = "append"
            PROVE  /\ p[i].seq \in n + 1 .. Len(w) /\ p[i].event = w[p[i].seq]
                   /\ p[i].event.type = "status" => i + 1 \in DOMAIN p /\ p[i + 1].op = "update"
        <4>1. i \in 1 .. Len(q) - 1 /\ i + 1 \in DOMAIN q /\ p[i] = q[i + 1]
          BY <1>1, <1>2
        <4>2. /\ q[i + 1].seq \in n + 1 .. Len(w) /\ q[i + 1].event = w[q[i + 1].seq]
              /\ q[i + 1].event.type = "status" => i + 1 + 1 \in DOMAIN q /\ q[i + 1 + 1].op = "update"
          BY <1>6, <3>1, <4>1 DEF QueueFits
        <4>4. i + 1 + 1 \in DOMAIN q => i + 1 \in DOMAIN p /\ p[i + 1] = q[i + 1 + 1]
          BY <1>1, <1>2, <4>1
        <4> QED BY <4>1, <4>2, <4>4
      <3>2. ASSUME NEW i \in DOMAIN p, p[i].op = "update"
            PROVE  Says(IF i = 1 THEN d ELSE p[i - 1], p[i].status)
        <4>1. i \in 1 .. Len(q) - 1 /\ i + 1 \in DOMAIN q /\ i + 1 # 1 /\ p[i] = q[i + 1] /\ i + 1 - 1 = i
          BY <1>1, <1>2
        <4>2. Says(q[i], q[i + 1].status)
          BY <1>6, <3>2, <4>1 DEF QueueFits
        <4>3. q[i] = IF i = 1 THEN d ELSE p[i - 1]
          <5>1. i # 1 => i - 1 \in 1 .. Len(q) - 1 /\ i - 1 + 1 = i
            BY <1>1, <4>1
          <5> QED BY <1>1, <1>2, <5>1
        <4> QED BY <4>1, <4>2, <4>3
      <3>3. ASSUME NEW i \in DOMAIN p, NEW j \in DOMAIN p, i < j, p[i].op = "append", p[j].op = "append"
            PROVE  p[i].seq < p[j].seq
        <4>1. i + 1 \in DOMAIN q /\ j + 1 \in DOMAIN q /\ i + 1 < j + 1 /\ p[i] = q[i + 1] /\ p[j] = q[j + 1]
          BY <1>1, <1>2, <3>3
        <4> QED BY <1>6, <3>3, <4>1 DEF QueueFits
      <3>4. ASSUME NEW k \in n + 1 .. Len(w)
            PROVE  \E i \in DOMAIN p : p[i].op = "append" /\ p[i].seq = k
        <4>2. PICK j \in DOMAIN q : q[j].op = "append" /\ q[j].seq = k
          BY <1>6 DEF QueueFits
        <4>3. j # 1
          BY <1>1, <1>8, <4>2
        <4>4. j - 1 \in DOMAIN p /\ p[j - 1] = q[j]
          <5>1. j - 1 \in 1 .. Len(q) - 1 /\ j - 1 + 1 = j
            BY <1>1, <4>2, <4>3
          <5> QED BY <1>2, <5>1
        <4> QED BY <4>2, <4>4
      <3> QED BY <3>1, <3>2, <3>3, <3>4 DEF QueueFits
    <2>5. Plan(y, d, l, st, w)
      BY <1>3, <1>4, <1>8, <2>2, <2>3, <2>4 DEF Plan, p
    <2>6. HalfStated(c) /\ HalfStated(d) /\ StatedBy(c) = StatedBy(d)
      BY <1>3, <1>8, <2>2 DEF HalfStated, StatedBy, IsStatus
    <2>7. Begun(c) => Begun(d)
      BY <1>3, <1>8, <2>2 DEF Begun, IsStatus
    <2> QED BY <1>3, <2>5, <2>6, <2>7 DEF Stated
  <1> QED BY <1>3, <1>7, <1>8

LEMMA PersistRecord ==
    ASSUME Record, Writer, OneWriter', NEW r \in Runs, Persist(r)
    PROVE  Record'
  <1> DEFINE y == [run[r] EXCEPT !.queue = Tail(run[r].queue)]
             d == Head(run[r].queue)
  <1>0. PICK s \in Sessions : s = run[r].session
    BY RunFactsHold DEF Writer, RunFacts, RunFits, Persist
  <1>1. /\ run[r] \in RunRecords /\ io[r] \in Calls /\ RunFits(run[r], io[r], manifest)
        /\ CallFits(io[r], manifest) /\ RunTold(r) /\ Silenced(run[r], io[r])
        /\ run[r].phase = "running" /\ io[r].at \in {"idle", "done"} /\ run[r].queue # <<>>
        /\ log[s] \in Seq(Events)
    BY RunFactsHold DEF Writer, RunFacts, Record, RunKept, Persist, Typed, TypeOK
  <1>2. /\ run[r].queue \in Seq(Jobs(s)) /\ ~run[r].rejected
        /\ io[r].op \in {"none", "append", "update"}
        /\ io[r].op # "none" => io[r].session = s
    BY <1>0, <1>1 DEF RunFits, OpsOf, Silenced
  <1>3. io[r].at = "idle" => io[r].op = "none"
    <2>1. "idle" \notin StepsOf("append") /\ "idle" \notin StepsOf("update")
      BY DEF StepsOf, Steps
    <2> QED BY <1>1, <1>2, <2>1 DEF CallFits
  <1>4. PICK w \in Seq(Events) : Told(r, run[r], io[r], log[s], manifest[s].status, Fine(s), w)
    BY <1>0, <1>1, <1>2 DEF Tracked, RunTold
  <1>5. run' = [run EXCEPT ![r] = y] /\ io' = [io EXCEPT ![r] = d]
    BY DEF Persist, Writer, Typed, TypeOK
  <1>6. UNCHANGED <<manifest, log, recovery, cut>>
    BY DEF Persist, files
  <1>7. /\ y.queue = Tail(run[r].queue) /\ y.seq = run[r].seq /\ y.emitted = run[r].emitted
        /\ y.phase = "running" /\ y.session = s /\ y.rejected = run[r].rejected
        /\ y.initial = run[r].initial /\ y.status = run[r].status
    BY <1>0, <1>1 DEF RunRecords
  <1>8. Appended(io[r]) /\ io[r].event.to # "none" => io[r].event.type = "status"
    BY <1>1, <1>4, WrittenEvent
  <1>d. d = Head(run[r].queue)
    OBVIOUS
  <1> HIDE DEF y, d
  <1>9. Plan(run[r], io[r], log[s], manifest[s].status, w)
    BY <1>4 DEF Told
  <1>10. /\ Plan(y, d, log[s], manifest[s].status, w)
         /\ Stated(io[r], log[s], manifest[s].status) => Stated(d, log[s], manifest[s].status)
         /\ Begun(io[r]) => Begun(d)
         /\ d.at = "manifest" /\ d.session = s
    BY <1>1, <1>2, <1>3, <1>4, <1>7, <1>8, <1>9, <1>d, PlanNext, SMTT(30)
  <1>11. Story(r, y, w)
    BY <1>1, <1>4, <1>7 DEF Told, Story
  <1>12. Told(r, y, d, log[s], manifest[s].status, Fine(s) /\ Sound(y), w)
    BY <1>4, <1>7, <1>10, <1>11 DEF Told
  <1>13. Silenced(y, d)
    BY <1>2, <1>7 DEF Silenced
  <1>14. RecordedIn(r, y, log[y.session], manifest[y.session].status)
    BY <1>7 DEF RecordedIn
  <1>15. y.phase \notin Early
    BY <1>7 DEF Early
  <1>16. Begun(io[r]) => Begun(d) /\ d.session = io[r].session
    <2>1. Begun(io[r]) => io[r].op # "none"
      BY DEF Begun
    <2>2. Begun(io[r]) => Begun(d)
      BY <1>10
    <2> QED BY <1>2, <1>10, <2>1, <2>2
  <1>17. cut'.begin = cut.begin /\ cut.event \subseteq cut'.event /\ UNCHANGED <<manifest, log, recovery>>
    BY <1>6
  <1> QED BY <1>0, <1>5, <1>7, <1>12, <1>13, <1>14, <1>15, <1>16, <1>17, RecordFrame

LEMMA PersistFailsRecord ==
    ASSUME Record, Writer, OneWriter', NEW r \in Runs, PersistFails(r)
    PROVE  Record'
  <1> DEFINE y == [run[r] EXCEPT !.queue = <<>>, !.rejected = TRUE]
  <1>1. /\ run[r] \in RunRecords /\ RunFits(run[r], io[r], manifest) /\ CallFits(io[r], manifest)
        /\ run[r].phase = "running" /\ io[r].at = "failed"
    BY RunFactsHold DEF Writer, RunFacts, PersistFails, Answers
  <1>2. io[r].session = run[r].session
    BY <1>1 DEF RunFits, CallFits, NoCall
  <1>3. run' = [run EXCEPT ![r] = y] /\ io' = [io EXCEPT ![r] = NoCall]
    BY DEF PersistFails, Writer, Typed, TypeOK
  <1>4. /\ cut'.begin = cut.begin /\ cut.event \subseteq cut'.event
        /\ UNCHANGED <<manifest, log, recovery>>
    BY DEF PersistFails, files
  <1>5. /\ y.queue = <<>> /\ y.phase = "running" /\ y.session = run[r].session /\ y.rejected
        /\ y.initial = run[r].initial
    BY <1>1 DEF RunRecords
  <1> HIDE DEF y
  <1>6. /\ Silenced(y, NoCall) /\ ~Tracked(y, NoCall) /\ y.phase \notin Early
        /\ RecordedIn(r, y, log[y.session], manifest[y.session].status)
    BY <1>5 DEF Silenced, Tracked, Early, RecordedIn, NoCall
  <1> QED BY <1>2, <1>3, <1>4, <1>5, <1>6, RecordFrame

\* A Run that settles has written all that it reported.
LEMMA SettlesRecorded ==
    ASSUME NEW r, NEW x \in RunRecords, NEW y, NEW c, NEW l \in Seq(Events), NEW st, NEW fine,
           NEW w \in Seq(Events), Told(r, x, c, l, st, fine, w), x.phase = "running", x.queue = <<>>,
           x.status \notin Lifecycle!ActiveStatuses,
           c.op \in {"none", "append", "update"}, c.op # "none" => c.at = "done",
           y.seq = x.seq, y.emitted = x.emitted, y.outcome = x.status
    PROVE  ~Begun(c) /\ RecordedIn(r, y, l, st)
  <1> DEFINE first == x.seq - x.emitted
  <1>1. Plan(x, c, l, st, w) /\ Story(r, x, w)
    BY DEF Told
  <1>2. /\ Len(l) \in Nat /\ Len(w) \in Nat /\ Len(l) <= Len(w) /\ DOMAIN l = 1 .. Len(l)
        /\ \A k \in 1 .. Len(l) : w[k] = l[k]
    BY <1>1 DEF Plan, Begins
  <1>3. ~Appending(c) /\ Written(c, l) = Len(l) /\ c.op # "none"
    BY <1>1 DEF Appending, Written, Plan
  <1>4. Len(w) = Len(l)
    <2>1. \A k \in Len(l) + 1 .. Len(w) : FALSE
      BY <1>1, <1>3 DEF Plan, QueueFits
    <2> QED BY <1>2, <2>1
  <1>5. IsStatus(w[Len(w)], x.status)
    BY <1>1 DEF Story
  <1>6. c.op = "update"
    <2>1. c.op = "append" => c.event = w[Len(w)] /\ c.event.type # "status"
      BY <1>1, <1>3, <1>4 DEF Plan, Appended
    <2> QED BY <1>3, <1>5, <2>1 DEF IsStatus
  <1>7. st = x.status
    BY <1>1, <1>3, <1>4, <1>5, <1>6 DEF Plan, IsStatus
  <1>8. ~Begun(c)
    BY <1>3, <1>6 DEF Begun
  <1>9. /\ first \in 1 .. Len(w) /\ Len(w) = x.seq /\ w[first].type = "user"
        /\ \A k \in 1 .. Len(w) : w[k].run = r <=> k >= first
    BY <1>1 DEF Story
  <1>10. {i \in DOMAIN l : l[i].run = r} = first .. x.seq
    BY <1>2, <1>4, <1>9
  <1>11. l[first].type = "user" /\ IsStatus(l[x.seq], x.status)
    BY <1>2, <1>4, <1>5, <1>9
  <1>12. first > 0 /\ x.seq <= Len(l)
    BY <1>2, <1>4, <1>9
  <1>13. RecordedIn(r, y, l, st)
    BY <1>7, <1>10, <1>11, <1>12 DEF RecordedIn
  <1> QED BY <1>8, <1>13

LEMMA EndRecord ==
    ASSUME Record, Writer, OneWriter', NEW r \in Runs, NEW outcome, End(r, outcome), ~Begun(io[r]),
           \A y : y.seq = run[r].seq /\ y.emitted = run[r].emitted /\ y.outcome = outcome =>
               RecordedIn(r, y, log[run[r].session], manifest[run[r].session].status)
    PROVE  Record'
  <1> DEFINE y == [run[r] EXCEPT !.phase = "ended", !.outcome = outcome, !.queue = <<>>]
  <1>1. run[r] \in RunRecords
    BY RunFactsHold DEF Writer, RunFacts
  <1>2. run' = [run EXCEPT ![r] = y] /\ io' = [io EXCEPT ![r] = NoCall]
    BY DEF End, Writer, Typed, TypeOK
  <1>3. /\ cut'.begin = cut.begin /\ cut.event \subseteq cut'.event
        /\ UNCHANGED <<manifest, log, recovery>>
    BY DEF End, files
  <1>4. /\ y.queue = <<>> /\ y.phase = "ended" /\ y.session = run[r].session
        /\ y.rejected = run[r].rejected /\ y.initial = run[r].initial
        /\ y.seq = run[r].seq /\ y.emitted = run[r].emitted /\ y.outcome = outcome
    BY <1>1 DEF RunRecords
  <1> HIDE DEF y
  <1>5. /\ Silenced(y, NoCall) /\ ~Tracked(y, NoCall) /\ y.phase \notin Early
        /\ RecordedIn(r, y, log[y.session], manifest[y.session].status)
    BY <1>4 DEF Silenced, Tracked, Early, NoCall
  <1> QED BY <1>2, <1>3, <1>4, <1>5, RecordFrame

\* A Run ends before it begins, or when all it reported is written.
LEMMA EndsRecord ==
    ASSUME Record, Writer, OneWriter', NEW r \in Runs,
           OpenRefused(r) \/ BeginCancelled(r) \/ BeginFails(r) \/ Settle(r)
    PROVE  Record'
  <1>0. PICK s \in Sessions : s = run[r].session
    BY RunFactsHold DEF Writer, RunFacts, RunFits, OpenRefused, BeginCancelled, BeginFails, Settle, Answers
  <1>1. /\ run[r] \in RunRecords /\ io[r] \in Calls /\ RunFits(run[r], io[r], manifest)
        /\ CallFits(io[r], manifest) /\ RunTold(r) /\ Silenced(run[r], io[r])
        /\ log[s] \in Seq(Events)
    BY RunFactsHold DEF Writer, RunFacts, Record, RunKept, Typed, TypeOK
  <1>2. CASE OpenRefused(r) \/ BeginCancelled(r) \/ BeginFails(r)
    <2>1. run[r].phase \in {"creating", "opening", "greeting"} /\ io[r].at \in {"done", "failed"}
      BY <1>2 DEF OpenRefused, BeginCancelled, BeginFails, Answers
    <2>2. /\ run[r].emitted = 0 /\ run[r].queue = <<>> /\ ~run[r].rejected
          /\ io[r].op \in {"create", "get", "append"}
          /\ io[r].op = "append" => run[r].phase = "greeting"
      BY <1>1, <2>1 DEF RunFits, OpsOf
    <2>3. ~Begun(io[r])
      <3>1. CASE io[r].op = "append" /\ io[r].at = "done"
        <4>1. PICK w \in Seq(Events) : Told(r, run[r], io[r], log[s], manifest[s].status, Fine(s), w)
          BY <1>0, <1>1, <2>2, <3>1 DEF Tracked, RunTold
        <4> QED BY <1>1, <2>2, <3>1, <4>1, GreetingTold
      <3>2. CASE io[r].op # "append" \/ io[r].at = "failed"
        BY <2>2, <3>2 DEF Begun
      <3> QED BY <2>1, <3>1, <3>2
    <2>4. \A y : y.seq = run[r].seq /\ y.emitted = run[r].emitted =>
               RecordedIn(r, y, log[run[r].session], manifest[run[r].session].status)
      BY <2>2 DEF RecordedIn
    <2>5. \E outcome : End(r, outcome)
      BY <1>2 DEF OpenRefused, BeginCancelled, BeginFails
    <2> QED BY <2>3, <2>4, <2>5, EndRecord
  <1>3. CASE Settle(r)
    <2>1. /\ run[r].phase = "running" /\ run[r].status \notin Lifecycle!ActiveStatuses
          /\ run[r].queue = <<>> /\ io[r].at \in {"idle", "done"}
          /\ End(r, IF run[r].rejected THEN "unpersisted" ELSE run[r].status)
      BY <1>3 DEF Settle, Live
    <2>2. io[r].op \in {"none", "append", "update"}
      BY <1>1, <2>1 DEF RunFits, OpsOf
    <2>3. io[r].op # "none" => io[r].at = "done"
      <3>1. "idle" \notin StepsOf("append") /\ "idle" \notin StepsOf("update")
        BY DEF StepsOf, Steps
      <3> QED BY <1>1, <2>1, <2>2, <3>1 DEF CallFits
    <2>4. CASE run[r].rejected
      <3>1. ~Begun(io[r])
        BY <1>1, <2>4 DEF Silenced, Begun
      <3>2. "unpersisted" \notin Lifecycle!TerminalStatuses
        BY DEF Lifecycle!TerminalStatuses
      <3>3. \A y : y.outcome = "unpersisted" =>
               RecordedIn(r, y, log[run[r].session], manifest[run[r].session].status)
        BY <3>2 DEF RecordedIn
      <3> QED BY <2>1, <2>4, <3>1, <3>3, EndRecord
    <2>5. CASE ~run[r].rejected
      <3>1. PICK w \in Seq(Events) : Told(r, run[r], io[r], log[s], manifest[s].status, Fine(s), w)
        BY <1>0, <1>1, <2>1, <2>5 DEF Tracked, RunTold
      <3>2. \A y : y.seq = run[r].seq /\ y.emitted = run[r].emitted /\ y.outcome = run[r].status =>
               ~Begun(io[r]) /\ RecordedIn(r, y, log[s], manifest[s].status)
        BY <1>1, <2>1, <2>2, <2>3, <3>1, SettlesRecorded
      <3>3. ~Begun(io[r])
        <4> DEFINE y == [seq |-> run[r].seq, emitted |-> run[r].emitted, outcome |-> run[r].status]
        <4>1. y.seq = run[r].seq /\ y.emitted = run[r].emitted /\ y.outcome = run[r].status
          OBVIOUS
        <4> HIDE DEF y
        <4> QED BY <3>2, <4>1
      <3> QED BY <1>0, <2>1, <2>5, <3>2, <3>3, EndRecord
    <2> QED BY <2>4, <2>5
  <1> QED BY <1>2, <1>3

\* A Run with a Session of which it knows what it is writes its user message.
LEMMA GreetRecord ==
    ASSUME Record, Writer, OneWriter', NEW r \in Runs, NEW s \in Sessions, NEW n, NEW st,
           Greet(r, n, st), run[r].session = s, run[r].phase \in {"creating", "opening"},
           n = Len(log[s]) + 1, st = manifest[s].status, st \in Lifecycle!ResetStatuses,
           Fine(s) /\ st # "interrupted" => Reads(log[s]) /\ LastTo(log[s]) = st
    PROVE  Record'
  <1> DEFINE y == [run[r] EXCEPT !.phase = "greeting", !.seq = n, !.initial = st, !.status = st]
             e == Event(r, "user")
             c == AppendCall(s, n, e)
             l == log[s]
             w == Append(l, e)
  <1>1. /\ run[r] \in RunRecords /\ RunFits(run[r], io[r], manifest) /\ Unheard(r)
        /\ l \in Seq(Events) /\ run[r].phase \in Early
    BY RunFactsHold DEF Writer, RunFacts, Record, RunKept, Typed, TypeOK, Early
  <1>2. /\ run[r].emitted = 0 /\ run[r].queue = <<>> /\ ~run[r].rejected /\ ~Begun(io[r])
        /\ run[r].initial # "interrupted" /\ \A k \in DOMAIN l : l[k].run # r
    BY <1>1 DEF RunFits, OpsOf, Begun, Unheard
  <1>3. run' = [run EXCEPT ![r] = y] /\ io' = [io EXCEPT ![r] = c]
    BY DEF Greet, Writer, Typed, TypeOK
  <1>4. /\ cut'.begin = cut.begin /\ cut.event \subseteq cut'.event
        /\ UNCHANGED <<manifest, log, recovery>>
    BY DEF Greet, files
  <1>5. /\ y.phase = "greeting" /\ y.session = s /\ ~y.rejected /\ y.queue = <<>>
        /\ y.seq = n /\ y.emitted = 0 /\ y.initial = st /\ y.status = st
    BY <1>1, <1>2 DEF RunRecords
  <1>6. e \in Events /\ e.type = "user" /\ e.to = "none" /\ e.run = r
    BY NewEvents, StatusFacts DEF Event
  <1>7. c.op = "append" /\ c.at = "manifest" /\ c.seq = n /\ c.event = e
    BY DEF AppendCall, Call, NoCall
  <1> HIDE DEF y, e, c, l
  <1>8. /\ Begins(l, w) /\ w \in Seq(Events) /\ Len(w) = n /\ w[n] = e /\ Len(l) \in Nat
        /\ n = Len(l) + 1 /\ DOMAIN l = 1 .. Len(l) /\ \A k \in 1 .. Len(l) : w[k] = l[k]
    BY <1>1, <1>6, AppendBegins DEF l, Begins
  <1> HIDE DEF w
  <1>9. Appending(c) /\ ~Appended(c) /\ ~HalfStated(c) /\ Written(c, l) = n
    BY <1>7, <1>8 DEF Appending, Appended, HalfStated, Written
  <1>10. QueueFits(y.queue, c, n, w)
    <2>1. DOMAIN y.queue = {}
      BY <1>5
    <2>2. \A k \in n + 1 .. Len(w) : FALSE
      BY <1>8
    <2> QED BY <2>1, <2>2 DEF QueueFits
  <1>11. Plan(y, c, l, st, w)
    <2>1. c.seq = Len(l) + 1 /\ Len(l) < Len(w) /\ c.event = w[Len(l) + 1]
      BY <1>7, <1>8
    <2>2. c.op = "append" /\ c.event.type # "status" /\ y.phase # "running"
      BY <1>5, <1>6, <1>7
    <2>3. QueueFits(y.queue, c, Written(c, l), w)
      BY <1>9, <1>10
    <2> QED BY <1>8, <1>9, <2>1, <2>2, <2>3 DEF Plan
  <1>12. Story(r, y, w)
    <2>1. y.seq - y.emitted = n /\ n \in 1 .. Len(w)
      BY <1>5, <1>8
    <2>2. ASSUME NEW k \in 1 .. Len(w)
          PROVE  /\ w[k].run = r <=> k >= n
                 /\ ~(k > n)
      <3>1. CASE k = n
        BY <1>6, <1>8, <3>1
      <3>2. CASE k # n
        <4>1. k \in 1 .. Len(l) /\ ~(k >= n) /\ ~(k > n)
          BY <1>8, <3>2
        <4> QED BY <1>2, <1>8, <4>1
      <3> QED BY <3>1, <3>2
    <2> QED BY <1>5, <1>6, <1>8, <2>1, <2>2 DEF Story
  <1>13. ASSUME Fine(s) /\ Sound(y)
         PROVE  Reads(w) /\ LastTo(w) = y.status /\ Stated(c, l, st)
    <2>1. Reads(l) /\ LastTo(l) = st
      BY <1>5, <1>13 DEF Sound, l
    <2>2. st \in Closing \union {"idle"}
      BY DEF Closing, Lifecycle!ResetStatuses
    <2> QED BY <1>1, <1>5, <1>6, <1>9, <2>1, <2>2, AppendUser DEF w, Stated
  <1>14. Told(r, y, c, l, st, Fine(s) /\ Sound(y), w)
    BY <1>11, <1>12, <1>13 DEF Told
  <1>15. Silenced(y, c) /\ y.phase \notin Early /\ RecordedIn(r, y, log[y.session], manifest[y.session].status)
    BY <1>5 DEF Silenced, Early, RecordedIn
  <1> QED BY <1>2, <1>3, <1>4, <1>5, <1>8, <1>14, <1>15, RecordFrame DEF l

\* A Run has created its Session, or read it.
LEMMA OpensRecord ==
    ASSUME Record, Writer, OneWriter', NEW r \in Runs, Created(r) \/ Opened(r)
    PROVE  Record'
  <1>0. PICK s \in Sessions : s = run[r].session
    BY RunFactsHold DEF Writer, RunFacts, RunFits, Created, Opened, Answers
  <1>1. /\ RunFits(run[r], io[r], manifest) /\ run[r].phase \in {"creating", "opening"}
        /\ io[r].at = "done" /\ r \in Processes
        /\ Created(r) => run[r].phase = "creating"
        /\ Opened(r) => run[r].phase = "opening"
    BY RunFactsHold DEF Writer, RunFacts, Created, Opened, Answers
  <1>2. /\ io[r].op \in {"create", "get"} /\ io[r].session = s
        /\ Created(r) => io[r].op = "create"
        /\ Opened(r) => io[r].op = "get"
    BY <1>0, <1>1 DEF RunFits, OpsOf
  <1>3. CallerKnows(r, io[r], s)
    BY <1>1, <1>2, CallerFacts
  <1>4. /\ Current(io[r], manifest[s], log[s], staged[s], s \in cut.event)
        /\ Agree(manifest[s], log[s], s \in cut.event, FALSE)
        /\ manifest[s] \in Manifests /\ log[s] \in Seq(Events) /\ CallFits(io[r], manifest)
    BY <1>2, <1>3 DEF CallerKnows, Half, Agree
  <1>5. ~BegunAt(s)
    <2>1. ASSUME NEW q \in Runs, Begun(io[q])
          PROVE  FALSE
      <3>1. io[q].op # "none" /\ io[q].op \notin {"create", "get"} /\ q \in Processes
        BY <2>1 DEF Begun, Processes
      <3>2. q = r
        BY <1>1, <1>2, <3>1, SoleCaller DEF Writer
      <3> QED BY <1>2, <3>1, <3>2
    <2> QED BY <2>1 DEF BegunAt
  <1>6. s \notin cut.event /\ manifest[s].last = Len(log[s])
    <2>1. Len(log[s]) \in Nat /\ manifest[s].last \in Nat
      BY <1>4 DEF Manifests
    <2>2. CASE Created(r)
      BY <1>1, <1>2, <1>4, <2>1, <2>2 DEF Current, Agree
    <2>3. CASE Opened(r)
      BY <1>1, <1>2, <1>4, <2>1, <2>3 DEF Current, Agree
    <2> QED BY <2>2, <2>3
  <1>7. ASSUME Fine(s), manifest[s].status \in Lifecycle!ResetStatuses, manifest[s].status # "interrupted"
        PROVE  Reads(log[s]) /\ LastTo(log[s]) = manifest[s].status
    BY <1>5, <1>6, <1>7 DEF Record, AtRest, Rests
  <1>8. CASE Created(r)
    <2>1. manifest[s] = [status |-> "idle", last |-> 0]
      BY <1>1, <1>2, <1>4, <1>8 DEF Current
    <2>2. manifest[s].status = "idle" /\ Len(log[s]) + 1 = 1 /\ "idle" \in Lifecycle!ResetStatuses
      BY <1>6, <2>1 DEF Lifecycle!ResetStatuses
    <2>3. Greet(r, 1, "idle")
      BY <1>8 DEF Created
    <2> QED BY <1>0, <1>1, <1>7, <2>2, <2>3, GreetRecord
  <1>9. CASE Opened(r)
    <2>1. io[r].manifest = manifest[s] /\ io[r].base = log[s]
      BY <1>1, <1>2, <1>4, <1>9 DEF Current
    <2>2. Greet(r, Len(log[s]) + 1, manifest[s].status)
      BY <1>9, <2>1 DEF Opened
    <2>3. manifest[s].status \notin Lifecycle!ActiveStatuses
      BY <1>9, <2>1 DEF Opened, Refusal
    <2>4. manifest[s].status \in Lifecycle!Statuses
      BY <1>2, <1>4, <1>9 DEF CallFits, Manifests
    <2>5. manifest[s].status \in Lifecycle!ResetStatuses
      BY <2>3, <2>4 DEF Lifecycle!Statuses
    <2> QED BY <1>0, <1>1, <1>7, <2>2, <2>5, GreetRecord
  <1> QED BY <1>8, <1>9

LEMMA StartRecord ==
    ASSUME Record, Writer, OneWriter', NEW r \in Runs, StartNew(r) \/ StartExisting(r)
    PROVE  Record'
  <1>1. PICK s \in Sessions, phase \in {"creating", "opening"}, op \in {"create", "get"} :
          Start(r, s, phase, op)
    BY DEF StartNew, StartExisting
  <1> DEFINE y == [run[r] EXCEPT !.phase = phase, !.session = s]
             c == Call(op, s)
  <1>2. run[r] = NoRun /\ run[r] \in RunRecords /\ io[r].op = "none"
    BY <1>1, RunFactsHold DEF Start, Writer, RunFacts, RunFits, OpsOf
  <1>3. /\ run[r].session \notin Sessions /\ run[r].phase = "idle" /\ ~run[r].rejected
        /\ run[r].initial = "none"
    BY <1>2, StoreAssumption DEF NoRun
  <1>4. run' = [run EXCEPT ![r] = y] /\ io' = [io EXCEPT ![r] = c]
    BY <1>1 DEF Start, Writer, Typed, TypeOK
  <1>5. /\ cut'.begin = cut.begin /\ cut.event \subseteq cut'.event
        /\ UNCHANGED <<manifest, log, recovery>>
    BY <1>1 DEF Start, files
  <1>6. /\ y.phase = phase /\ ~y.rejected /\ y.initial = run[r].initial
    BY <1>2, <1>3 DEF RunRecords
  <1> HIDE DEF y, c
  <1>7. /\ Silenced(y, c) /\ ~Tracked(y, c) /\ run[r].phase \in Early /\ ~Begun(io[r])
        /\ RecordedIn(r, y, log[y.session], manifest[y.session].status)
    BY <1>2, <1>3, <1>6 DEF Silenced, Tracked, Early, RecordedIn, Begun
  <1> QED BY <1>3, <1>4, <1>5, <1>6, <1>7, RecordFrame

\* A Run the user cancelled still writes what it reports.
LEMMA CancelRecord ==
    ASSUME Record, Writer, OneWriter', NEW r \in Runs, Cancel(r)
    PROVE  Record'
  <1> DEFINE y == [run[r] EXCEPT !.aborted = TRUE]
             c == io[r]
  <1>1. /\ run[r] \in RunRecords /\ RunFits(run[r], c, manifest) /\ RunKept(r)
    BY RunFactsHold DEF Writer, RunFacts, Record
  <1>2. run' = [run EXCEPT ![r] = y] /\ io' = [io EXCEPT ![r] = c]
    BY DEF Cancel, Writer, Typed, TypeOK
  <1>3. /\ cut'.begin = cut.begin /\ cut.event \subseteq cut'.event
        /\ UNCHANGED <<manifest, log, recovery>>
    BY DEF Cancel, files
  <1>4. /\ y.phase = run[r].phase /\ y.session = run[r].session /\ y.rejected = run[r].rejected
        /\ y.initial = run[r].initial /\ y.status = run[r].status /\ y.seq = run[r].seq
        /\ y.emitted = run[r].emitted /\ y.queue = run[r].queue /\ y.outcome = run[r].outcome
    BY <1>1 DEF RunRecords
  <1> HIDE DEF y, c
  <1>5. Silenced(y, c) /\ RecordedIn(r, y, log[y.session], manifest[y.session].status)
    BY <1>1, <1>4 DEF RunKept, Silenced, RecordedIn, c
  <1>6. ASSUME Tracked(y, c)
        PROVE  /\ y.session \in Sessions
               /\ \E w \in Seq(Events) :
                     Told(r, y, c, log[y.session], manifest[y.session].status,
                          Fine(y.session) /\ Sound(y), w)
    <2>1. Tracked(run[r], c)
      BY <1>4, <1>6 DEF Tracked
    <2>2. y.session \in Sessions
      BY <1>1, <1>4, <2>1 DEF RunFits, Tracked
    <2>3. PICK w \in Seq(Events) :
             Told(r, run[r], c, log[run[r].session], manifest[run[r].session].status,
                  Fine(run[r].session), w)
      BY <1>1, <2>1 DEF RunKept, RunTold, c
    <2>4. Told(r, y, c, log[y.session], manifest[y.session].status, Fine(y.session) /\ Sound(y), w)
      BY <1>4, <2>3 DEF Told, Plan, Story
    <2> QED BY <2>2, <2>4
  <1> QED BY <1>2, <1>3, <1>4, <1>5, <1>6, RecordFrame DEF c

LEMMA RunStepRecord ==
    ASSUME Record, Writer, OneWriter', NEW r \in Runs, RunStep(r)
    PROVE  Record'
  BY OpensRecord, EndsRecord, GreetedRecord, EmitRecord, PersistRecord, PersistFailsRecord DEF RunStep

-----------------------------------------------------------------------------
\* The recovery and the crash.

LEMMA RecoveryRecord ==
    ASSUME Record, Writer, StartList \/ StartRestore \/ RecoveryStep
    PROVE  Record'
  <1>1. UNCHANGED <<manifest, log, run, cut>>
    BY RecoveryShape DEF Writer
  <1>2. PICK c : io' = [io EXCEPT ![Recovery] = c]
    BY RecoveryShape DEF Writer
  <1>3. io'[Recovery] = c /\ Recovery \in Processes /\ RecoveryFits /\ recovery \in RecoveryRecords
    BY <1>2 DEF Writer, Typed, TypeOK, Processes
  <1>4. ASSUME NEW s
        PROVE  /\ Call("get", s).op = "get" /\ UpdateCall(s, "interrupted").session = s
               /\ NoCall.op = "none" /\ NoRecovery.kind = "none"
    BY DEF Call, UpdateCall, NoCall, NoRecovery
  <1>5. MarksOnlyOpen'
    <2>1. CASE StartList
      <3>1. io'[Recovery].op = "none"
        BY <1>3, <1>4, <2>1 DEF StartList, CanRecover, RecoveryFits
      <3>2. \A s \in recovery'.todo : manifest[s].status \in Marked
        BY <2>1 DEF StartList, Recover, NoRecovery, Marked
      <3> QED BY <1>1, <3>1, <3>2 DEF MarksOnlyOpen
    <2>2. CASE StartRestore
      <3>1. PICK s \in Sessions : io' = [io EXCEPT ![Recovery] = Call("get", s)]
        BY <2>2 DEF StartRestore
      <3>2. io'[Recovery] = Call("get", s)
        BY <1>3, <3>1 DEF Writer, Typed, TypeOK
      <3>3. recovery'.todo = {}
        BY <2>2 DEF StartRestore, Recover, NoRecovery
      <3> QED BY <1>4, <3>2, <3>3 DEF MarksOnlyOpen
    <2>3. CASE ListNext
      <3>1. PICK s \in recovery.todo :
               /\ recovery' = [recovery EXCEPT !.todo = recovery.todo \ {s}]
               /\ io' = [io EXCEPT ![Recovery] = UpdateCall(s, "interrupted")]
        BY <2>3 DEF ListNext
      <3>2. io'[Recovery] = UpdateCall(s, "interrupted") /\ io'[Recovery].session = s
        BY <1>3, <1>4, <3>1 DEF Writer, Typed, TypeOK
      <3>3. recovery'.todo \subseteq recovery.todo /\ recovery.kind # "none"
        BY <1>3, <2>3, <3>1 DEF RecoveryRecords, ListNext
      <3> QED BY <1>1, <3>2, <3>3 DEF Record, MarksOnlyOpen
    <2>4. ASSUME NEW o, Conclude(o)
          PROVE  MarksOnlyOpen'
      <3>1. recovery' = NoRecovery /\ io'[Recovery] = NoCall
        BY <1>3, <2>4 DEF Conclude, Writer, Typed, TypeOK
      <3> QED BY <1>4, <3>1 DEF MarksOnlyOpen
    <2>5. CASE Restored
      <3> DEFINE d == io[Recovery]
                 s == d.session
      <3>1. recovery.kind = "restore" /\ d.at = "done" /\ d.op = "get"
        BY <2>5 DEF Restored
      <3>2. CallerKnows(Recovery, d, s)
        BY <1>3, <3>1, CallerFacts
      <3>3. d.manifest = manifest[s]
        BY <3>1, <3>2 DEF CallerKnows, Current
      <3>4. CASE d.manifest.status \in Recoverable /\ ~ReadOnly(s, d.base)
        <4>1. /\ recovery' = [recovery EXCEPT !.record = d.manifest, !.base = d.base]
              /\ io' = [io EXCEPT ![Recovery] = UpdateCall(s, "interrupted")]
          BY <2>5, <3>4 DEF Restored
        <4>2. recovery'.todo = recovery.todo
          BY <1>3, <4>1 DEF RecoveryRecords
        <4>3. io'[Recovery] = UpdateCall(s, "interrupted") /\ io'[Recovery].session = s
          BY <1>3, <1>4, <4>1 DEF Writer, Typed, TypeOK
        <4> QED BY <1>1, <3>1, <3>3, <3>4, <4>2, <4>3 DEF Record, MarksOnlyOpen, Marked
      <3>5. CASE ~(d.manifest.status \in Recoverable /\ ~ReadOnly(s, d.base))
        BY <2>4, <2>5, <3>5 DEF Restored
      <3> QED BY <3>4, <3>5
    <2>6. CASE ListDone \/ RestoreMarked \/ RecoveryFails
      BY <2>4, <2>6 DEF ListDone, RestoreMarked, RecoveryFails
    <2> QED BY <2>1, <2>2, <2>3, <2>5, <2>6 DEF RecoveryStep
  <1> QED BY <1>1, <1>2, <1>5, RecordRecovery

LEMMA CrashRecord ==
    ASSUME Record, Writer, Crash
    PROVE  Record'
  <1>1. /\ UNCHANGED <<manifest, log>> /\ recovery' = NoRecovery
        /\ io' = [p \in Processes |-> NoCall] /\ cut.event \subseteq cut'.event
        /\ cut'.begin = cut.begin \union {io[r].session : r \in {q \in Runs : HalfBegun(q)}}
    BY DEF Crash, files
  <1>2. \A r \in Runs : io'[r] = NoCall /\ io'[Recovery] = NoCall
    BY <1>1 DEF Processes
  <1>3. ASSUME NEW r \in Runs
        PROVE  /\ run'[r].session = run[r].session /\ run'[r].rejected = run[r].rejected
               /\ run'[r].initial = run[r].initial
               /\ \/ r \notin Settling /\ run'[r] = run[r]
                  \/ run'[r].phase = "ended" /\ run'[r].outcome = "crashed" /\ run'[r].queue = <<>>
    <2>1. run[r] \in RunRecords
      BY RunFactsHold DEF Writer, RunFacts
    <2>2. run'[r] = IF r \in Settling
                    THEN [run[r] EXCEPT !.phase = "ended", !.outcome = "crashed", !.queue = <<>>]
                    ELSE run[r]
      BY DEF Crash
    <2> QED BY <2>1, <2>2 DEF RunRecords
  <1>4. ASSUME NEW r \in Runs
        PROVE  RunKept(r)'
    <2>1. RunKept(r) /\ io'[r] = NoCall /\ NoCall.op = "none"
      BY <1>2 DEF Record, NoCall
    <2>2. CASE r \notin Settling /\ run'[r] = run[r]
      <3>1. ~Tracked(run'[r], io'[r])
        BY <2>2 DEF Tracked, Settling
      <3>2. Unheard(r)'
        BY <1>1, <2>1, <2>2 DEF RunKept, Unheard
      <3>3. (Silenced(run[r], io[r]))'
        BY <2>1, <2>2 DEF RunKept, Silenced
      <3> QED BY <1>1, <2>1, <2>2, <3>1, <3>2, <3>3 DEF RunKept, RunTold
    <2>3. CASE run'[r].phase = "ended" /\ run'[r].outcome = "crashed" /\ run'[r].queue = <<>>
      <3>1. "crashed" \notin Lifecycle!TerminalStatuses
        BY DEF Lifecycle!TerminalStatuses
      <3> QED BY <2>1, <2>3, <3>1 DEF RunKept, RunTold, Tracked, Unheard, Early, Silenced, RecordedIn
    <2> QED BY <1>3, <2>2, <2>3
  <1>5. ASSUME NEW s \in Sessions, Fine(s)'
        PROVE  Rests(log[s], manifest[s].status, s \in cut'.event, FALSE)
    <2>1. s \notin cut'.begin
      BY <1>5 DEF Fine
    <2>2. Fine(s)
      BY <1>1, <1>3, <1>5 DEF Fine, Sound
    <2>3. ~BegunAt(s)
      BY <1>1, <2>1 DEF BegunAt, Begun, HalfBegun
    <2> QED BY <1>1, <2>2, <2>3 DEF Record, AtRest, Rests
  <1>6. \A s \in Sessions : AtRest(s)'
    <2>1. \A s : ~BegunAt(s)'
      BY <1>2 DEF BegunAt, Begun, NoCall
    <2> QED BY <1>1, <1>5, <2>1 DEF AtRest, Rests
  <1>7. MarksOnlyOpen'
    <2>1. io'[Recovery] = NoCall
      BY <1>1 DEF Processes
    <2> QED BY <1>1, <2>1 DEF MarksOnlyOpen, NoRecovery, NoCall
  <1> QED BY <1>4, <1>6, <1>7 DEF Record

LEMMA InitRecord == Init => Record
  <1> SUFFICES ASSUME Init PROVE Record
    OBVIOUS
  <1>1. \A s \in Sessions : log[s] = <<>> /\ manifest[s].status = "none"
    BY DEF Init, NoManifest
  <1>2. ASSUME NEW r \in Runs
        PROVE  RunKept(r)
    <2>1. run[r] = NoRun /\ io[r] = NoCall
      BY DEF Init, Processes
    <2>2. /\ NoRun.phase = "idle" /\ ~NoRun.rejected /\ NoRun.initial = "none"
      BY DEF NoRun
    <2> QED BY <1>1, <2>1, <2>2 DEF RunKept, RunTold, Tracked, Unheard, Silenced, RecordedIn
  <1>3. Reads(<<>>)
    BY DEF Reads, At
  <1>4. "none" \notin Lifecycle!ResetStatuses
    BY StatusFacts DEF Lifecycle!Statuses
  <1>5. \A s \in Sessions : AtRest(s)
    BY <1>1, <1>3, <1>4 DEF AtRest, Rests
  <1>6. MarksOnlyOpen
    BY DEF Init, Processes, MarksOnlyOpen, NoRecovery, NoCall
  <1> QED BY <1>2, <1>5, <1>6 DEF Record

LEMMA NextRecord == [SettledFirst]_vars /\ Writer /\ Record /\ [Next]_vars => Record'
  <1> SUFFICES ASSUME [SettledFirst]_vars, Writer, Record, [Next]_vars PROVE Record'
    OBVIOUS
  <1>1. OneWriter'
    BY NextWriter DEF Writer
  <1>2. CASE UNCHANGED vars
    BY <1>2 DEF vars, Record, RunKept, RunTold, Unheard, AtRest, Fine, BegunAt, MarksOnlyOpen
  <1>3. CASE Next
    BY <1>1, <1>3, RecordAccess, StartRecord, RunStepRecord, CancelRecord, RecoveryRecord, CrashRecord DEF Next
  <1> QED BY <1>2, <1>3

LEMMA RecordHolds == Spec /\ StartsOneByOne => []Record
  BY WriterHolds, InitRecord, NextRecord, PTL DEF Spec, StartsOneByOne

-----------------------------------------------------------------------------
\* The theorems.

\* A log that can be read is one the next Run accepts, once recovery has marked it.
LEMMA RecordReadable == Writer /\ Record => LogsStayReadable
  <1> SUFFICES ASSUME Writer, Record, NEW s \in Sessions \ cut.begin,
                      \A r \in Runs : run[r].session = s => Unharmed(r)
               PROVE  HistoryAccepts(log[s], IF manifest[s].status \in Recoverable
                                             THEN "interrupted" ELSE manifest[s].status)
    BY DEF LogsStayReadable
  <1>1. Fine(s)
    BY DEF Fine, Sound, Unharmed
  <1>2. Reads(log[s])
    BY <1>1 DEF Record, AtRest, Rests
  <1>3. manifest[s].status \in Lifecycle!Statuses \union {"none"}
    BY DEF Writer, Typed, TypeOK, Manifests
  <1>4. CASE manifest[s].status = "none"
    <2>1. log[s] = <<>>
      BY <1>4 DEF Writer, FilesAgree, Agree
    <2>2. \A type : At(log[s], type) = {}
      BY <2>1 DEF At
    <2> QED BY <2>2 DEF HistoryAccepts
  <1>5. CASE manifest[s].status # "none"
    <2>1. (IF manifest[s].status \in Recoverable THEN "interrupted" ELSE manifest[s].status) \in Closing
      BY <1>3, <1>5 DEF Closing, Recoverable, Lifecycle!Statuses, Lifecycle!ResetStatuses
    <2> QED BY <1>2, <2>1, ReadsAccepted
  <1> QED BY <1>4, <1>5

LEMMA RecordSettled == Record => SettledRunIsRecorded
  <1> SUFFICES ASSUME Record, NEW r \in Runs, run[r].phase = "ended",
                      run[r].outcome \in Lifecycle!TerminalStatuses, run[r].emitted > 0
               PROVE  LET l == log[run[r].session]
                          first == run[r].seq - run[r].emitted
                      IN  /\ RunEvents(r) = first .. run[r].seq
                          /\ l[first].type = "user"
                          /\ l[run[r].seq].to = run[r].outcome
                          /\ Latest(At(l, "status")) = run[r].seq =>
                                 manifest[run[r].session].status = run[r].outcome
    BY DEF SettledRunIsRecorded
  <1>1. RecordedIn(r, run[r], log[run[r].session], manifest[run[r].session].status)
    BY DEF Record, RunKept
  <1> QED BY <1>1 DEF RecordedIn, RunEvents, IsStatus

\* As long as nothing is started while a Run settles: once its Runs have settled and
\* recovery has marked it, the log of a Session is one the next Run accepts, whatever
\* its Runs reported and however many of them a crash has ended, unless a write failed,
\* a Run began from an interrupted one, or a crash came between the two files of a
\* Run's beginning (session-history.ts against chat-runner.ts persist).
THEOREM LogsStayReadableHolds == Spec /\ StartsOneByOne => []LogsStayReadable
  <1>1. Spec /\ StartsOneByOne => []Writer /\ []Record
    BY WriterHolds, RecordHolds
  <1> QED BY <1>1, RecordReadable, PTL

\* As long as nothing is started while a Run settles: a Run that settles with its own
\* status has left all it reported in the log, in one piece and in order, its end last;
\* and unless a later Run has reported, the manifest says how it ended
\* (chat-runner.ts persist and finally).
THEOREM SettledRunIsRecordedHolds == Spec /\ StartsOneByOne => []SettledRunIsRecorded
  <1>1. Spec /\ StartsOneByOne => []Record
    BY RecordHolds
  <1> QED BY <1>1, RecordSettled, PTL
=============================================================================
