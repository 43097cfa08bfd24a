---------------------------- MODULE SessionStore ----------------------------
(***************************************************************************)
(* How Sessions are kept: a manifest and an event log per Session, written *)
(* one after the other by the Runs of the Host and by its recovery. Every  *)
(* file access is awaited, so an action is one access and others may come  *)
(* between two of them. The Host decides who may start; a Run it shows as  *)
(* cancelled or finished still writes until it settles. A crash keeps the  *)
(* files and loses everything else.                                        *)
(***************************************************************************)
EXTENDS Naturals, Sequences

CONSTANTS Sessions, Runs, Recovery, None,
          MaxEvents,  \* how much a Run may report before its terminal status
          Reports,    \* the statuses a Run may report
          Faults,     \* the faults of the environment: "crash", "io"
          Patient     \* whether the user waits for a Run shown as over to settle

ASSUME StoreAssumption ==
    /\ MaxEvents \in Nat
    /\ "preparing" \in Reports
    /\ Faults \subseteq {"crash", "io"}
    /\ Patient \in BOOLEAN
    /\ Recovery \notin Runs
    /\ None \notin Runs \union Sessions

Processes == Runs \union {Recovery}

VARIABLES
    manifest,   \* per Session: manifest.json
    log,        \* per Session: events.jsonl
    staged,     \* per Session: the temporary files both are renamed from
    fresh,      \* the Sessions this Host created (#freshSessionIds)
    io,         \* per process: the repository call it waits for
    run,        \* per Run: the chat runner and its chain of writes
    active,     \* the Run the Host shows, if any (#activeRun)
    recovery,   \* the list or the restore in flight
    answer,     \* what the last list or restore came to, until the user goes on
    cut         \* history: the Sessions a fault hit between the two files of an event,
                \* and those a crash hit between the two of a Run's beginning

vars == <<manifest, log, staged, fresh, io, run, active, recovery, answer, cut>>

files == <<manifest, log, staged>>

\* Only for its sets of statuses.
Lifecycle == INSTANCE SessionLifecycle WITH Runtimes <- Sessions, status <- manifest, owner <- run

NoManifest == [status |-> "none", last |-> 0]

NoCall == [op |-> "none", at |-> "idle", session |-> None, manifest |-> NoManifest, base |-> <<>>,
           seq |-> 0, event |-> None, status |-> "none", error |-> "none"]

NoRun == [phase |-> "idle", session |-> None, initial |-> "none", status |-> "none",
          aborted |-> FALSE, exceeded |-> FALSE, emitted |-> 0, blocks |-> 0, seq |-> 0,
          queue |-> <<>>, rejected |-> FALSE, outcome |-> "none"]

NoRecovery == [kind |-> "none", todo |-> {}, record |-> NoManifest, base |-> <<>>]

NoAnswer == [kind |-> "none", session |-> None, result |-> "none"]

Init ==
    /\ manifest = [s \in Sessions |-> NoManifest]
    /\ log = [s \in Sessions |-> <<>>]
    /\ staged = [s \in Sessions |-> [manifest |-> None, log |-> None]]
    /\ fresh = {}
    /\ io = [p \in Processes |-> NoCall]
    /\ run = [r \in Runs |-> NoRun]
    /\ active = None
    /\ recovery = NoRecovery
    /\ answer = NoAnswer
    /\ cut = [event |-> {}, begin |-> {}]

-----------------------------------------------------------------------------
\* What a log is read as.

Event(r, type) == [type |-> type, run |-> r, from |-> "none", to |-> "none", block |-> 0]

StatusEvent(r, from, to) == [Event(r, "status") EXCEPT !.from = from, !.to = to]

At(l, type) == {i \in DOMAIN l : l[i].type = type}

Before(S, i) == {j \in S : j < i}

Latest(S) == CHOOSE i \in S : \A j \in S : j <= i

\* isLegacyReadOnlySession: a Session of the first versions has no status events.
LegacyReadOnly(l) == At(l, "user") # {} /\ At(l, "status") = {}

ReadOnly(s, l) == s \notin fresh /\ LegacyReadOnly(l)

\* isRecoverableStatus
Recoverable == Lifecycle!ActiveStatuses \union {"idle"}

\* The statuses that close a Run, for the readers of the log.
Closing == Lifecycle!TerminalStatuses \union {"interrupted"}

\* legalTransitions of the readers: with the reset of beginRun.
LoggedNext(s) ==
    IF s \in Closing THEN {"preparing"} ELSE Lifecycle!LegalNext(s) \union {"interrupted"}

\* The status events one Run left after its user message.
StatusesOf(l, u) == {i \in At(l, "status") : i > u /\ \A v \in At(l, "user") : v > u => i < v}

Ended(l, u) == {i \in StatusesOf(l, u) : l[i].to \in Closing}

\* projectSessionModelHistory and closeRun: the transitions are a legal chain, a
\* Run is closed once, and only the last Run may lack its end. A Run without
\* status events is closed by the status of the manifest.
HistoryAccepts(l, status) ==
    /\ \A i \in At(l, "status") :
           LET earlier == Before(At(l, "status"), i)
           IN  /\ l[i].from = (IF earlier = {} THEN "idle" ELSE l[Latest(earlier)].to)
               /\ l[i].to \in LoggedNext(l[i].from)
               /\ Before(At(l, "user"), i) # {}
    /\ \A u \in At(l, "user") :
           /\ \A e \in Ended(l, u), i \in StatusesOf(l, u) : i <= e
           /\ (\E v \in At(l, "user") : v > u) =>
                  \/ Ended(l, u) # {}
                  \/ StatusesOf(l, u) = {} /\ status \in Closing

\* recoverRunBudget: what exceeded the budget is ended at once, as exceeded or
\* cancelled, and the manifest says the same of the last Run.
BudgetAccepts(l, status) ==
    LET begun == {i \in At(l, "status") : l[i].to = "preparing"}
        current == {i \in At(l, "exceeded") : \A b \in begun : b < i}
        endings == {i \in At(l, "status") : l[i].to \in Closing}
    IN  /\ \A i \in At(l, "exceeded") :
               /\ i + 1 \in DOMAIN l => l[i + 1].to \in {"budget-exceeded", "cancelled"}
               /\ \E b \in Before(begun, i) : \A e \in Before(endings, i) : e < b
        /\ \A i \in endings : l[i].to = "budget-exceeded" => i - 1 \in At(l, "exceeded")
        /\ \A i, j \in endings : i < j => \E b \in begun : i < b /\ b < j
        /\ current # {} => status \in {"budget-exceeded", "cancelled"}
        /\ status = "budget-exceeded" => current # {}

\* recoverReasoning: a block is started once.
ReasoningAccepts(l) ==
    \A i, j \in At(l, "reasoning") : l[i].block = l[j].block => i = j

RestoreAccepts(l, status) == BudgetAccepts(l, status) /\ ReasoningAccepts(l)

-----------------------------------------------------------------------------
\* The repository: one call of a process is a series of file accesses.

Call(op, s) == [NoCall EXCEPT !.op = op, !.at = "manifest", !.session = s]

AppendCall(s, seq, event) == [Call("append", s) EXCEPT !.seq = seq, !.event = event]

UpdateCall(s, status) == [Call("update", s) EXCEPT !.status = status]

Waits(p, at) == io[p].at = at

Pending(p) == io[p].at \notin {"idle", "done", "failed"}

Proceed(p, at) == io' = [io EXCEPT ![p].at = at]

FailWith(p, error) == io' = [io EXCEPT ![p].at = "failed", ![p].error = error]

\* Between the two renames of appendEvent: the log has the event, the manifest not yet.
HalfAppended(p) == io[p].op = "append" /\ io[p].at \in {"stageManifest", "moveManifest"}

\* Between the two writes of beginRun: the log says that the Run begins, the manifest
\* still what was before it.
HalfBegun(r) ==
    \/ /\ io[r].op = "append" /\ io[r].event.to = "preparing"
       /\ io[r].at \in {"stageManifest", "moveManifest", "done"}
    \/ io[r].op = "update" /\ io[r].status = "preparing" /\ io[r].at # "done"

\* get, and the manifests.read of create.
ReadManifest(p) ==
    /\ Waits(p, "manifest")
    /\ IF io[p].op = "create"
       THEN Proceed(p, "stageManifest")
       ELSE io' = [io EXCEPT ![p].at = "events", ![p].manifest = manifest[io[p].session]]
    /\ UNCHANGED <<files, fresh, cut>>

\* Mutant: the sequence of the manifest is not compared with the log.
ReadEventsTrusting(p) ==
    /\ Waits(p, "events")
    /\ IF io[p].op = "get"
       THEN io' = [io EXCEPT ![p].at = "done", ![p].base = log[io[p].session]]
       ELSE Proceed(p, IF io[p].op = "append" THEN "sequence" ELSE "stageManifest")
    /\ UNCHANGED <<files, fresh, cut>>

\* get: both files must agree. appendEvent and update refuse a read-only Session.
ReadEvents(p) ==
    /\ Waits(p, "events")
    /\ LET s == io[p].session
       IN  IF io[p].manifest.last # Len(log[s]) THEN FailWith(p, "corrupt")
           ELSE IF io[p].op = "get"
                THEN io' = [io EXCEPT ![p].at = "done", ![p].base = log[s]]
           ELSE IF ReadOnly(s, log[s]) THEN FailWith(p, "readonly")
           ELSE Proceed(p, IF io[p].op = "append" THEN "sequence" ELSE "stageManifest")
    /\ UNCHANGED <<files, fresh, cut>>

\* EventStore.append reads the log again for the sequence it expects.
CheckSequence(p) ==
    /\ Waits(p, "sequence")
    /\ IF io[p].seq = Len(log[io[p].session]) + 1 THEN Proceed(p, "base")
       ELSE FailWith(p, "unavailable")
    /\ UNCHANGED <<files, fresh, cut>>

\* Mutant: a failed read is taken for an empty log.
ReadBaseOrNothing(p) ==
    /\ Waits(p, "base")
    /\ \E base \in {<<>>, log[io[p].session]} :
           io' = [io EXCEPT ![p].at = "stageLog", ![p].base = base]
    /\ UNCHANGED <<files, fresh, cut>>

\* appendText reads it once more, for the file it will replace.
ReadBase(p) ==
    /\ Waits(p, "base")
    /\ io' = [io EXCEPT ![p].at = "stageLog", ![p].base = log[io[p].session]]
    /\ UNCHANGED <<files, fresh, cut>>

StageLog(p) ==
    /\ Waits(p, "stageLog")
    /\ staged' = [staged EXCEPT ![io[p].session].log = Append(io[p].base, io[p].event)]
    /\ Proceed(p, "moveLog")
    /\ UNCHANGED <<manifest, log, fresh, cut>>

\* rename: another writer may have moved the temporary file away, or replaced it.
MoveLog(p) ==
    /\ Waits(p, "moveLog")
    /\ LET s == io[p].session
       IN  IF staged[s].log = None
           THEN FailWith(p, "unavailable") /\ UNCHANGED <<log, staged>>
           ELSE /\ log' = [log EXCEPT ![s] = staged[s].log]
                /\ staged' = [staged EXCEPT ![s].log = None]
                /\ Proceed(p, "stageManifest")
    /\ UNCHANGED <<manifest, fresh, cut>>

\* What create, appendEvent and update write, over the manifest they read.
NewManifest(c) ==
    CASE c.op = "create" -> [status |-> "idle", last |-> 0]
      [] c.op = "append" -> [c.manifest EXCEPT !.last = c.seq]
      [] c.op = "update" -> [c.manifest EXCEPT !.status = c.status]

StageManifest(p) ==
    /\ Waits(p, "stageManifest")
    /\ staged' = [staged EXCEPT ![io[p].session].manifest = NewManifest(io[p])]
    /\ Proceed(p, "moveManifest")
    /\ UNCHANGED <<manifest, log, fresh, cut>>

MoveManifest(p) ==
    /\ Waits(p, "moveManifest")
    /\ LET s == io[p].session
       IN  IF staged[s].manifest = None
           THEN FailWith(p, "unavailable") /\ UNCHANGED <<manifest, staged, fresh>>
           ELSE /\ manifest' = [manifest EXCEPT ![s] = staged[s].manifest]
                /\ staged' = [staged EXCEPT ![s].manifest = None]
                /\ fresh' = IF io[p].op = "create" THEN fresh \union {s} ELSE fresh
                /\ Proceed(p, "done")
    /\ UNCHANGED <<log, cut>>

\* Any access may fail; a failed write of the manifest removes its temporary file.
AccessFails(p) ==
    /\ "io" \in Faults
    /\ Pending(p)
    /\ FailWith(p, "unavailable")
    /\ staged' = IF io[p].at \in {"stageManifest", "moveManifest"}
                 THEN [staged EXCEPT ![io[p].session].manifest = None]
                 ELSE staged
    /\ cut' = IF HalfAppended(p) THEN [cut EXCEPT !.event = @ \union {io[p].session}] ELSE cut
    /\ UNCHANGED <<manifest, log, fresh>>

Access(p) ==
    /\ \/ ReadManifest(p) \/ ReadEvents(p) \/ CheckSequence(p) \/ ReadBase(p)
       \/ StageLog(p) \/ MoveLog(p) \/ StageManifest(p) \/ MoveManifest(p)
       \/ AccessFails(p)
    /\ UNCHANGED <<run, active, recovery, answer>>

-----------------------------------------------------------------------------
\* The Runs of the Host.

Settling == {r \in Runs : run[r].phase \notin {"idle", "ended"}}

\* canStart and isRestoring: a Run that still settles does not count.
CanStart ==
    /\ active = None
    /\ recovery.kind = "none"
    /\ Patient => Settling = {}

Answers(r, phase, at) == run[r].phase = phase /\ io[r].at = at

Start(r, s, phase, op) ==
    /\ CanStart
    /\ run[r].phase = "idle"
    /\ run' = [run EXCEPT ![r].phase = phase, ![r].session = s]
    /\ io' = [io EXCEPT ![r] = Call(op, s)]
    /\ active' = r
    /\ answer' = NoAnswer
    /\ UNCHANGED <<files, fresh, recovery, cut>>

\* The id of a new Session is a new one.
StartNew(r) ==
    \E s \in Sessions :
        /\ manifest[s] = NoManifest
        /\ \A q \in Runs : run[q].session # s
        /\ Start(r, s, "creating", "create")

\* The user continues what a list or the report of a Run has shown.
Shown(s) ==
    /\ manifest[s] # NoManifest
    /\ \/ manifest[s].status # "idle"
       \/ ReadOnly(s, log[s])
       \/ \E q \in Runs :
              run[q].session = s /\ run[q].emitted > 0 /\ run[q].outcome # "crashed"

StartExisting(r) ==
    \E s \in Sessions :
        /\ Shown(s)
        /\ Start(r, s, "opening", "get")

\* The Run's promise settles: the Host forgets it.
End(r, outcome) ==
    /\ run' = [run EXCEPT ![r].phase = "ended", ![r].outcome = outcome, ![r].queue = <<>>]
    /\ io' = [io EXCEPT ![r] = NoCall]
    /\ active' = IF active = r THEN None ELSE active
    /\ UNCHANGED <<files, fresh, recovery, answer, cut>>

Greet(r, seq, status) ==
    /\ run' = [run EXCEPT ![r].phase = "greeting", ![r].seq = seq,
                           ![r].initial = status, ![r].status = status]
    /\ io' = [io EXCEPT ![r] = AppendCall(run[r].session, seq, Event(r, "user"))]
    /\ UNCHANGED <<files, fresh, active, recovery, answer, cut>>

Created(r) ==
    /\ Answers(r, "creating", "done")
    /\ ~run[r].aborted
    /\ Greet(r, 1, "idle")

\* Mutant: a Session that its last Run left active is continued as it is.
RefusalOfCorrupt(r) ==
    LET c == io[r]
    IN  CASE run[r].aborted -> "cancelled"
          [] ReadOnly(c.session, c.base) -> "readonly"
          [] ~HistoryAccepts(c.base, c.manifest.status) -> "corrupt"
          [] OTHER -> "none"

\* Why runInternal refuses the record it read, in the order of its checks.
Refusal(r) ==
    LET c == io[r]
    IN  CASE run[r].aborted -> "cancelled"
          [] ReadOnly(c.session, c.base) -> "readonly"
          [] c.manifest.status \in Lifecycle!ActiveStatuses -> "unavailable"
          [] ~HistoryAccepts(c.base, c.manifest.status) -> "corrupt"
          [] OTHER -> "none"

Opened(r) ==
    /\ Answers(r, "opening", "done")
    /\ Refusal(r) = "none"
    /\ Greet(r, Len(io[r].base) + 1, io[r].manifest.status)

OpenRefused(r) ==
    /\ Answers(r, "opening", "done")
    /\ Refusal(r) # "none"
    /\ End(r, Refusal(r))

\* throwIfAborted after the creation and after the user message.
BeginCancelled(r) ==
    /\ \/ Answers(r, "creating", "done")
       \/ Answers(r, "greeting", "done")
    /\ run[r].aborted
    /\ End(r, "cancelled")

\* A call of runInternal itself fails.
BeginFails(r) ==
    /\ run[r].phase \in {"creating", "opening", "greeting"}
    /\ io[r].at = "failed"
    /\ End(r, IF run[r].aborted THEN "cancelled" ELSE io[r].error)

\* persist: the event gets its sequence number now and its place in the chain; a
\* status is also written to the manifest. A rejected chain runs nothing more.
Reported(r, event, update) ==
    LET seq == run[r].seq + 1
        jobs == <<AppendCall(run[r].session, seq, event)>> \o update
    IN  [run[r] EXCEPT !.seq = seq, !.emitted = @ + 1,
             !.queue = IF run[r].rejected THEN <<>> ELSE @ \o jobs]

ReportedStatus(r, to) ==
    [Reported(r, StatusEvent(r, run[r].status, to), <<UpdateCall(run[r].session, to)>>)
        EXCEPT !.status = to]

\* beginRun reports at once, in the turn of the event loop that calls run.
Greeted(r) ==
    /\ Answers(r, "greeting", "done")
    /\ ~run[r].aborted
    /\ run' = [run EXCEPT ![r] = [ReportedStatus(r, "preparing") EXCEPT !.phase = "running"]]
    /\ io' = [io EXCEPT ![r] = NoCall]
    /\ UNCHANGED <<files, fresh, active, recovery, answer, cut>>

Live(r) == run[r].phase = "running" /\ run[r].status \in Lifecycle!ActiveStatuses

\* AgentRuntime: what it may still report.
NextStatuses(r) ==
    (Reports \intersect Lifecycle!LegalNext(run[r].status)) \
        ((IF run[r].aborted THEN {} ELSE {"cancelled"})
            \union (IF run[r].exceeded THEN {"failed"} ELSE {"budget-exceeded"})
            \union (IF run[r].aborted \/ run[r].exceeded
                    THEN Lifecycle!ActiveStatuses \union {"completed", "truncated"} ELSE {}))

MayReport(r) == Live(r) /\ run[r].emitted < MaxEvents

\* The Host takes the Run for finished when it reports its end, except a failure,
\* whose error comes when it settles.
EmitStatus(r) ==
    /\ Live(r)
    /\ \E to \in NextStatuses(r) :
           /\ to \in Lifecycle!ActiveStatuses => MayReport(r)
           /\ run' = [run EXCEPT ![r] = ReportedStatus(r, to)]
           /\ active' = IF active = r /\ to \in Lifecycle!TerminalStatuses \ {"failed"}
                        THEN None ELSE active
    /\ UNCHANGED <<files, fresh, io, recovery, answer, cut>>

\* A reasoning block: the ids count from one in every Run.
EmitReasoning(r) ==
    /\ MayReport(r)
    /\ run[r].status = "streaming"
    /\ ~run[r].aborted /\ ~run[r].exceeded
    /\ LET block == run[r].blocks + 1
       IN  run' = [run EXCEPT ![r] =
                     [Reported(r, [Event(r, "reasoning") EXCEPT !.block = block], <<>>)
                         EXCEPT !.blocks = block]]
    /\ UNCHANGED <<files, fresh, io, active, recovery, answer, cut>>

EmitExceeded(r) ==
    /\ MayReport(r)
    /\ run[r].status \in {"streaming", "executing_tool"}
    /\ ~run[r].aborted /\ ~run[r].exceeded
    /\ run' = [run EXCEPT ![r] = [Reported(r, Event(r, "exceeded"), <<>>) EXCEPT !.exceeded = TRUE]]
    /\ UNCHANGED <<files, fresh, io, active, recovery, answer, cut>>

\* The chain of promises behind the Run.
Persist(r) ==
    /\ run[r].phase = "running"
    /\ io[r].at \in {"idle", "done"}
    /\ run[r].queue # <<>>
    /\ io' = [io EXCEPT ![r] = Head(run[r].queue)]
    /\ run' = [run EXCEPT ![r].queue = Tail(@)]
    /\ UNCHANGED <<files, fresh, active, recovery, answer, cut>>

\* Mutant: the rejection of the chain reaches nobody.
PersistFailsSilently(r) ==
    /\ Answers(r, "running", "failed")
    /\ ~run[r].rejected
    /\ run' = [run EXCEPT ![r].queue = <<>>, ![r].rejected = TRUE]
    /\ UNCHANGED <<files, fresh, io, active, recovery, answer, cut>>

PersistFails(r) ==
    /\ Answers(r, "running", "failed")
    /\ io' = [io EXCEPT ![r] = NoCall]
    /\ run' = [run EXCEPT ![r].queue = <<>>, ![r].rejected = TRUE]
    /\ UNCHANGED <<files, fresh, active, recovery, answer, cut>>

\* Mutant: the Run does not wait for the chain.
SettleAtOnce(r) ==
    /\ run[r].phase = "running"
    /\ ~Live(r)
    /\ End(r, IF run[r].rejected THEN "unpersisted" ELSE run[r].status)

\* await persistence: the Run is over when what it reported is written.
Settle(r) ==
    /\ run[r].phase = "running"
    /\ ~Live(r)
    /\ run[r].queue = <<>>
    /\ io[r].at \in {"idle", "done"}
    /\ End(r, IF run[r].rejected THEN "unpersisted" ELSE run[r].status)

\* The Host shows the Run as cancelled; the Run itself goes on to its end.
Cancel(r) ==
    /\ active = r
    /\ run' = [run EXCEPT ![r].aborted = TRUE]
    /\ active' = None
    /\ UNCHANGED <<files, fresh, io, recovery, answer, cut>>

RunStep(r) ==
    \/ Created(r) \/ Opened(r) \/ OpenRefused(r) \/ BeginCancelled(r) \/ BeginFails(r)
    \/ Greeted(r) \/ EmitStatus(r) \/ EmitReasoning(r) \/ EmitExceeded(r)
    \/ Persist(r) \/ PersistFails(r) \/ Settle(r)

-----------------------------------------------------------------------------
\* The recovery of the Host.

CanRecover == active = None /\ recovery.kind = "none"

Recover(kind, todo) ==
    /\ recovery' = [NoRecovery EXCEPT !.kind = kind, !.todo = todo]
    /\ answer' = NoAnswer
    /\ UNCHANGED <<files, fresh, run, active, cut>>

Conclude(result) ==
    /\ answer' = [kind |-> recovery.kind, session |-> io[Recovery].session, result |-> result]
    /\ recovery' = NoRecovery
    /\ io' = [io EXCEPT ![Recovery] = NoCall]
    /\ UNCHANGED <<files, fresh, run, active, cut>>

\* Mutant: the lock does not ask for Runs that settle.
StartListUnlocked ==
    /\ CanRecover
    /\ Recover("list", {s \in Sessions : manifest[s].status \in Recoverable})
    /\ UNCHANGED io

\* list takes the Session history lock, so no Run writes a manifest until it is
\* over: reading them all is one step.
StartList ==
    /\ CanRecover
    /\ Settling = {}
    /\ Recover("list", {s \in Sessions : manifest[s].status \in Recoverable})
    /\ UNCHANGED io

\* A read-only Session is only listed as interrupted.
MayGoOn ==
    \/ io[Recovery].at \in {"idle", "done"}
    \/ io[Recovery].at = "failed" /\ io[Recovery].error = "readonly"

ListNext ==
    /\ recovery.kind = "list"
    /\ MayGoOn
    /\ \E s \in recovery.todo :
           /\ recovery' = [recovery EXCEPT !.todo = @ \ {s}]
           /\ io' = [io EXCEPT ![Recovery] = UpdateCall(s, "interrupted")]
    /\ UNCHANGED <<files, fresh, run, active, answer, cut>>

ListDone ==
    /\ recovery.kind = "list"
    /\ MayGoOn
    /\ recovery.todo = {}
    /\ Conclude("ok")

\* restore asks for no lock: a Run that settles may still write the Session.
StartRestore ==
    /\ CanRecover
    /\ Patient => Settling = {}
    /\ \E s \in Sessions :
           /\ Shown(s)
           /\ io' = [io EXCEPT ![Recovery] = Call("get", s)]
    /\ Recover("restore", {})

Projection(l, status) == IF RestoreAccepts(l, status) THEN "ok" ELSE "corrupt"

\* The record is read, or, if its status is recoverable, also marked.
Restored ==
    /\ recovery.kind = "restore"
    /\ io[Recovery].at = "done" /\ io[Recovery].op = "get"
    /\ LET c == io[Recovery]
       IN  IF c.manifest.status \in Recoverable /\ ~ReadOnly(c.session, c.base)
           THEN /\ recovery' = [recovery EXCEPT !.record = c.manifest, !.base = c.base]
                /\ io' = [io EXCEPT ![Recovery] = UpdateCall(c.session, "interrupted")]
                /\ UNCHANGED <<files, fresh, run, active, answer, cut>>
           ELSE Conclude(Projection(c.base, c.manifest.status))

\* The projection is of the record as it was before the mark.
RestoreMarked ==
    /\ recovery.kind = "restore"
    /\ io[Recovery].at = "done" /\ io[Recovery].op = "update"
    /\ Conclude(Projection(recovery.base, recovery.record.status))

\* Mutant: only a restore reports its failure.
RestoreFails ==
    /\ recovery.kind = "restore"
    /\ io[Recovery].at = "failed"
    /\ Conclude(io[Recovery].error)

RecoveryFails ==
    /\ recovery.kind # "none"
    /\ io[Recovery].at = "failed"
    /\ recovery.kind = "list" => io[Recovery].error # "readonly"
    /\ Conclude(io[Recovery].error)

RecoveryStep == ListNext \/ ListDone \/ Restored \/ RestoreMarked \/ RecoveryFails

\* The extension host dies: the files stay as they are.
Crash ==
    /\ "crash" \in Faults
    /\ run' = [r \in Runs |->
                  IF r \in Settling
                  THEN [run[r] EXCEPT !.phase = "ended", !.outcome = "crashed", !.queue = <<>>]
                  ELSE run[r]]
    /\ cut' = [event |-> cut.event \union {io[p].session : p \in {q \in Processes : HalfAppended(q)}},
               begin |-> cut.begin \union {io[r].session : r \in {q \in Runs : HalfBegun(q)}}]
    /\ io' = [p \in Processes |-> NoCall]
    /\ active' = None
    /\ recovery' = NoRecovery
    /\ fresh' = {}
    /\ answer' = NoAnswer
    /\ UNCHANGED files

Next ==
    \/ \E p \in Processes : Access(p)
    \/ \E r \in Runs : StartNew(r) \/ StartExisting(r) \/ RunStep(r) \/ Cancel(r)
    \/ StartList \/ StartRestore \/ RecoveryStep
    \/ Crash

Spec == Init /\ [][Next]_vars

\* The file system answers, and the event loop runs what waits for the answer.
FairSpec ==
    /\ Spec
    /\ \A p \in Processes : WF_vars(Access(p))
    /\ \A r \in Runs : WF_vars(RunStep(r))
    /\ WF_vars(RecoveryStep)

-----------------------------------------------------------------------------
Events ==
    [type : {"user", "status", "reasoning", "exceeded"}, run : Runs,
     from : Lifecycle!Statuses \union {"none"}, to : Lifecycle!Statuses \union {"none"},
     block : Nat]

Manifests == [status : Lifecycle!Statuses \union {"none"}, last : Nat]

\* No manifest is the sign that there is none.
ASSUME NoneAssumption == None \notin Manifests

Steps == {"idle", "manifest", "events", "sequence", "base", "stageLog", "moveLog",
          "stageManifest", "moveManifest", "done", "failed"}

Calls ==
    [op : {"none", "create", "get", "append", "update"}, at : Steps,
     session : Sessions \union {None}, manifest : Manifests, base : Seq(Events), seq : Nat,
     event : Events \union {None}, status : Lifecycle!Statuses \union {"none"},
     error : {"none", "corrupt", "readonly", "unavailable"}]

Outcomes == Lifecycle!TerminalStatuses
    \union {"none", "crashed", "unpersisted", "corrupt", "readonly", "unavailable"}

\* A Run reports no more than its events and its end.
RunRecords ==
    [phase : {"idle", "creating", "opening", "greeting", "running", "ended"},
     session : Sessions \union {None}, initial : Lifecycle!Statuses \union {"none"},
     status : Lifecycle!Statuses \union {"none"}, aborted : BOOLEAN, exceeded : BOOLEAN,
     emitted : 0 .. MaxEvents + 2, blocks : Nat, seq : Nat, queue : Seq(Calls),
     rejected : BOOLEAN, outcome : Outcomes]

StagedFiles == [manifest : Manifests \union {None}, log : Seq(Events) \union {None}]

RecoveryRecords ==
    [kind : {"none", "list", "restore"}, todo : SUBSET Sessions, record : Manifests,
     base : Seq(Events)]

AnswerRecords ==
    [kind : {"none", "list", "restore"}, session : Sessions \union {None},
     result : {"none", "ok", "corrupt", "readonly", "unavailable"}]

\* What every variable may be.
TypeOK ==
    /\ manifest \in [Sessions -> Manifests]
    /\ log \in [Sessions -> Seq(Events)]
    /\ staged \in [Sessions -> StagedFiles]
    /\ fresh \subseteq Sessions
    /\ io \in [Processes -> Calls]
    /\ run \in [Runs -> RunRecords]
    /\ active \in Runs \union {None}
    /\ recovery \in RecoveryRecords
    /\ answer \in AnswerRecords
    /\ cut \in [event : SUBSET Sessions, begin : SUBSET Sessions]

\* The manifest names the last event of the log, except while an event is on its
\* way from one file to the other; if a fault falls into that gap the log stays
\* one event ahead for good, and no later writer widens the gap or hides it
\* (session-repository.ts appendEvent and get). Everything keeps its type with it.
LogAndManifest ==
    /\ TypeOK
    /\ \A s \in Sessions :
          Len(log[s]) = manifest[s].last +
              (IF s \in cut.event \/ \E p \in Processes : io[p].session = s /\ HalfAppended(p) THEN 1 ELSE 0)

\* What was written is never lost or changed, through crashes, failures and the
\* replacement of the whole file by each append (vscode-bounded-text-storage.ts).
LogOnlyGrows ==
    [][\A s \in Sessions : SubSeq(log'[s], 1, Len(log[s])) = log[s]]_vars

RunEvents(r) == {i \in DOMAIN log[run[r].session] : log[run[r].session][i].run = r}

\* A Run that settles with its own status has left all it reported in the log, in
\* one piece and in order, its end last; and unless a later Run has reported, the
\* manifest says how it ended (chat-runner.ts persist and finally).
SettledRunIsRecorded ==
    \A r \in Runs :
        run[r].phase = "ended" /\ run[r].outcome \in Lifecycle!TerminalStatuses /\ run[r].emitted > 0 =>
            LET l == log[run[r].session]
                first == run[r].seq - run[r].emitted
            IN  /\ RunEvents(r) = first .. run[r].seq
                /\ l[first].type = "user"
                /\ l[run[r].seq].to = run[r].outcome
                /\ Latest(At(l, "status")) = run[r].seq =>
                       manifest[run[r].session].status = run[r].outcome

Unharmed(r) == r \notin Settling /\ ~run[r].rejected /\ run[r].initial # "interrupted"

\* Once its Runs have settled and recovery has marked it, the log of a Session is
\* one the next Run accepts, whether its Runs came to an end or died, as long as
\* none of them failed to write, began from an interrupted one, or died with its
\* beginning in the log only (session-history.ts against chat-runner.ts persist).
LogsStayReadable ==
    \A s \in Sessions \ cut.begin :
        LET status == manifest[s].status
        IN  (\A r \in Runs : run[r].session = s => Unharmed(r))
            => HistoryAccepts(log[s], IF status \in Recoverable THEN "interrupted" ELSE status)

\* Recovery marks a Session as interrupted only when no Run of it is under way,
\* although it decides that before it reads the files
\* (webview-run-message-handler.ts acquireSessionHistoryLock).
OnlyRestingIsInterrupted ==
    [][\A s \in Sessions :
         manifest[s].status # "interrupted" /\ manifest'[s].status = "interrupted" =>
             \A r \in Settling : run[r].session # s]_vars

\* A Run that was started settles, also when its writes fail
\* (chat-runner.ts await persistence).
RunsSettle == \A r \in Runs : run[r].phase # "idle" ~> run[r].phase = "ended"

\* A list or a restore is answered, and so the lock is released
\* (webview-message-controller.ts finally(releaseHistoryLock)).
RecoveryEnds == recovery.kind # "none" ~> recovery.kind = "none"

\* docs/persistence.md:80: lastEventSequence equals the greatest committed sequence,
\* here once the Runs of the Session have settled.
SettledSessionsAgree ==
    \A s \in Sessions \ cut.event :
        (\A r \in Settling : run[r].session # s) => manifest[s].last = Len(log[s])

Hit == cut.event \union cut.begin

\* docs/persistence.md:153: a later submit may reset a recovered Session to a new
\* Run; so no Run finds a corrupt Session that no fault has hit.
WholeSessionsContinue ==
    \A r \in Runs : run[r].outcome = "corrupt" => run[r].session \in Hit

\* docs/persistence.md:171: a valid lifecycle recovers as complete, an open block as
\* partial; so no restore finds a corrupt Session that no fault has hit.
WholeSessionsRestore == answer.kind = "restore" /\ answer.result = "corrupt" => answer.session \in Hit
=============================================================================
