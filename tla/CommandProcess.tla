--------------------------- MODULE CommandProcess ---------------------------
(* One approved command: the process that is spawned with a group of its own, *)
(* its output, the collector the output is recorded in, and the ends that     *)
(* race for the result: the process closes, the time is up, the Run is        *)
(* aborted. A process closes when it has exited and nobody holds its pipes;   *)
(* what it started may hold them longer than it lives.                        *)
EXTENDS Naturals, Sequences

CONSTANTS
    Sizes,      \* bytes of one character of output
    MaxWritten, \* bound: characters the process writes
    ContextLimit, DisplayLimit, LogLimit \* bytes kept of them

VARIABLES
    process,   \* leader, what it started, and what they wrote
    pipe,      \* output that is not delivered yet
    run,       \* SpawnCommandRunner.run: stop, timers and how it settled
    collector, \* CommandOutputCollector
    log        \* the log sink: what is queued, and whether it failed

commandVars == <<process, pipe, run, collector, log>>

NothingKept(limit) == [kept |-> <<>>, remaining |-> limit, truncated |-> FALSE]
Init ==
    /\ process = [leader |-> "running", group |-> FALSE, written |-> <<>>, closed |-> FALSE]
    /\ pipe = <<>>
    /\ run = [stop |-> "no", reason |-> "none", settled |-> "no"]
    /\ collector = [display |-> NothingKept(DisplayLimit),
                    context |-> NothingKept(ContextLimit),
                    log |-> NothingKept(LogLimit), exit |-> FALSE, result |-> "none"]
    /\ log = [queued |-> <<>>, failed |-> FALSE]

----------------------------------------------------------------------------
\* The process, and what it starts, write; they end.
Alive == process.leader = "running" \/ process.group
Writes(size) ==
    /\ Alive
    /\ Len(process.written) < MaxWritten
    /\ process' = [process EXCEPT !.written = Append(@, size)]
    /\ pipe' = Append(pipe, size)
    /\ UNCHANGED <<run, collector, log>>
StartsAnother ==
    /\ process.leader = "running"
    /\ ~process.group
    /\ process' = [process EXCEPT !.group = TRUE]
    /\ UNCHANGED <<pipe, run, collector, log>>
LeaderExits ==
    /\ process.leader = "running"
    /\ process' = [process EXCEPT !.leader = "exited"]
    /\ UNCHANGED <<pipe, run, collector, log>>
OtherExits ==
    /\ process.group
    /\ process' = [process EXCEPT !.group = FALSE]
    /\ UNCHANGED <<pipe, run, collector, log>>
SpawnFails ==
    /\ process.leader = "running" /\ ~process.group /\ process.written = <<>>
    /\ run.stop = "no" /\ run.settled = "no"
    /\ process' = [process EXCEPT !.leader = "exited"]
    /\ run' = [run EXCEPT !.settled = "spawn"]
    /\ UNCHANGED <<pipe, collector, log>>

\* append: a prefix is kept; once a character did not fit, none is.
AppendAlways(s, size) ==
    IF size > s.remaining THEN [s EXCEPT !.truncated = TRUE]
    ELSE [s EXCEPT !.kept = Append(@, size), !.remaining = @ - size]
AppendBounded(s, size) ==
    IF s.truncated THEN s ELSE IF size > s.remaining THEN [s EXCEPT !.truncated = TRUE]
    ELSE [s EXCEPT !.kept = Append(@, size), !.remaining = @ - size]
Recorded(c, size) ==
    [c EXCEPT !.display = AppendBounded(@, size), !.context = AppendBounded(@, size),
              !.log = AppendBounded(@, size)]
\* emitOutput: nothing is recorded of a command that is stopped or settled.
Emits == run.stop = "no" /\ run.settled = "no"
Data ==
    /\ pipe # <<>>
    /\ pipe' = Tail(pipe)
    /\ IF Emits
       THEN /\ collector' = Recorded(collector, Head(pipe))
            /\ log' = IF Len(collector'.log.kept) > Len(collector.log.kept)
                      THEN [log EXCEPT !.queued = Append(@, Head(pipe))] ELSE log
       ELSE UNCHANGED <<collector, log>>
    /\ UNCHANGED <<process, run>>

\* "close": the process has exited and its pipes are at their end.
LeaderGone == process.leader = "exited"
Drained == LeaderGone /\ ~process.group /\ pipe = <<>>
Close ==
    /\ ~process.closed
    /\ Drained
    /\ process' = [process EXCEPT !.closed = TRUE]
    /\ IF Emits
       THEN /\ run' = [run EXCEPT !.settled = "exit"]
            /\ collector' = [collector EXCEPT !.exit = TRUE]
       ELSE UNCHANGED <<run, collector>>
    /\ UNCHANGED <<pipe, log>>

----------------------------------------------------------------------------
\* stop: the first reason is the one that is told.
Stop(reason) ==
    /\ Emits
    /\ run' = [run EXCEPT !.stop = "terminate", !.reason = reason]
    /\ UNCHANGED <<process, pipe, collector, log>>
\* terminate: the group is killed, unless its leader has exited already.
Terminate ==
    /\ run.stop = "terminate"
    /\ run' = [run EXCEPT !.stop = "wait"]
    /\ process' = IF LeaderGone THEN process
                  ELSE [process EXCEPT !.leader = "exited", !.group = FALSE]
    /\ UNCHANGED <<pipe, collector, log>>
TerminationFails ==
    /\ run.stop = "terminate"
    /\ ~LeaderGone
    /\ run' = [run EXCEPT !.stop = "done", !.settled = "termination"]
    /\ UNCHANGED <<process, pipe, collector, log>>
\* waitForClose
KilledIsEnough == process.leader = "exited"
ClosedNow == process.closed
Stopped ==
    /\ run.stop = "wait"
    /\ ClosedNow
    /\ run' = [run EXCEPT !.stop = "done", !.settled = run.reason]
    /\ UNCHANGED <<process, pipe, collector, log>>
CloseTimesOut ==
    /\ run.stop = "wait"
    /\ ~process.closed
    /\ run' = [run EXCEPT !.stop = "done", !.settled = "termination"]
    /\ UNCHANGED <<process, pipe, collector, log>>

----------------------------------------------------------------------------
(* The log is written in order; a failure is kept until the end.             *)
LogWritten ==
    /\ log.queued # <<>>
    /\ \E failed \in BOOLEAN :
         log' = [queued |-> Tail(log.queued), failed |-> log.failed \/ failed]
    /\ UNCHANGED <<process, pipe, run, collector>>
\* complete, or dispose of what was collected.
Collected ==
    /\ run.settled # "no"
    /\ collector.result = "none"
    /\ log.queued = <<>>
    /\ \E closes \in BOOLEAN :
         collector' = [collector EXCEPT !.result =
             IF run.settled = "exit" THEN IF log.failed \/ ~closes THEN "log-error" ELSE "output"
             ELSE run.settled]
    /\ UNCHANGED <<process, pipe, run, log>>

Next ==
    \/ \E size \in Sizes : Writes(size)
    \/ StartsAnother \/ LeaderExits \/ OtherExits \/ SpawnFails \/ Data \/ Close
    \/ \E reason \in {"timeout", "aborted"} : Stop(reason)
    \/ Terminate \/ TerminationFails \/ Stopped \/ CloseTimesOut
    \/ LogWritten \/ Collected

Spec == Init /\ [][Next]_commandVars

----------------------------------------------------------------------------
TypeOK ==
    /\ run.settled \in {"no", "exit", "spawn", "timeout", "aborted", "termination"}
    /\ process.closed => LeaderGone /\ ~process.group

\* A result that carries output carries all the process wrote, up to what fits,
\* and says so if it does not; a command is reported timed out or aborted only
\* when it and what it started are gone, and otherwise as not confirmed.
IsPrefix(kept, written) ==
    Len(kept) <= Len(written) /\ \A i \in DOMAIN kept : kept[i] = written[i]
TellsTheTruth(s) ==
    IsPrefix(s.kept, process.written) /\ (s.truncated <=> s.kept # process.written)
OutcomeIsTrue ==
    /\ collector.result = "output" =>
         TellsTheTruth(collector.display) /\ TellsTheTruth(collector.context)
    /\ collector.result \in {"output", "timeout", "aborted"} => process.closed
    /\ Len(collector.context.kept) <= Len(collector.display.kept)
=============================================================================
