--------------------------- MODULE ReasoningStream ---------------------------
(* The reasoning of one Run, from the Provider's stream to the log and to the *)
(* chat: the gateway's normalizer, the model turn that numbers blocks over    *)
(* the Run, the collector that bounds them, the chat that shows them live,    *)
(* and the recovery that shows them again from the log. A text is the         *)
(* sequence of the sizes of its characters in bytes.                          *)
EXTENDS Integers, Sequences, FiniteSets, SequencesExt

CONSTANTS
    Sources,    \* ids the Provider gives its reasoning blocks
    Texts,      \* texts of one reasoning delta of the Provider
    DeltaLimit, BlockLimit, RunLimit, \* characters of a delta, a block, the Run
    MaxBlocks,  \* blocks accepted in a Run
    MaxTurns,   \* bound: model turns of the Run
    MaxThought  \* bound: characters the Provider sends

VARIABLES
    stream,    \* the Provider's stream and what the gateway remembers of it
    thoughts,  \* ReasoningCollector
    thoughtLog,\* the session.reasoning-* events, logged and sent to the chat
    shown      \* the chat's live blocks

reasoningVars == <<stream, thoughts, thoughtLog, shown>>

\* Every limit on characters comes with one on bytes, four times as large.
BytesIn(text) == FoldLeft(LAMBDA sum, size : sum + size, 0, text)
Fits(text, limit) == Len(text) <= limit /\ BytesIn(text) <= 4 * limit
\* The longest prefix that fits both ceilings, and why it is no longer.
FittingLength(text, had, limit) ==
    CHOOSE n \in 0..Len(text) :
        /\ Fits(had \o SubSeq(text, 1, n), limit)
        /\ n < Len(text) => ~Fits(had \o SubSeq(text, 1, n + 1), limit)
LesserOf(m, n) == IF m <= n THEN m ELSE n
None == 0 \* no block

FreshThoughts == [open |-> None, blockText |-> <<>>, runText |-> <<>>, blockTruncated |-> FALSE,
    runTruncated |-> FALSE, accepted |-> 0, suppressed |-> None, countSent |-> FALSE]
NothingShown == [blocks |-> <<>>, open |-> FALSE, runTruncated |-> FALSE,
    textLimited |-> FALSE, countLimited |-> FALSE]
Init ==
    /\ stream = [turn |-> 1, seen |-> {}, open |-> None, next |-> 1, sent |-> 0,
                 run |-> "active"]
    /\ thoughts = FreshThoughts
    /\ thoughtLog = <<>>
    /\ shown = NothingShown

----------------------------------------------------------------------------
\* What the chat does with one event.
ShowStart(s, event) ==
    IF s.open \/ s.countLimited THEN s
    ELSE IF Len(s.blocks) >= MaxBlocks THEN [s EXCEPT !.countLimited = TRUE, !.runTruncated = TRUE]
    ELSE [s EXCEPT !.open = TRUE,
                   !.blocks = Append(@, [id |-> event.block, text |-> <<>>, state |-> "open",
                                         truncated |-> FALSE, discards |-> s.textLimited])]
IsShownOpen(s, event) == s.open /\ Last(s.blocks).id = event.block
\* The chat holds what it is sent against the same limits.
ShowDelta(s, event) ==
    LET block == Last(s.blocks)
        told == FlattenSeq([i \in 1..Len(s.blocks) |-> s.blocks[i].text])
        taken == LesserOf(FittingLength(event.text, block.text, BlockLimit),
                          FittingLength(event.text, told, RunLimit))
        cut == taken < Len(event.text)
        byRun == cut /\ (RunLimit - Len(told) <= BlockLimit - Len(block.text)
                         \/ 4 * RunLimit - BytesIn(told) <= 4 * BlockLimit - BytesIn(block.text))
    IN  IF ~IsShownOpen(s, event) \/ block.discards \/ s.textLimited THEN s
        ELSE [s EXCEPT !.blocks[Len(s.blocks)].text = @ \o SubSeq(event.text, 1, taken),
                       !.blocks[Len(s.blocks)].truncated = @ \/ cut,
                       !.blocks[Len(s.blocks)].discards = cut,
                       !.runTruncated = @ \/ byRun, !.textLimited = byRun]
ShowLimit(s, event) ==
    IF event.scope = "block"
    THEN IF ~IsShownOpen(s, event) THEN s
         ELSE [s EXCEPT !.blocks[Len(s.blocks)].truncated = TRUE,
                        !.blocks[Len(s.blocks)].discards = TRUE]
    ELSE [s EXCEPT !.runTruncated = TRUE, !.countLimited = TRUE,
                   !.textLimited = event.reason # "block-count"]
ShowEnd(s, event) ==
    IF ~IsShownOpen(s, event) THEN s
    ELSE [s EXCEPT !.open = FALSE, !.blocks[Len(s.blocks)].state = "complete",
                   !.blocks[Len(s.blocks)].truncated = @ \/ event.truncated]
Show(s, event) ==
    CASE event.type = "start" -> ShowStart(s, event)
      [] event.type = "delta" -> ShowDelta(s, event)
      [] event.type = "limit" -> ShowLimit(s, event)
      [] event.type = "end" -> ShowEnd(s, event)
\* Each event is persisted and sent, in the order it was collected.
Emits(events) ==
    /\ thoughtLog' = thoughtLog \o events
    /\ shown' = FoldLeft(Show, shown, events)

Start(block) == [type |-> "start", block |-> block]
Delta(block, text) == [type |-> "delta", block |-> block, text |-> text]
End(block, truncated) == [type |-> "end", block |-> block, truncated |-> truncated]
Limit(block, scope, reason) ==
    [type |-> "limit", block |-> block, scope |-> scope, reason |-> reason]

----------------------------------------------------------------------------
\* ReasoningCollector: a block too many is announced once and left out.
CollectStart(c, block) ==
    IF c.accepted >= MaxBlocks
    THEN [c |-> [c EXCEPT !.suppressed = block, !.countSent = TRUE,
                          !.runTruncated = @ \/ ~c.countSent],
          events |-> IF c.countSent THEN <<>> ELSE <<Limit(None, "run", "block-count")>>]
    ELSE [c |-> [c EXCEPT !.accepted = @ + 1, !.open = block, !.blockText = <<>>,
                          !.blockTruncated = FALSE],
          events |-> <<Start(block)>>]
Reason(text, had, limit) ==
    IF BytesIn(had \o SubSeq(text, 1, FittingLength(text, had, limit) + 1)) > 4 * limit
    THEN "utf8-bytes" ELSE "code-points"
CollectDelta(c, block, text) ==
    LET inBlock == FittingLength(text, c.blockText, BlockLimit)
        inRun == FittingLength(text, c.runText, RunLimit)
        taken == LesserOf(inBlock, inRun)
        accepted == SubSeq(text, 1, taken)
        blockLimited == inBlock < Len(text) /\ inBlock = taken
        runLimited == inRun < Len(text) /\ inRun = taken
    IN  IF c.open # block \/ c.blockTruncated THEN [c |-> c, events |-> <<>>]
        ELSE IF c.runTruncated THEN [c |-> [c EXCEPT !.blockTruncated = TRUE], events |-> <<>>]
        ELSE [c |-> [c EXCEPT !.blockText = @ \o accepted, !.runText = @ \o accepted,
                              !.blockTruncated = blockLimited \/ runLimited,
                              !.runTruncated = runLimited],
              events |-> (IF taken > 0 THEN <<Delta(block, accepted)>> ELSE <<>>)
                \o (IF blockLimited
                    THEN <<Limit(block, "block", Reason(text, c.blockText, BlockLimit))>> ELSE <<>>)
                \o (IF runLimited
                    THEN <<Limit(block, "run", Reason(text, c.runText, RunLimit))>> ELSE <<>>)]
EndAlways(c, block) ==
    [c |-> [c EXCEPT !.open = None], events |-> <<End(block, c.blockTruncated)>>]
CollectEnd(c, block) ==
    IF c.suppressed = block THEN [c |-> [c EXCEPT !.suppressed = None], events |-> <<>>]
    ELSE EndAlways(c, block)
Collects(collected) == thoughts' = collected.c /\ Emits(collected.events)

----------------------------------------------------------------------------
\* The Provider's stream. The gateway lets one block be open at a time and no
\* source id come twice in a turn; the turn numbers blocks over the whole Run.
Open == IF thoughts.suppressed # None THEN thoughts.suppressed ELSE thoughts.open
ReasoningStart(source) ==
    /\ stream.run = "active" /\ stream.open = None /\ source \notin stream.seen
    /\ stream' = [stream EXCEPT !.seen = @ \cup {source}, !.open = source, !.next = @ + 1]
    /\ Collects(CollectStart(thoughts, stream.next))
\* A long delta goes on in chunks of the size a delta may have.
Chunks(text) ==
    [i \in 1..((Len(text) + DeltaLimit - 1) \div DeltaLimit) |->
        SubSeq(text, (i - 1) * DeltaLimit + 1, LesserOf(i * DeltaLimit, Len(text)))]
CollectChunk(collected, text) ==
    LET next == CollectDelta(collected.c, Open, text)
    IN  [c |-> next.c, events |-> collected.events \o next.events]
ReasoningDelta(text) ==
    /\ stream.run = "active" /\ stream.open # None
    /\ stream.sent + Len(text) <= MaxThought
    /\ stream' = [stream EXCEPT !.sent = @ + Len(text)]
    /\ Collects(FoldLeft(CollectChunk, [c |-> thoughts, events |-> <<>>], Chunks(text)))
ReasoningEnd ==
    /\ stream.run = "active" /\ stream.open # None
    /\ stream' = [stream EXCEPT !.open = None]
    /\ Collects(CollectEnd(thoughts, Open))
\* A turn that calls a Tool is followed by another one.
NextTurn ==
    /\ stream.run = "active" /\ stream.open = None
    /\ stream.turn < MaxTurns
    /\ stream' = [stream EXCEPT !.turn = @ + 1, !.seen = {}]
    /\ UNCHANGED <<thoughts, thoughtLog, shown>>
\* A block that is left open, started twice or never started fails the Run; so
\* does the Provider; the user cancels it. The collector closes before the
\* status is passed on, and the chat keeps what it has of an open block.
Terminal(ending) ==
    /\ stream.run = "active"
    /\ ending = "completed" => stream.open = None
    /\ stream' = [stream EXCEPT !.run = ending]
    /\ thoughts' = [thoughts EXCEPT !.open = None, !.suppressed = None]
    /\ shown' = IF shown.open /\ Last(shown.blocks).text # <<>>
                THEN [shown EXCEPT !.open = FALSE, !.blocks[Len(shown.blocks)].state = "partial"]
                ELSE [shown EXCEPT !.open = FALSE]
    /\ UNCHANGED thoughtLog

Next ==
    \/ \E source \in Sources : ReasoningStart(source)
    \/ \E text \in Texts : ReasoningDelta(text)
    \/ ReasoningEnd
    \/ NextTurn
    \/ \E ending \in {"completed", "failed", "cancelled"} : Terminal(ending)
ReasoningSpec == Init /\ [][Next]_reasoningVars

----------------------------------------------------------------------------
\* recoverReasoning: the log is read back event by event, and refused as
\* corrupt when an event cannot follow those before it.
Fresh == [verdict |-> "ok", blocks |-> <<>>, open |-> None, text |-> <<>>, run |-> <<>>,
    limited |-> FALSE, accepted |-> {}, textLimit |-> FALSE, countLimit |-> FALSE,
    runTruncated |-> FALSE]
Refused(r, verdict) == [r EXCEPT !.verdict = verdict]
Kept(r, state, truncated) ==
    IF r.text = <<>> THEN r.blocks
    ELSE Append(r.blocks, [id |-> r.open, text |-> r.text, state |-> state, truncated |-> truncated])
ReadStart(r, event) ==
    IF r.open # None \/ event.block \in r.accepted \/ Cardinality(r.accepted) >= MaxBlocks
    THEN Refused(r, "corrupt")
    ELSE [r EXCEPT !.open = event.block, !.text = <<>>, !.limited = FALSE,
                   !.accepted = @ \cup {event.block}]
ReadDelta(r, event) ==
    IF r.open # event.block \/ r.limited \/ r.textLimit
       \/ ~Fits(event.text, DeltaLimit)
       \/ ~Fits(r.text \o event.text, BlockLimit) \/ ~Fits(r.run \o event.text, RunLimit)
    THEN Refused(r, "corrupt")
    ELSE [r EXCEPT !.text = @ \o event.text, !.run = @ \o event.text]
\* A limit counted in bytes must have been hit exactly.
IsLimitReached(reason, text, limit) ==
    IF reason = "utf8-bytes" THEN BytesIn(text) = 4 * limit
    ELSE Len(text) = limit /\ BytesIn(text) < 4 * limit
NotReached(reason) == IF reason = "utf8-bytes" THEN "short" ELSE "corrupt"
ReadLimit(r, event) ==
    IF event.scope = "block"
    THEN IF r.open # event.block \/ r.limited \/ r.textLimit THEN Refused(r, "corrupt")
         ELSE IF ~IsLimitReached(event.reason, r.text, BlockLimit)
              THEN Refused(r, NotReached(event.reason))
              ELSE [r EXCEPT !.limited = TRUE]
    ELSE IF event.reason = "block-count"
    THEN IF r.open # None \/ Cardinality(r.accepted) # MaxBlocks THEN Refused(r, "corrupt")
         ELSE [r EXCEPT !.countLimit = TRUE, !.runTruncated = TRUE]
    ELSE IF r.open = None \/ r.textLimit THEN Refused(r, "corrupt")
    ELSE IF ~IsLimitReached(event.reason, r.run, RunLimit) THEN Refused(r, NotReached(event.reason))
    ELSE [r EXCEPT !.textLimit = TRUE, !.runTruncated = TRUE]
ReadEnd(r, event) ==
    IF \/ r.open # event.block
       \/ r.limited /\ ~event.truncated
       \/ ~r.limited /\ ~r.textLimit /\ event.truncated
    THEN Refused(r, "corrupt")
    ELSE [r EXCEPT !.open = None, !.blocks = Kept(r, "complete", event.truncated)]
Read(r, event) ==
    IF r.verdict # "ok" THEN r
    ELSE IF r.countLimit THEN Refused(r, "corrupt")
    ELSE CASE event.type = "start" -> ReadStart(r, event)
           [] event.type = "delta" -> ReadDelta(r, event)
           [] event.type = "limit" -> ReadLimit(r, event)
           [] event.type = "end" -> ReadEnd(r, event)
Recovered ==
    LET r == FoldLeft(Read, Fresh, thoughtLog) IN
    IF r.open = None THEN r
    ELSE [r EXCEPT !.blocks = Kept(r, "partial", r.limited \/ r.textLimit)]

----------------------------------------------------------------------------
TypeOK ==
    /\ stream.turn \in 1..MaxTurns /\ stream.seen \subseteq Sources
    /\ stream.open \in Sources \cup {None}
    /\ stream.run \in {"active", "completed", "failed", "cancelled"}
    /\ Fits(thoughts.blockText, BlockLimit) /\ Fits(thoughts.runText, RunLimit)
    /\ thoughts.accepted \in 0..MaxBlocks
    /\ \A i \in 1..Len(thoughtLog) : thoughtLog[i].type \in {"start", "delta", "limit", "end"}

\* Wherever the log of a Run ends, a restore of it shows the reasoning the chat
\* showed live, block by block, and what was left out of it; no log of a Run is
\* corrupt. (A log is refused all the same when a limit counted in bytes
\* stopped short of it because the next character did not fit: "short".)
Shows(b, state) == [id |-> b.id, text |-> b.text, state |-> state,
                    truncated |-> IF state = "complete" THEN b.truncated ELSE FALSE]
Visible(blocks) == LET told == SelectSeq(blocks, LAMBDA b : b.text # <<>>) IN
    [i \in 1..Len(told) |->
        Shows(told[i], IF told[i].state = "complete" THEN "complete" ELSE "partial")]
RestoredIsShown ==
    /\ Recovered.verdict \in {"ok", "short"}
    /\ Recovered.verdict = "ok" =>
        /\ Visible(Recovered.blocks) = Visible(shown.blocks)
        /\ Recovered.runTruncated = shown.runTruncated
=============================================================================
