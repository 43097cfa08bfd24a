----------------------------- MODULE ModelStream -----------------------------
(* A Run's requests to its Provider: the parts of the SDK's stream become     *)
(* events of the gateway, a failed request is made again while nothing came   *)
(* of it, one that overflows the context is made once more with less, and the *)
(* model turn tells what it takes. Budgets and Tools are other modules'.      *)
EXTENDS Naturals, Sequences, SequencesExt

CONSTANTS
    Sources,        \* ids the Provider gives its reasoning blocks
    MaxRetries,     \* maxProviderRetryAttempts
    LongestWait,    \* maxProviderRetryDelayMilliseconds
    Waits,          \* waits a Provider asks for (Retry-After)
    MaxParts,       \* bound: parts that become events
    MaxInvocations  \* bound: model turns, each again after an overflow

VARIABLES
    feed,     \* the parts of this request, and ReasoningStreamNormalizer
    retrying, \* RetryingModelGateway, and what made it wait
    answer,   \* ModelTurnStream, and the Run's loop over the turns
    told      \* the events the Run emitted

modelStreamVars == <<feed, retrying, answer, told>>

NoBlock == 0
NoWait == [failure |-> "none", asked |-> 0, isGuided |-> FALSE, waits |-> 0]
FreshFeed == [parts |-> <<>>, seen |-> {}, source |-> NoBlock, block |-> NoBlock, next |-> 1]
FreshRetrying == [phase |-> "asking", retries |-> 0, emitted |-> FALSE, reason |-> NoWait]
FreshTurn(n) == [blocks |-> <<>>, open |-> NoBlock, hasCall |-> FALSE, hasText |-> FALSE, hasUsage |-> FALSE,
                 emitted |-> FALSE, next |-> n, isRecovered |-> FALSE]
Init ==
    /\ feed = FreshFeed
    /\ retrying = FreshRetrying
    /\ answer = [turn |-> FreshTurn(1), since |-> 0, sent |-> 0, invocations |-> 1, run |-> "active"]
    /\ told = <<>>

----------------------------------------------------------------------------
(* The gateway.                                                               *)
IsAsking == answer.run = "active" /\ retrying.phase = "asking"
\* What the Provider may send: "other" carries nothing for Core.
Finishes == [type : {"finish"}, reason : {"stop", "length"}, hasUsage : BOOLEAN]
Parts ==
    [type : {"text", "call", "other"}]
    \union [type : {"reasoning-start", "reasoning-delta", "reasoning-end"}, source : Sources]
    \union Finishes
\* ReasoningStreamNormalizer: blocks follow one another, and none is open at the end.
IsAccepted(part) ==
    CASE part.type = "reasoning-start" -> feed.source = NoBlock /\ part.source \notin feed.seen
      [] part.type \in {"reasoning-delta", "reasoning-end"} -> part.source = feed.source
      [] part.type = "finish" -> feed.source = NoBlock
      [] OTHER -> TRUE
Event(type, block) == [type |-> type, block |-> block]
\* mapStreamPart
Events(part) ==
    CASE part.type \in {"text", "call"} -> <<Event(part.type, NoBlock)>>
      [] part.type = "reasoning-start" -> <<Event("start", feed.next)>>
      [] part.type = "reasoning-delta" -> <<Event("delta", feed.block)>>
      [] part.type = "reasoning-end" -> <<Event("end", feed.block)>>
      [] part.type = "finish" -> <<Event(IF part.hasUsage THEN "usage" ELSE "no-usage", NoBlock)>>
      [] part.type = "other" -> <<>>
Fed(part) ==
    LET f == [feed EXCEPT !.parts = Append(@, part)]
    IN  CASE part.type = "reasoning-start" ->
               [f EXCEPT !.seen = @ \union {part.source}, !.source = part.source,
                         !.block = feed.next, !.next = @ + 1]
          [] part.type = "reasoning-end" -> [f EXCEPT !.source = NoBlock, !.block = NoBlock]
          [] OTHER -> f

----------------------------------------------------------------------------
(* The model turn.                                                            *)
\* A second call, or a block that is not the open one.
IsRefused(event) ==
    CASE event.type = "call" -> answer.turn.hasCall
      [] event.type = "start" -> answer.turn.open # NoBlock \/ event.block <= Len(answer.turn.blocks)
      [] event.type \in {"delta", "end"} -> event.block # answer.turn.open
      [] OTHER -> FALSE
\* Mutant: blocks keep the gateway's number, which begins anew with every request.
NumberedByGateway(event) == event.block
\* The Run numbers its blocks through all of its turns.
Numbered(event) ==
    CASE event.type = "start" -> answer.turn.next
      [] event.type \in {"delta", "end"} -> answer.turn.blocks[event.block]
      [] OTHER -> NoBlock
Taken(event) ==
    LET t == [answer.turn EXCEPT !.emitted = TRUE]
    IN  CASE event.type = "text" -> [t EXCEPT !.hasText = TRUE]
          [] event.type = "call" -> [t EXCEPT !.hasCall = TRUE]
          [] event.type = "usage" -> [t EXCEPT !.hasUsage = TRUE]
          [] event.type = "start" -> [t EXCEPT !.blocks = Append(@, t.next), !.next = @ + 1, !.open = event.block]
          [] event.type = "end" -> [t EXCEPT !.open = NoBlock]
          [] OTHER -> t
\* Only the first usage that has a count is told.
IsTold(event) == event.type # "no-usage" /\ (event.type = "usage" => ~answer.turn.hasUsage)
Tells(event) == told' = IF IsTold(event) THEN Append(told, Event(event.type, Numbered(event))) ELSE told

----------------------------------------------------------------------------
(* How a request ends.                                                        *)
RunEnds(outcome) == answer' = [answer EXCEPT !.run = outcome] /\ UNCHANGED <<feed, retrying, told>>
Invokes(turn) ==
    /\ feed' = FreshFeed /\ retrying' = FreshRetrying
    /\ answer' = [answer EXCEPT !.turn = turn, !.since = Len(told), !.invocations = @ + 1]
    /\ UNCHANGED told
\* A failed request tells of its own accord what it is; only one that is thrown keeps the wait that
\* was asked for, one that is a part of the stream loses it.
Failures ==
    [code : {"rate-limit", "unavailable"}, asked : Waits, isGuided : BOOLEAN]
    \union [code : {"context-overflow", "authentication"}, asked : {0}, isGuided : {FALSE}]
Malformed == [code |-> "malformed-response", asked |-> 0, isGuided |-> FALSE]
IsRetryable(failure) == failure.code \in {"rate-limit", "unavailable"}
\* Mutant: what the last request already gave is not looked at.
MayRetryAnyway(failure) == IsRetryable(failure) /\ retrying.retries < MaxRetries
MayRetry(failure) == ~retrying.emitted /\ IsRetryable(failure) /\ retrying.retries < MaxRetries
Lesser(a, b) == IF a <= b THEN a ELSE b
\* Without guidance, anything below a start that doubles.
Backoffs(failure) ==
    IF failure.isGuided THEN {Lesser(failure.asked, LongestWait)}
    ELSE {Lesser(n, LongestWait) : n \in 0..(2 ^ retrying.retries - 1)}
Waiting(failure, wait) ==
    /\ retrying' = [phase |-> "waiting", retries |-> retrying.retries + 1, emitted |-> FALSE,
                    reason |-> [failure |-> failure.code, asked |-> failure.asked,
                                isGuided |-> failure.isGuided, waits |-> wait]]
    /\ feed' = FreshFeed
    /\ UNCHANGED <<answer, told>>
\* recoverFromContextOverflow: once, and only if something can be left out.
Overflows ==
    \/ RunEnds("failed")
    \/ /\ ~answer.turn.isRecovered /\ answer.invocations < MaxInvocations
       /\ Invokes([FreshTurn(answer.turn.next) EXCEPT !.isRecovered = TRUE])
FailsWith(failure) ==
    IF MayRetry(failure) THEN \E wait \in Backoffs(failure) : Waiting(failure, wait)
    ELSE IF failure.code = "context-overflow" /\ ~answer.turn.emitted THEN Overflows
    ELSE RunEnds("failed")
\* A response without a call is the answer, if it has any text.
Responds ==
    IF ~answer.turn.hasCall THEN RunEnds(IF answer.turn.hasText THEN "completed" ELSE "failed")
    ELSE /\ answer.invocations < MaxInvocations
         /\ Invokes(FreshTurn(answer.turn.next))

----------------------------------------------------------------------------
Arrives(part) ==
    /\ IsAsking /\ part.type # "finish" /\ answer.sent < MaxParts
    /\ \/ IsAccepted(part) /\ Events(part) = <<>> /\ UNCHANGED modelStreamVars
       \/ \E event \in ToSet(Events(part)) :
            /\ IsAccepted(part)
            /\ IF IsRefused(event) THEN RunEnds("failed")
               ELSE /\ feed' = Fed(part)
                    /\ retrying' = [retrying EXCEPT !.emitted = TRUE]
                    /\ answer' = [answer EXCEPT !.turn = Taken(event), !.sent = @ + 1]
                    /\ Tells(event)
       \/ ~IsAccepted(part) /\ FailsWith(Malformed)
\* Usage is told, then the finish ends the request and what may still come.
Finished(part) ==
    LET event == Head(Events(part))
    IN  /\ IsAsking /\ part.type = "finish" /\ IsAccepted(part)
        /\ feed' = Fed(part)
        /\ retrying' = [retrying EXCEPT !.phase = "finished", !.emitted = TRUE]
        /\ answer' = [answer EXCEPT !.turn = Taken(event)]
        /\ Tells(event)
FinishesEarly(part) == IsAsking /\ part.type = "finish" /\ ~IsAccepted(part) /\ FailsWith(Malformed)
\* The stream of the SDK stops without a finish: so does a response.
Stops ==
    /\ IsAsking
    /\ IF feed.source # NoBlock THEN FailsWith(Malformed) ELSE Responds
Settles ==
    /\ answer.run = "active" /\ retrying.phase = "finished"
    /\ IF Last(feed.parts).reason = "length" THEN RunEnds("truncated") ELSE Responds
\* The request fails, by a part of the stream or by an exception.
Fails(failure, isThrown) ==
    IsAsking /\ FailsWith(IF isThrown THEN failure ELSE [failure EXCEPT !.isGuided = FALSE])
WaitEnds ==
    /\ answer.run = "active" /\ retrying.phase = "waiting"
    /\ retrying' = [retrying EXCEPT !.phase = "asking", !.reason = NoWait]
    /\ UNCHANGED <<feed, answer, told>>
Cancel == answer.run = "active" /\ RunEnds("cancelled")

Next ==
    \/ \E part \in Parts : Arrives(part) \/ Finished(part) \/ FinishesEarly(part)
    \/ Stops \/ Settles
    \/ \E failure \in Failures, isThrown \in BOOLEAN : Fails(failure, isThrown)
    \/ WaitEnds \/ Cancel
ModelStreamSpec == Init /\ [][Next]_modelStreamVars

----------------------------------------------------------------------------
TypeOK ==
    /\ ToSet(feed.parts) \subseteq Parts
    /\ retrying.phase \in {"asking", "waiting", "finished"} /\ retrying.retries \in 0..MaxRetries
    /\ answer.run \in {"active", "completed", "truncated", "failed", "cancelled"}
    /\ answer.invocations \in 1..MaxInvocations
    /\ ToSet(told) \subseteq [type : {"text", "call", "usage", "start", "delta", "end"}, block : Nat]
\* What a request's parts say, whatever is remembered of them.
Said(part) ==
    CASE part.type = "finish" -> IF part.hasUsage THEN <<"usage">> ELSE <<>>
      [] part.type = "reasoning-start" -> <<"start">>
      [] part.type = "reasoning-delta" -> <<"delta">>
      [] part.type = "reasoning-end" -> <<"end">>
      [] OTHER -> <<part.type>>
\* A model turn tells what its last request was sent, in that order and once: nothing of a request
\* that failed and was made again (docs/architecture/providers.md, "Reasoning output is
\* user-observable").
ToldIsWhatWasSent ==
    LET now == SubSeq(told, answer.since + 1, Len(told))
    IN  [i \in 1..Len(now) |-> now[i].type]
        = FlattenSeq([i \in 1..Len(feed.parts) |-> Said(feed.parts[i])])
\* Reasoning is told in blocks that do not nest, that have an identity of their own in the Run and
\* that nothing is added to after their end, over all turns and requests of the Run.
BlocksAreTheRuns ==
    \A i \in 1..Len(told) :
        LET starts == {j \in 1..(i - 1) : told[j].type = "start"}
            IsOpen(j) == \A k \in (j + 1)..(i - 1) : told[k].type = "end" => told[k].block # told[j].block
        IN  /\ told[i].type = "start" => \A j \in starts : ~IsOpen(j) /\ told[j].block # told[i].block
            /\ told[i].type \in {"delta", "end"} =>
                   \E j \in starts : told[j].block = told[i].block /\ IsOpen(j)
\* A wait that was asked for in an exception is waited, up to the longest.
WaitIsAsAsked ==
    retrying.reason.isGuided => \/ retrying.reason.waits = retrying.reason.asked
                                \/ retrying.reason.waits = LongestWait /\ retrying.reason.asked > LongestWait
=============================================================================
