---------------------------- MODULE ContextWindow ----------------------------
(* What of a conversation one Run sends to the model: the shares of the       *)
(* context window, the history pruned to its share, the context the user      *)
(* attached, and the request cut once more when the Provider reports that it  *)
(* overflows. A message is its role, its estimate in tokens and an identity;  *)
(* a Tool result has the identity of its call.                                *)
EXTENDS TokenShares, Sequences, FiniteSets, SequencesExt, FiniteSetsExt

CONSTANTS
    Histories,  \* conversations to continue, each as the sequence of its messages
    Attached,   \* what the user attached: <<workspace files, MCP messages>>, from 101 on
    Frame,      \* tokens of a file's message without its text
    Weights,    \* estimates of a message of this Run
    MaxSteps    \* bound: Tool steps of the Run

VARIABLES
    shares,     \* TokenBudget: system, history, files, tools
    transcript, \* everything that could be sent, in order
    request,    \* the messages sent, or to be sent next
    asking      \* the Run: "ready", "sent", "resent" or how it ended

contextVars == <<shares, transcript, request, asking>>

Message(role, tokens, id) == [role |-> role, tokens |-> tokens, id |-> id]
TokensAt(messages, places) == MapThenSumSet(LAMBDA i : messages[i].tokens, places)
Estimate(messages) == TokensAt(messages, DOMAIN messages)

\* pruneModelHistory: units in the order they start, a call with its result. The oldest that
\* is not protected goes first, as long as there is too much.
Question(messages) ==
    LET asked == {i \in DOMAIN messages : messages[i].role = "user"}
    IN  IF asked = {} THEN 0 ELSE CHOOSE i \in asked : \A j \in asked : j <= i
UnitOf(messages, i) == {j \in DOMAIN messages :
    \/ j = i
    \/ messages[i].role = "call" /\ messages[j].role = "result" /\ messages[j].id = messages[i].id}
Starts(messages) == {i \in DOMAIN messages : messages[i].role # "result"}
PrunedAtAnyPlace(messages, limit) ==
    LET upto(n) == UNION {UnitOf(messages, i) : i \in {i \in Starts(messages) : i <= n}}
        fits(n) == Estimate(messages) - TokensAt(messages, upto(n)) <= limit
        kept == CHOOSE n \in 0..Len(messages) : fits(n) /\ \A m \in 0..(n - 1) : ~fits(m)
    IN  [i \in (DOMAIN messages) \ upto(kept) |-> messages[i]]
Pruned(messages, limit) ==
    LET units == {i \in Starts(messages) : i # Question(messages)}
        upto(n) == UNION {UnitOf(messages, i) : i \in {i \in units : i <= n}}
        fits(n) == Estimate(messages) - TokensAt(messages, upto(n)) <= limit
        kept == IF \E n \in 0..Len(messages) : fits(n)
                THEN CHOOSE n \in 0..Len(messages) : fits(n) /\ \A m \in 0..(n - 1) : ~fits(m)
                ELSE Len(messages)
    IN  [i \in (DOMAIN messages) \ upto(kept) |-> messages[i]]
Compact(kept) == \* the sequence of what is left
    LET places == DOMAIN kept
    IN  [n \in 1..Cardinality(places) |->
            kept[CHOOSE i \in places : Cardinality({j \in places : j < i}) = n - 1]]
Prune(messages, limit) == Compact(Pruned(messages, limit))

\* projectExternalContext: MCP messages must fit as they are; files share what they leave, the
\* first that does not fit is cut to what remains, and one whose frame does not fit ends it.
FileMessages(files, room) ==
    LET left(n) == room - Estimate(SubSeq(files, 1, n))
        whole == Cardinality({n \in DOMAIN files : left(n) >= 0})
        cut == IF whole < Len(files) /\ Frame <= left(whole)
               THEN <<[files[whole + 1] EXCEPT !.tokens = left(whole)]>>
               ELSE <<>>
    IN  SubSeq(files, 1, whole) \o cut
External(files, mcp, room) == FileMessages(files, room - Estimate(mcp)) \o mcp

----------------------------------------------------------------------------
\* #prepareMessages, at the start of a Run.
Prepare(window, history, attached, tokens) ==
    LET question == Message("user", tokens, Len(history) + 1)
        budget == Allocate(window)
        external == External(attached[1], attached[2], budget.files)
    IN  /\ shares = budget
        /\ transcript = history \o external \o <<question>>
        /\ IF Estimate(attached[2]) > budget.files
           THEN request = <<>> /\ asking = "refused"
           ELSE /\ request = Front(Prune(Append(history, question), budget.history))
                                 \o external \o <<question>>
                /\ asking = "ready"
Init ==
    \E window \in Windows, history \in Histories, attached \in Attached, tokens \in Weights :
        Prepare(window, history, attached, tokens)
\* #streamWithOverflowRecovery: the first attempt of a turn, and one more after an overflow
\* if that takes something away.
Send == asking = "ready" /\ asking' = "sent" /\ UNCHANGED <<shares, transcript, request>>
Overflow ==
    /\ asking = "sent"
    /\ LET pruned == Prune(request, shares.history)
       IN  IF Estimate(pruned) < Estimate(request)
           THEN request' = pruned /\ asking' = "resent"
           ELSE UNCHANGED request /\ asking' = "failed"
    /\ UNCHANGED <<shares, transcript>>
OverflowAgain ==
    /\ asking = "resent" /\ asking' = "failed" /\ UNCHANGED <<shares, transcript, request>>
Steps == Cardinality({i \in DOMAIN transcript : transcript[i].role = "call" /\ transcript[i].id < 0})
\* The model asks for a Tool: call and result are added together.
ToolStep(tokens) ==
    /\ asking \in {"sent", "resent"} /\ Steps < MaxSteps
    /\ LET pair == <<Message("call", 1, -(Steps + 1)), Message("result", tokens, -(Steps + 1))>>
       IN  request' = request \o pair /\ transcript' = transcript \o pair
    /\ asking' = "ready"
    /\ UNCHANGED shares
Answer ==
    /\ asking \in {"sent", "resent"} /\ asking' = "answered" /\ UNCHANGED <<shares, transcript, request>>
Next == Send \/ Overflow \/ OverflowAgain \/ Answer \/ \E tokens \in Weights : ToolStep(tokens)
ContextSpec == Init /\ [][Next]_contextVars

----------------------------------------------------------------------------
Places == {i \in DOMAIN transcript : transcript[i] \in ToSet(request)}
Lasting == Question(transcript)
TypeOK ==
    /\ asking \in {"ready", "sent", "resent", "answered", "refused", "failed"}
    /\ Len(request) <= Len(transcript)
\* Whatever is cut, at the start and by recoveries between Tool steps, a request is the
\* transcript without some of its oldest units: the question stays, calls and results stay
\* together and in order, and nothing goes while something older stays
\* (docs/architecture/context-and-session.md:23). Of the history only as much is sent as
\* the shares leave room for.
Attachments == SelectSeq(transcript, LAMBDA m : m.id > 100)
RequestIsTheRecentPart ==
    asking # "refused" =>
        /\ request = Compact([i \in Places |-> transcript[i]])
        /\ Lasting \in Places
        /\ \A i \in Places : UnitOf(transcript, i) \subseteq Places
        /\ \A i \in Places, j \in (DOMAIN transcript) \ Places :
               i \in Starts(transcript) /\ j \in Starts(transcript) /\ i # Lasting =>
                   j < i
        /\ asking = "resent" => Estimate(request) <= shares.history \/ Places = {Lasting}
        /\ Steps = 0 /\ asking \in {"ready", "sent"} =>
               \/ Estimate(request) <= shares.history + shares.files
               \/ \A i \in Places : i >= Lasting - Len(Attachments)
=============================================================================
