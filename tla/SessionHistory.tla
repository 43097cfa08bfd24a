--------------------------- MODULE SessionHistory ---------------------------
(* What a Session's log says of its conversation: the model is told a history *)
(* projected from it (session-history.ts) and a restore shows another         *)
(* projection of it (session-recovery.ts), over the relations that make a     *)
(* question regenerate an answer or edit an earlier question. Nothing is ever *)
(* taken out of the log; `turns` is the conversation its questions amount to. *)
(* Runs here end; one that a crash cuts off is the matter of SessionStore.    *)
EXTENDS Integers, FiniteSets, SequencesExt

CONSTANTS MaxQuestions, MaxToolCalls \* bounds: Runs of the Session, Tools they call

VARIABLES
    events,  \* the log: events numbered by `at`, which serves as their identity
    status,  \* the manifest's status
    turns,   \* the conversation
    current  \* the Run under way, and what the model was told

historyVars == <<events, status, turns, current>>

Terminal == {"completed", "cancelled"} \* the latter stands for every other end
Turn(at, prompt) == [asked |-> at, prompt |-> prompt, output |-> <<>>, done |-> FALSE]
Resting == [phase |-> "rest", kind |-> "submit", from |-> 0, target |-> 0, chosen |-> 0, base |-> <<>>,
            turn |-> Turn(0, 0), told |-> <<>>]
Init == events = {} /\ status = "idle" /\ turns = <<>> /\ current = Resting

----------------------------------------------------------------------------
\* Runs in a log. A Run's events stand between its question and the next one.
OfType(log, type) == {e \in log : e.type = type}
Users(log) == OfType(log, "user")
Between(log, from, upto) == {e \in log : from < e.at /\ e.at < upto}
EndOfLog == MaxQuestions * (6 + 4 * MaxToolCalls) + 1 \* after every event there can be
EndOf(log, at) == Min({u.at : u \in Between(Users(log), at, EndOfLog)} \cup {EndOfLog})
RunAfter(log, at) == Between(log, at, EndOf(log, at))
FirstText(run) == Min({e.at : e \in OfType(run, "text")} \cup {EndOfLog})
HasText(run) == OfType(run, "text") # {}
Outputs(log) == OfType(log, "text") \cup OfType(log, "call") \cup OfType(log, "result")
StatusesOf(run) == OfType(run, "status")
Completed(run) == \E e \in StatusesOf(run) : e.to = "completed"
Latest(set) == CHOOSE e \in set : \A d \in set : d.at <= e.at
\* Status events follow one another, and nothing of a Run follows its end.
Follow(set, first) ==
    \A e \in StatusesOf(set) :
        LET earlier == Between(StatusesOf(set), 0, e.at)
        IN  /\ IF earlier = {} THEN e.from \in first ELSE e.from = Latest(earlier).to
            /\ (e.to = "active") = (e.from # "active")
Stops(run) ==
    \A e \in StatusesOf(run) : e.to \in Terminal =>
        \A d \in StatusesOf(run) \cup Outputs(run) : d.at <= e.at
Sound(run, first) == Follow(run, first) /\ Stops(run)

\* Relations: a question that regenerates an answer or edits a question.
Relations(log) == OfType(log, "regeneration") \cup OfType(log, "edit")
TargetOf(log, r) ==
    IF r.type = "edit" THEN r.target
    ELSE Max({u.at : u \in Between(Users(log), 0, r.replacement)} \cup {0})
RunOf(log, r) == Between(log, r.at, EndOf(log, r.replacement))
Replaces(log, r) == Completed(RunOf(log, r))
UserAt(log, at) == CHOOSE u \in Users(log) : u.at = at
\* validateRegenerationRelations, validateEditRelations: what makes a log corrupt.
HiddenFrom(log, r) == \* users an edit may no longer name
    {s.replacement : s \in OfType(log, "regeneration") \cup Between(OfType(log, "edit"), 0, r.at)}
    \cup UNION {{u.at : u \in Between(Users(log), EndOf(log, s.target) - 1, s.replacement)} :
                   s \in {s \in Between(OfType(log, "edit"), 0, r.at) : Replaces(log, s)}}
IsSoundRelation(log, r) ==
    LET target == TargetOf(log, r)
        answer == Between(log, target, IF r.type = "edit" THEN EndOf(log, target) ELSE r.replacement)
    IN  /\ \A s \in OfType(log, r.type) \ {r} : s.replacement # r.replacement
        /\ \E u \in Users(log) : u.at = r.replacement /\ u.at < r.at
        /\ Between(log, r.replacement, r.at) = {}
        /\ \E u \in Users(log) : u.at = target /\ u.at < r.replacement
        /\ IF r.type = "edit"
           THEN target \notin HiddenFrom(log, r) /\ HasText(answer)
           ELSE /\ \A s \in OfType(log, "regeneration") \ {r} : s.target # r.target
                /\ UserAt(log, target).prompt = UserAt(log, r.replacement).prompt
                /\ FirstText(answer) = r.target
        /\ Sound(answer, Terminal \cup {"idle"}) /\ Completed(answer)
        /\ Sound(RunOf(log, r), IF r.type = "edit" THEN Terminal ELSE {"completed"})
        /\ Replaces(log, r) => HasText(RunOf(log, r))
IsSound(log) == \A r \in Relations(log) : IsSoundRelation(log, r)

----------------------------------------------------------------------------
\* What a restore shows (restore, applyRegenerationProjection).
InOrder(set) ==
    [i \in 1..Cardinality(set) |->
        CHOOSE e \in set : Cardinality(Between(set, 0, e.at)) = i - 1]
EditsOf(log, at) ==
    {r \in OfType(log, "edit") : r.target = at /\ Replaces(log, r)}
PromptOf(log, user) ==
    IF EditsOf(log, user.at) = {} THEN user.prompt
    ELSE UserAt(log, Latest(EditsOf(log, user.at)).replacement).prompt
HiddenCompleted(log) ==
    {r.replacement : r \in Relations(log)}
    \cup {r.target : r \in {r \in OfType(log, "regeneration") : Replaces(log, r)}}
    \cup UNION {{e.at : e \in Between(Users(log) \cup OfType(log, "text"), r.target, r.replacement)} :
                   r \in {r \in OfType(log, "edit") : Replaces(log, r)}}
HiddenMessages(log) ==
    {r.replacement : r \in Relations(log)}
    \cup {r.target : r \in {r \in OfType(log, "regeneration") : Replaces(log, r)}}
    \cup {FirstText(RunOf(log, r)) : r \in {r \in Relations(log) : ~Replaces(log, r)}}
    \cup UNION {{e.at : e \in Between(Users(log) \cup OfType(log, "text"), r.target, r.replacement)} :
                   r \in {r \in OfType(log, "edit") : Replaces(log, r)}}
MessagesOf(log, user) ==
    LET run == RunAfter(log, user.at)
        texts == InOrder(OfType(run, "text"))
    IN  (IF user.at \in HiddenMessages(log) THEN <<>> ELSE << <<"user", PromptOf(log, user)>> >>)
        \o (IF ~HasText(run) \/ FirstText(run) \in HiddenMessages(log) THEN <<>>
            ELSE << <<"assistant", [i \in DOMAIN texts |-> texts[i].at]>> >>)
Restored(log) ==
    LET users == InOrder(Users(log)) IN FlattenSeq([i \in DOMAIN users |-> MessagesOf(log, users[i])])

\* What the model is told (hideSupersededRunOutput, projectSessionModelHistory).
HiddenReplaced(log) ==
    {e \in Outputs(log) : \E r \in Relations(log) :
        Replaces(log, r) /\ TargetOf(log, r) < e.at /\ e.at < r.replacement}
HiddenOutput(log) ==
    {e \in Outputs(log) : \E r \in Relations(log) :
        IF Replaces(log, r) THEN TargetOf(log, r) < e.at /\ e.at < r.replacement
        ELSE e \in RunOf(log, r)}
HiddenUsers(log) ==
    {r.replacement : r \in Relations(log)}
    \cup UNION {{u.at : u \in Between(Users(log), r.target, r.replacement)} :
                   r \in {r \in OfType(log, "edit") : Replaces(log, r)}}
EndsAs(log, user, manifest) ==
    LET ends == {e \in StatusesOf(RunAfter(log, user.at)) : e.to \in Terminal}
    IN  IF ends # {} THEN Latest(ends).to
        ELSE IF StatusesOf(RunAfter(log, user.at)) = {} /\ manifest \in Terminal THEN manifest
        ELSE "open"
\* A Tool call without a result is left out, and so is text of a Run that did not complete.
History(log, manifest) ==
    LET kept(u) == {e \in RunAfter(log, u.at) \ HiddenOutput(log) :
                        \/ e.type = "result"
                        \/ e.type = "text" /\ EndsAs(log, u, manifest) = "completed"}
        told(e) == IF e.type = "user" THEN <<"user", PromptOf(log, e)>> ELSE <<e.type, e.at>>
        all == InOrder(UNION {kept(u) : u \in Users(log)}
                       \cup {u \in Users(log) : u.at \notin HiddenUsers(log)})
    IN  [i \in DOMAIN all |-> told(all[i])]
IsTellable(log, manifest) ==
    /\ IsSound(log)
    /\ Follow(log, {"idle"})
    /\ \A u \in Users(log) :
        LET run == RunAfter(log, u.at) \ HiddenOutput(log)
        IN  /\ Stops(run)
            /\ EndOf(log, u.at) # EndOfLog => EndsAs(log, u, manifest) # "open"
            /\ EndsAs(log, u, manifest) = "completed" =>
                   Cardinality(OfType(run, "call")) = Cardinality(OfType(run, "result"))
\* A retry is told what precedes its target: the projected log cut there and projected again.
Prefix(log, at) == Between(log \ HiddenOutput(log), 0, at)
HasAnswer(log, at) ==
    /\ IsSound(log)
    /\ HasText(RunAfter(log, at)) /\ Completed(RunAfter(log, at))
    /\ IsTellable(Prefix(log, at), "completed")
\* A chat that is not restored names its questions by the request: taken for the latest one.
ResolveAlias(log) ==
    LET latest == Latest(Users(log)).at
        named == {r \in Relations(log) : r.replacement = latest}
    IN  IF named = {} THEN latest ELSE TargetOf(log, Latest(named))

----------------------------------------------------------------------------
\* One Run: runInternal of the chat runner appends its events one by one.
MayAsk == current.phase = "rest" /\ Cardinality(Users(events)) < MaxQuestions
\* The question stands in the log on its own until its relation follows.
Ask(kind, prompt, from, target, chosen, base, told) ==
    LET at == Cardinality(events) + 1
        turn == Turn(at, prompt)
    IN  /\ events' = events \cup {[at |-> at, type |-> "user", prompt |-> prompt]}
        /\ turns' = Append(turns, turn)
        /\ current' = [phase |-> "asked", kind |-> kind, from |-> from, target |-> target,
                       chosen |-> chosen, base |-> base, turn |-> turn, told |-> told]
        /\ UNCHANGED status
Submit ==
    /\ MayAsk /\ IsTellable(events, status)
    /\ Ask("submit", Cardinality(events) + 1, 0, 0, 0, turns, History(events, status))
\* The chat offers a retry where it shows an answer, of the last one or of any question.
ShowsAnswer(i) == \E n \in DOMAIN turns[i].output : turns[i].output[n][1] = "text"
Regenerate ==
    /\ MayAsk /\ turns # <<>> /\ ShowsAnswer(Len(turns))
    /\ LET target == Latest(Users(events))
       IN  /\ HasAnswer(events, target.at)
           /\ Ask("regenerate", target.prompt, target.at, FirstText(RunAfter(events, target.at)),
                  Len(turns), Front(turns), History(Prefix(events, target.at), "completed"))
\* A question of this chat is named by its request, an alias; one of a restored chat, which
\* it can be at any time between Runs, by its message. An edit is about the turn its target
\* names, whatever was chosen.
TurnOf(at) == CHOOSE i \in DOMAIN turns : turns[i].asked = at
Edit(i, alias) ==
    LET target == IF alias THEN ResolveAlias(events) ELSE turns[i].asked
    IN  /\ MayAsk /\ ShowsAnswer(i)
        /\ target \notin HiddenUsers(events) /\ HasAnswer(events, target)
        /\ Ask("edit", Cardinality(events) + 1, target, target, i,
               SubSeq(turns, 1, TurnOf(target) - 1), History(Prefix(events, target), "completed"))
\* From its relation on, a retry shows only if it completes.
Relate ==
    /\ current.phase = "asked" /\ current.kind # "submit"
    /\ events' = events \cup
           {[at |-> Cardinality(events) + 1,
             type |-> IF current.kind = "edit" THEN "edit" ELSE "regeneration",
             target |-> current.target, replacement |-> Latest(Users(events)).at]}
    /\ turns' = Front(turns)
    /\ LET retried == turns[Len(current.base) + 1] \* keeps its identity in the chat
       IN  current' = [current EXCEPT !.phase = "related", !.turn.asked = retried.asked]
    /\ UNCHANGED status
\* A Run stopped before its first status: what it appended stays.
StopEarly ==
    /\ current.phase \in {"asked", "related"} /\ status # "idle"
    /\ current' = Resting
    /\ UNCHANGED <<events, status, turns>>
Changes(to) == [at |-> Cardinality(events) + 1, type |-> "status", from |-> status, to |-> to]
Begin ==
    /\ current.phase = (IF current.kind = "submit" THEN "asked" ELSE "related")
    /\ events' = events \cup {Changes("active")}
    /\ status' = "active"
    /\ current' = [current EXCEPT !.phase = "running"]
    /\ UNCHANGED turns
Output(type) ==
    /\ current.phase = "running"
    /\ events' = events \cup {[at |-> Cardinality(events) + 1, type |-> type]}
    /\ LET turn == [current.turn EXCEPT !.output = Append(@, <<type, Cardinality(events) + 1>>)]
       IN  /\ current' = [current EXCEPT !.turn = turn]
           /\ turns' = IF current.kind = "submit" THEN [turns EXCEPT ![Len(turns)] = turn] ELSE turns
    /\ UNCHANGED status
Said == current.turn.output
LastSaid == IF Said = <<>> THEN "nothing" ELSE Said[Len(Said)][1]
Say == LastSaid \notin {"text", "call"} /\ Output("text")
CallTool ==
    /\ LastSaid # "call" /\ Cardinality(OfType(events, "call")) < MaxToolCalls
    /\ Output("call")
ToolEnds == LastSaid = "call" /\ Output("result")
\* A Run completes with an answer; a retry then takes the place of what it retries.
Complete ==
    /\ current.phase = "running" /\ LastSaid = "text"
    /\ events' = events \cup {Changes("completed")} /\ status' = "completed"
    /\ turns' = Append(current.base, [current.turn EXCEPT !.done = TRUE])
    /\ current' = Resting
Cancel ==
    /\ current.phase = "running"
    /\ events' = events \cup {Changes("cancelled")} /\ status' = "cancelled"
    /\ current' = Resting
    /\ UNCHANGED turns
Next ==
    \/ Submit \/ Regenerate \/ \E i \in DOMAIN turns, alias \in BOOLEAN : Edit(i, alias)
    \/ Relate \/ StopEarly \/ Begin \/ Say \/ CallTool \/ ToolEnds \/ Complete \/ Cancel
HistorySpec == Init /\ [][Next]_historyVars

----------------------------------------------------------------------------
Displayed(conversation) ==
    FlattenSeq([i \in DOMAIN conversation |->
        LET turn == conversation[i]
            texts == SelectSeq(turn.output, LAMBDA unit : unit[1] = "text")
        IN  << <<"user", turn.prompt>> >>
            \o (IF texts = <<>> THEN <<>>
                ELSE << <<"assistant", [j \in DOMAIN texts |-> texts[j][2]]>> >>)])
Told(conversation) ==
    FlattenSeq([i \in DOMAIN conversation |->
        << <<"user", conversation[i].prompt>> >>
        \o SelectSeq(conversation[i].output, LAMBDA unit :
            unit[1] = "result" \/ (unit[1] = "text" /\ conversation[i].done))])
TypeOK ==
    /\ status \in {"idle", "active"} \cup Terminal
    /\ current.phase \in {"rest", "asked", "related", "running"}
    /\ {e.at : e \in events} = 1..Cardinality(events)
\* Whatever was asked, regenerated, edited, completed or stopped, in any order, a restore
\* shows the conversation (docs/persistence.md:112-133): the last completed retry of a turn
\* in the place of the turn and what came after it, and nothing of a retry that did not.
RestoreShowsTheConversation == IsSound(events) /\ Restored(events) = Displayed(turns)
\* A Run is told the conversation before its question. A retry of a question that comes after
\* a completed retry in the log is refused, or told the question as it first was.
FollowsRetry(at) == \E r \in Relations(events) : Replaces(events, r) /\ TargetOf(events, r) < at
RunIsToldTheConversation ==
    /\ current.phase # "rest" /\ ~FollowsRetry(current.from) => current.told = Told(current.base)
    /\ current.phase = "rest" =>
        /\ IsTellable(events, status) /\ History(events, status) = Told(turns)
        /\ \A i \in DOMAIN turns : turns[i].done /\ ~FollowsRetry(turns[i].asked) =>
               turns[i].asked \notin HiddenUsers(events) /\ HasAnswer(events, turns[i].asked)
\* An edit replaces the question that was chosen for it, and no other
\* (docs/protocol/session-and-runtime.md:37-40, "The Host validates the exact target").
EditsTheChosen == current.kind = "edit" => current.chosen = Len(current.base) + 1
=============================================================================
