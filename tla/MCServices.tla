----------------------------- MODULE MCServices -----------------------------
(* Two files, two connections, two catalogs, one command, one Run's budget    *)
(* and reasoning, four questions: enough for every part to meet a second one  *)
(* of what it fences off or replaces.                                         *)
EXTENDS Services
CONSTANTS f1, f2, c1, s1, s2, p1, p2

\* What a Provider may report, unknown counts among them.
MCReports == [Fields -> {Unknown, 0, 1, 2}]
\* Texts of one delta: characters of one byte and of four.
MCTexts == {<<1>>, <<4>>, <<4, 4>>, <<1, 4, 4>>}
\* Conversations to continue: none, two turns, and turns with one and with two Tool calls.
Said(role, tokens, id) == [role |-> role, tokens |-> tokens, id |-> id]
User(tokens, id) == Said("user", tokens, id)
Assistant(tokens, id) == Said("assistant", tokens, id)
Call(id) == Said("call", 2, id)
Result(tokens, id) == Said("result", tokens, id)
MCHistories == {
    <<>>,
    <<User(1, 1), Assistant(2, 2), User(1, 3), Assistant(4, 4)>>,
    <<User(2, 1), Call(2), Result(3, 2), Assistant(4, 4)>>,
    <<User(1, 1), Call(2), Call(3), Result(2, 2), Result(3, 3), User(5, 6)>>}
\* Attached files, by themselves and with what a Server's Resource gave.
MCAttached ==
    {<<>>, <<User(2, 101)>>, <<User(3, 101), User(2, 102)>>} \X {<<>>, <<User(2, 103)>>}
\* What a provider finds: nothing, what is outside, what cannot be read, one thing twice, more than is
\* kept, and more than is looked at.
Item(rank, size, where) == [rank |-> rank, size |-> size, where |-> where]
MCFound ==
    LET a == Item(1, 2, "inside")
        b == Item(2, 2, "inside")
        c == Item(3, 1, "inside")
        closed == Item(4, 1, "closed")
        outside == Item(5, 1, "outside")
        malformed == Item(6, 1, "malformed")
    IN  {<<>>, <<outside>>, <<a, malformed>>, <<closed, c>>, <<b, b, a>>, <<c, b, a>>, <<outside, c, b, a>>}
=============================================================================
