---------------------------- MODULE MCAgentView ----------------------------
(* Model values and sets for the instances of AgentView.                      *)
EXTENDS AgentView

CONSTANTS s1, s2, s3

TwoSessions == {s1, s2}
ThreeSessions == {s1, s2, s3}
SecondSaved == {s2}
OnlyOpen == {s1}
OneSaved == {s1}
TwoSaved == {s1, s2}
FreshOrOpen == {NoSession, s1}
OnlyFresh == {NoSession}
AllIntents == {"submit", "regenerate", "edit-message", "cancel", "new-chat",
               "list-sessions", "select-session", "restore-session",
               "delete-session", "clear-sessions", "clear-local-data"}
=============================================================================
