--------------------------- MODULE ConnectionCheck ---------------------------
(* The check of a Provider's connection: the key is read through the queue of *)
(* its Provider, the model's metadata are fetched and read in chunks, under   *)
(* one deadline and a notification that can be cancelled at any await. What   *)
(* the storage and the Provider answered is kept beside the report.           *)
EXTENDS Naturals

VARIABLES
    target,     \* createMetadataTarget: what the configuration asks for
    checking,   \* the await the check is at
    answered,   \* the key that was read, the status, the body: what the outside said
    stopped,    \* what aborted the check: nothing, the user or the deadline
    report

checkVars == <<target, checking, answered, stopped, report>>

Targets == {"unsafe-model", "bad-endpoint", "dedicated", "openai", "gemini", "compatible", "local"}
\* classifyHttpStatus and requestMetadata: the code a status other than 200 stands for.
Statuses == {200, 204, 400, 401, 403, 404, 408, 429, 500, 504, 599}
HttpCode(status) ==
    CASE status \in {401, 403} -> "authentication"
      [] status = 404 -> "model-not-found"
      [] status = 429 -> "rate-limit"
      [] status \in {408, 504} -> "timeout"
      [] status \in {500, 599} -> "network"
      [] OTHER -> "unknown"
\* parseMetadata: the model asked for, with what it says of streaming, or nothing usable.
Bodies == {"streams", "does-not-stream", "plain", "another-model", "no-JSON", "too-large"}

Nothing == [outcome |-> "none", code |-> "none", authentication |-> "unknown",
            model |-> "unknown", required |-> "unknown"]
Failed(code) ==
    [outcome |-> IF code = "cancelled" THEN "cancelled" ELSE "failed", code |-> code,
     authentication |-> IF code = "authentication" THEN "unsupported" ELSE "unknown",
     model |-> IF code = "model-not-found" THEN "unsupported" ELSE "unknown",
     required |-> "unknown"]
\* The Tool calls of a model are never known, so that the required capabilities never are.
Completed(body) ==
    [outcome |-> "completed", code |-> "none", authentication |-> "supported",
     model |-> "supported",
     required |-> IF target = "gemini" /\ body = "does-not-stream" THEN "unsupported" ELSE "unknown"]
NotProbed == [Nothing EXCEPT !.outcome = "completed", !.code = "unknown"]

Init ==
    /\ target \in Targets /\ checking = "idle" /\ stopped = "nothing"
    /\ answered = [key |-> "none", status |-> 0, body |-> "none"]
    /\ report = Nothing

Concludes(result) == checking' = "done" /\ report' = result
Begin(isCancelled) ==
    /\ checking = "idle"
    /\ stopped' = IF isCancelled THEN "cancelled" ELSE "nothing"
    /\ IF isCancelled THEN Concludes(Failed("cancelled"))
       ELSE CASE target \in {"unsafe-model", "bad-endpoint"} -> Concludes(Failed("configuration"))
              [] target = "dedicated" -> Concludes(NotProbed)
              [] OTHER -> checking' = "key" /\ UNCHANGED report
    /\ UNCHANGED <<target, answered>>
\* Mutant: a key that is not there is as good as one that cannot be read.
ReadKeyAlike(key) ==
    /\ checking = "key" /\ answered' = [answered EXCEPT !.key = key]
    /\ IF key # "stored" THEN Concludes(Failed("authentication"))
       ELSE checking' = "fetch" /\ UNCHANGED report
    /\ UNCHANGED <<target, stopped>>
\* The queue drops the read of a key when the settings change or local data are cleared, and the
\* check takes that for a missing key.
ReadKey(key) ==
    /\ checking = "key" /\ answered' = [answered EXCEPT !.key = key]
    /\ CASE key = "unreadable" -> Concludes(Failed("configuration"))
         [] key \in {"missing", "dropped"} /\ target # "local" -> Concludes(Failed("authentication"))
         [] OTHER -> checking' = "fetch" /\ UNCHANGED report
    /\ UNCHANGED <<target, stopped>>
Fetch(status) ==
    /\ checking = "fetch" /\ answered' = [answered EXCEPT !.status = status]
    /\ IF status = 200 THEN checking' = "body" /\ UNCHANGED report
       ELSE Concludes(Failed(HttpCode(status)))
    /\ UNCHANGED <<target, stopped>>
\* The Provider cannot be reached, redirects, or breaks off its answer.
ConnectionFails ==
    /\ checking \in {"fetch", "body"} /\ Concludes(Failed("network"))
    /\ UNCHANGED <<target, answered, stopped>>
ReadBody(body) ==
    /\ checking = "body" /\ answered' = [answered EXCEPT !.body = body]
    /\ Concludes(IF body \in {"another-model", "no-JSON", "too-large"} THEN Failed("malformed")
               ELSE Completed(body))
    /\ UNCHANGED <<target, stopped>>
\* awaitWithAbort: whichever comes first, the user's cancellation or the deadline.
Abort(reason) ==
    /\ checking \in {"key", "fetch", "body"}
    /\ stopped' = reason /\ Concludes(Failed(reason))
    /\ UNCHANGED <<target, answered>>

Next ==
    \/ \E isCancelled \in BOOLEAN : Begin(isCancelled)
    \/ \E key \in {"stored", "missing", "dropped", "unreadable"} : ReadKey(key)
    \/ \E status \in Statuses : Fetch(status)
    \/ ConnectionFails
    \/ \E body \in Bodies : ReadBody(body)
    \/ \E reason \in {"cancelled", "timeout"} : Abort(reason)
CheckSpec == Init /\ [][Next]_checkVars

----------------------------------------------------------------------------
TypeOK ==
    /\ target \in Targets
    /\ checking \in {"idle", "key", "fetch", "body", "done"}
    /\ stopped \in {"nothing", "cancelled", "timeout"}
    /\ report.outcome \in {"none", "completed", "failed", "cancelled"}
\* A report says only what was found out: the key and the model are good if the Provider
\* described the model it was asked for, the key is bad if the Provider refused it or none could
\* be used, the model is unknown to it if it says so, a check that was stopped says who stopped
\* it and nothing else, settings are blamed only for what is on this side, and a capability is
\* denied only by a Provider that lists it (docs/architecture/providers.md:175-191).
ReportIsTrue ==
    report.outcome # "none" =>
        /\ report.authentication = "supported" \/ report.model = "supported" =>
               /\ answered.status = 200 /\ answered.body \in {"streams", "does-not-stream", "plain"}
               /\ answered.key = "stored" \/ target = "local"
        /\ report.authentication = "unsupported" =>
               answered.status \in {401, 403} \/ answered.key \in {"missing", "dropped"}
        /\ report.model = "unsupported" <=> stopped = "nothing" /\ answered.status = 404
        /\ report.code = "cancelled" <=> stopped = "cancelled"
        /\ stopped = "timeout" => report.code = "timeout"
        /\ report.code = "timeout" => stopped = "timeout" \/ answered.status \in {408, 504}
        /\ report.code = "configuration" =>
               target \in {"unsafe-model", "bad-endpoint"} \/ answered.key = "unreadable"
        /\ report.required = "unsupported" =>
               target = "gemini" /\ answered.body = "does-not-stream"
=============================================================================
