------------------------ MODULE UserServicesProofs ------------------------
(***************************************************************************)
(* The inductive invariants of what serves the user's settings, each of    *)
(* one part by itself: the check of a connection, the keys of the          *)
(* Providers, and the export of diagnostics. ServicesProofs says what      *)
(* follows for the services together.                                      *)
(***************************************************************************)
EXTENDS UserServices, SequenceTheorems, TLAPS

-----------------------------------------------------------------------------
(* ConnectionCheck: what is reported of a Provider's connection.           *)

Answers ==
    [key : {"none", "stored", "missing", "dropped", "unreadable"},
     status : Check!Statuses \cup {0}, body : Check!Bodies \cup {"none"}]
\* What was answered so far is as far as the check has come.
CheckInv ==
    /\ Check!TypeOK /\ answered \in Answers
    /\ checking # "done" => report = Check!Nothing /\ stopped = "nothing" /\ answered.body = "none"
    /\ checking \in {"idle", "key"} => answered.key = "none"
    /\ checking \in {"idle", "key", "fetch"} => answered.status = 0
    /\ checking \in {"fetch", "body"} =>
           answered.key = "stored" \/ (answered.key \in {"missing", "dropped"} /\ target = "local")
    /\ checking = "body" => answered.status = 200
    /\ Check!ReportIsTrue
\* What has to be so for a check to fail with a code.
Founded(code) ==
    /\ code = "authentication" =>
           answered.status \in {401, 403} \/ answered.key \in {"missing", "dropped"}
    /\ code = "model-not-found" <=> stopped = "nothing" /\ answered.status = 404
    /\ code = "cancelled" <=> stopped = "cancelled"
    /\ stopped = "timeout" => code = "timeout"
    /\ code = "timeout" => stopped = "timeout" \/ answered.status \in {408, 504}
    /\ code = "configuration" =>
           target \in {"unsafe-model", "bad-endpoint"} \/ answered.key = "unreadable"

\* Before a check nothing is answered, and every step of one keeps what is known of the answers.
LEMMA CheckInit == Check!Init => CheckInv
  BY DEF Check!Init, CheckInv, Check!TypeOK, Check!ReportIsTrue, Check!Nothing, Answers

LEMMA CheckNext == CheckInv /\ [Check!Next]_checkVars => CheckInv'
  <1> SUFFICES ASSUME CheckInv, [Check!Next]_checkVars PROVE CheckInv'
    OBVIOUS
  <1>1. target \in Check!Targets /\ answered \in Answers
    BY DEF CheckInv, Check!TypeOK
  \* What is left to show of a step that ends the check, and of one that does not.
  <1>a. ASSUME target' = target, answered' \in Answers, checking' = "done",
               stopped' \in {"nothing", "cancelled", "timeout"},
               report'.outcome \in {"completed", "failed", "cancelled"}, Check!ReportIsTrue'
        PROVE  CheckInv'
    BY <1>1, <1>a DEF CheckInv, Check!TypeOK
  <1>b. ASSUME report' = Check!Nothing
        PROVE  Check!ReportIsTrue' /\ report'.outcome = "none"
    BY <1>b DEF Check!ReportIsTrue, Check!Nothing
  \* A check that failed tells the truth if its code does.
  <1>2. ASSUME NEW code, report' = Check!Failed(code), Founded(code)'
        PROVE  Check!ReportIsTrue' /\ report'.outcome \in {"completed", "failed", "cancelled"}
    <2>1. /\ report'.outcome = IF code = "cancelled" THEN "cancelled" ELSE "failed"
          /\ report'.code = code /\ report'.required = "unknown"
          /\ report'.authentication = IF code = "authentication" THEN "unsupported" ELSE "unknown"
          /\ report'.model = IF code = "model-not-found" THEN "unsupported" ELSE "unknown"
      BY <1>2 DEF Check!Failed
    <2>2. /\ report'.authentication # "supported" /\ report'.model # "supported"
          /\ report'.outcome \in {"completed", "failed", "cancelled"}
      BY <2>1
    <2>3. report'.authentication = "unsupported" =>
              answered'.status \in {401, 403} \/ answered'.key \in {"missing", "dropped"}
      <3>1. code = "authentication" =>
                answered'.status \in {401, 403} \/ answered'.key \in {"missing", "dropped"}
        BY <1>2 DEF Founded
      <3> QED BY <2>1, <3>1
    <2>4. report'.model = "unsupported" <=> stopped' = "nothing" /\ answered'.status = 404
      <3>1. code = "model-not-found" <=> stopped' = "nothing" /\ answered'.status = 404
        BY <1>2 DEF Founded
      <3> QED BY <2>1, <3>1
    <2>5. /\ report'.code = "cancelled" <=> stopped' = "cancelled"
          /\ stopped' = "timeout" => report'.code = "timeout"
      <3>1. code = "cancelled" <=> stopped' = "cancelled"
        BY <1>2 DEF Founded
      <3>2. stopped' = "timeout" => code = "timeout"
        BY <1>2 DEF Founded
      <3> QED BY <2>1, <3>1, <3>2
    <2>6. report'.code = "timeout" => stopped' = "timeout" \/ answered'.status \in {408, 504}
      <3>1. code = "timeout" => stopped' = "timeout" \/ answered'.status \in {408, 504}
        BY <1>2 DEF Founded
      <3> QED BY <2>1, <3>1
    <2>7. report'.code = "configuration" =>
              target' \in {"unsafe-model", "bad-endpoint"} \/ answered'.key = "unreadable"
      <3>1. code = "configuration" =>
                target' \in {"unsafe-model", "bad-endpoint"} \/ answered'.key = "unreadable"
        BY <1>2 DEF Founded
      <3> QED BY <2>1, <3>1
    <2> QED BY <2>1, <2>2, <2>3, <2>4, <2>5, <2>6, <2>7 DEF Check!ReportIsTrue
  <1>3. ASSUME NEW isCancelled \in BOOLEAN, Check!Begin(isCancelled) PROVE CheckInv'
    <2>1. /\ checking = "idle" /\ answered.status = 0 /\ answered.key = "none" /\ answered.body = "none"
          /\ report = Check!Nothing /\ answered' = answered /\ target' = target
          /\ stopped' = (IF isCancelled THEN "cancelled" ELSE "nothing")
      BY <1>3 DEF CheckInv, Check!Begin
    <2>2. CASE isCancelled
      <3>1. checking' = "done" /\ report' = Check!Failed("cancelled")
        BY <1>3, <2>2 DEF Check!Begin, Check!Concludes
      <3>2. Check!ReportIsTrue' /\ report'.outcome \in {"completed", "failed", "cancelled"}
        <4>1. Founded("cancelled")'
          BY <2>1, <2>2, <3>1 DEF Founded
        <4> QED BY <1>2, <3>1, <4>1
      <3> QED BY <1>1, <1>a, <2>1, <2>2, <3>1, <3>2
    <2>3. CASE ~isCancelled /\ target \in {"unsafe-model", "bad-endpoint"}
      <3>1. checking' = "done" /\ report' = Check!Failed("configuration")
        BY <1>3, <2>3 DEF Check!Begin, Check!Concludes
      <3>2. Check!ReportIsTrue' /\ report'.outcome \in {"completed", "failed", "cancelled"}
        <4>1. /\ answered'.status = 0 /\ stopped' = "nothing"
              /\ target' \in {"unsafe-model", "bad-endpoint"}
          BY <2>1, <2>3
        <4>2. Founded("configuration")'
          BY <4>1 DEF Founded
        <4> QED BY <1>2, <3>1, <4>2
      <3> QED BY <1>1, <1>a, <2>1, <2>3, <3>1, <3>2
    <2>4. CASE ~isCancelled /\ target = "dedicated"
      <3>1. checking' = "done" /\ report' = Check!NotProbed
        BY <1>3, <2>4 DEF Check!Begin, Check!Concludes
      <3>2. /\ report'.outcome = "completed" /\ report'.code = "unknown" /\ report'.authentication = "unknown"
            /\ report'.model = "unknown" /\ report'.required = "unknown"
        BY <3>1 DEF Check!NotProbed, Check!Nothing
      <3>3. Check!ReportIsTrue'
        BY <2>1, <2>4, <3>1, <3>2 DEF Check!ReportIsTrue
      <3> QED BY <1>1, <1>a, <2>1, <2>4, <3>1, <3>2, <3>3
    <2>5. CASE ~isCancelled /\ target \notin {"unsafe-model", "bad-endpoint", "dedicated"}
      <3>1. checking' = "key" /\ report' = report
        BY <1>3, <2>5 DEF Check!Begin
      <3>2. Check!ReportIsTrue' /\ report'.outcome = "none"
        BY <1>b, <2>1, <3>1
      <3> QED BY <1>1, <2>1, <2>5, <3>1, <3>2 DEF CheckInv, Check!TypeOK
    <2> QED BY <2>2, <2>3, <2>4, <2>5
  <1>4. ASSUME NEW key \in {"stored", "missing", "dropped", "unreadable"}, Check!ReadKey(key) PROVE CheckInv'
    <2>1. /\ checking = "key" /\ answered.status = 0 /\ answered.body = "none" /\ stopped = "nothing"
          /\ report = Check!Nothing /\ target' = target /\ stopped' = stopped
          /\ answered' = [answered EXCEPT !.key = key]
      BY <1>4 DEF CheckInv, Check!ReadKey
    <2>2. /\ answered' \in Answers /\ answered'.status = 0 /\ answered'.body = "none" /\ answered'.key = key
      BY <1>1, <2>1 DEF Answers
    <2>3. CASE key = "unreadable"
      <3>1. checking' = "done" /\ report' = Check!Failed("configuration")
        BY <1>4, <2>3 DEF Check!ReadKey, Check!Concludes
      <3>2. Check!ReportIsTrue' /\ report'.outcome \in {"completed", "failed", "cancelled"}
        <4>1. Founded("configuration")'
          BY <2>1, <2>2, <2>3, <3>1 DEF Founded
        <4> QED BY <1>2, <3>1, <4>1
      <3> QED BY <1>1, <1>a, <2>1, <2>2, <2>3, <3>1, <3>2
    <2>4. CASE key \in {"missing", "dropped"} /\ target # "local"
      <3>1. checking' = "done" /\ report' = Check!Failed("authentication")
        BY <1>4, <2>4 DEF Check!ReadKey, Check!Concludes
      <3>2. Check!ReportIsTrue' /\ report'.outcome \in {"completed", "failed", "cancelled"}
        <4>1. Founded("authentication")'
          BY <2>1, <2>2, <2>4, <3>1 DEF Founded
        <4> QED BY <1>2, <3>1, <4>1
      <3> QED BY <1>1, <1>a, <2>1, <2>2, <2>4, <3>1, <3>2
    <2>5. CASE key = "stored" \/ (key \in {"missing", "dropped"} /\ target = "local")
      <3>1. checking' = "fetch" /\ report' = report
        BY <1>4, <2>5 DEF Check!ReadKey
      <3>2. Check!ReportIsTrue' /\ report'.outcome = "none"
        BY <1>b, <2>1, <3>1
      <3> QED BY <1>1, <2>1, <2>2, <2>5, <3>1, <3>2 DEF CheckInv, Check!TypeOK
    <2> QED BY <2>3, <2>4, <2>5
  <1>5. ASSUME NEW status \in Check!Statuses, Check!Fetch(status) PROVE CheckInv'
    <2>1. /\ checking = "fetch" /\ answered.body = "none" /\ stopped = "nothing"
          /\ report = Check!Nothing /\ target' = target /\ stopped' = stopped
          /\ answered.key = "stored" \/ (answered.key \in {"missing", "dropped"} /\ target = "local")
          /\ answered' = [answered EXCEPT !.status = status]
      BY <1>5 DEF CheckInv, Check!Fetch
    <2>2. /\ answered' \in Answers /\ answered'.status = status /\ answered'.body = "none"
          /\ answered'.key = answered.key
      BY <1>1, <2>1 DEF Answers
    <2>3. CASE status = 200
      <3>1. checking' = "body" /\ report' = report
        BY <1>5, <2>3 DEF Check!Fetch
      <3>2. Check!ReportIsTrue' /\ report'.outcome = "none"
        BY <1>b, <2>1, <3>1
      <3> QED BY <1>1, <2>1, <2>2, <2>3, <3>1, <3>2 DEF CheckInv, Check!TypeOK
    <2>4. CASE status # 200
      <3>1. checking' = "done" /\ report' = Check!Failed(Check!HttpCode(status))
        BY <1>5, <2>4 DEF Check!Fetch, Check!Concludes
      <3>2. /\ Check!HttpCode(status) \in {"authentication", "model-not-found", "rate-limit", "timeout",
                                           "network", "unknown"}
            /\ Check!HttpCode(status) = "authentication" => status \in {401, 403}
            /\ Check!HttpCode(status) = "model-not-found" <=> status = 404
            /\ Check!HttpCode(status) = "timeout" => status \in {408, 504}
        BY DEF Check!HttpCode
      <3>3. Check!ReportIsTrue' /\ report'.outcome \in {"completed", "failed", "cancelled"}
        <4>1. /\ stopped' = "nothing" /\ answered'.status = status
          BY <2>1, <2>2
        <4>2. Founded(Check!HttpCode(status))'
          BY <3>2, <4>1 DEF Founded
        <4> QED BY <1>2, <3>1, <4>2
      <3> QED BY <1>1, <1>a, <2>1, <2>2, <2>4, <3>1, <3>2, <3>3
    <2> QED BY <2>3, <2>4
  <1>6. CASE Check!ConnectionFails
    <2>1. /\ checking \in {"fetch", "body"} /\ checking' = "done" /\ report' = Check!Failed("network")
          /\ UNCHANGED <<target, answered, stopped>> /\ stopped = "nothing" /\ answered.status \in {0, 200}
      BY <1>6 DEF CheckInv, Check!ConnectionFails, Check!Concludes
    <2>2. Check!ReportIsTrue' /\ report'.outcome \in {"completed", "failed", "cancelled"}
      <3>1. Founded("network")'
        BY <2>1 DEF Founded
      <3> QED BY <1>2, <2>1, <3>1
    <2> QED BY <1>1, <1>a, <2>1, <2>2
  <1>7. ASSUME NEW body \in Check!Bodies, Check!ReadBody(body) PROVE CheckInv'
    <2>1. /\ checking = "body" /\ checking' = "done" /\ answered.status = 200 /\ stopped = "nothing"
          /\ target' = target /\ stopped' = stopped
          /\ answered.key = "stored" \/ (answered.key \in {"missing", "dropped"} /\ target = "local")
          /\ answered' = [answered EXCEPT !.body = body]
          /\ report' = IF body \in {"another-model", "no-JSON", "too-large"} THEN Check!Failed("malformed")
                       ELSE Check!Completed(body)
      BY <1>7 DEF CheckInv, Check!ReadBody, Check!Concludes
    <2>2. /\ answered' \in Answers /\ answered'.status = 200 /\ answered'.body = body
          /\ answered'.key = answered.key
      BY <1>1, <2>1 DEF Answers
    <2>3. CASE body \in {"another-model", "no-JSON", "too-large"}
      <3>1. report' = Check!Failed("malformed")
        BY <2>1, <2>3
      <3>2. Check!ReportIsTrue' /\ report'.outcome \in {"completed", "failed", "cancelled"}
        <4>1. /\ stopped' = "nothing" /\ answered'.status = 200
          BY <2>1, <2>2
        <4>2. Founded("malformed")'
          BY <4>1 DEF Founded
        <4> QED BY <1>2, <3>1, <4>2
      <3> QED BY <1>1, <1>a, <2>1, <2>2, <3>1, <3>2
    <2>4. CASE body \in {"streams", "does-not-stream", "plain"}
      <3>1. /\ report'.outcome = "completed" /\ report'.code = "none" /\ report'.authentication = "supported"
            /\ report'.model = "supported"
            /\ report'.required = "unsupported" => target = "gemini" /\ body = "does-not-stream"
        BY <2>1, <2>4 DEF Check!Completed
      <3>2. Check!ReportIsTrue'
        <4>1. /\ stopped' = "nothing" /\ answered'.status = 200 /\ answered'.body = body
              /\ answered'.key = "stored" \/ target' = "local"
          BY <2>1, <2>2
        <4>2. report'.required = "unsupported" => target' = "gemini" /\ answered'.body = "does-not-stream"
          BY <2>1, <2>2, <3>1
        <4> QED BY <2>4, <3>1, <4>1, <4>2 DEF Check!ReportIsTrue
      <3> QED BY <1>1, <1>a, <2>1, <2>2, <3>1, <3>2
    <2> QED BY <2>3, <2>4 DEF Check!Bodies
  <1>8. ASSUME NEW reason \in {"cancelled", "timeout"}, Check!Abort(reason) PROVE CheckInv'
    <2>1. /\ checking \in {"key", "fetch", "body"} /\ checking' = "done" /\ report' = Check!Failed(reason)
          /\ stopped' = reason /\ UNCHANGED <<target, answered>> /\ answered.status \in {0, 200}
      BY <1>8 DEF CheckInv, Check!Abort, Check!Concludes
    <2>2. Check!ReportIsTrue' /\ report'.outcome \in {"completed", "failed", "cancelled"}
      <3>1. Founded(reason)'
        BY <2>1 DEF Founded
      <3> QED BY <1>2, <2>1, <3>1
    <2> QED BY <1>1, <1>a, <2>1, <2>2
  <1>9. CASE UNCHANGED checkVars
    <2>1. target' = target /\ checking' = checking /\ answered' = answered /\ stopped' = stopped
          /\ report' = report
      BY <1>9 DEF checkVars
    <2>2. Check!TypeOK'
      BY <2>1 DEF Check!TypeOK, CheckInv
    <2>3. Check!ReportIsTrue'
      <3>1. Check!ReportIsTrue
        BY DEF CheckInv
      <3> QED BY <2>1, <3>1 DEF Check!ReportIsTrue
    <2> QED BY <2>1, <2>2, <2>3 DEF CheckInv
  <1> QED BY <1>3, <1>4, <1>5, <1>6, <1>7, <1>8, <1>9 DEF Check!Next, checkVars

LEMMA CheckTells == CheckInv => Check!ReportIsTrue
  BY DEF CheckInv

-----------------------------------------------------------------------------
(* ProviderKeys: what is done to the keys, one operation after the other.  *)

KeySteps == {"queued", "asking", "confirming", "looking", "writing", "reconciling", "showing", "done"}
KeyOperations ==
    [kind : {"save", "delete", "read", "list"}, provider : Providers, isCurrent : BOOLEAN,
     at : KeySteps, result : {"none", "cancelled", "present", "absent", "unavailable", "completed", "failed"}]
Clearings ==
    [at : {"idle", "confirming", "locking", "deleting", "cleared"}, waits : SUBSET Nat,
     left : SUBSET Providers, failed : BOOLEAN, asked : BOOLEAN, since : Nat]
KeysTyped ==
    /\ keys \in [Providers -> Nat] /\ exclusive \in BOOLEAN
    /\ operations \in Seq(KeyOperations)
    /\ settings \in [provider : Providers, model : BOOLEAN, changes : Nat]
    /\ clearing \in Clearings

\* The operations on a Provider's key are served one after the other.
OneByOne ==
    \A i, j \in DOMAIN operations :
        i < j /\ operations[i].provider = operations[j].provider /\ operations[j].at # "queued" =>
            operations[i].at = "done"
\* An operation that is going to tell it completed, and what it has made of the key then.
Completes(i) ==
    \/ operations[i].at = "reconciling" /\ operations[i].result = "none"
    \/ operations[i].at = "showing" /\ operations[i].result = "completed"
KeyOf(i) == IF operations[i].kind = "save" THEN i ELSE 0
WrittenKeys ==
    \A i \in DOMAIN operations :
        /\ operations[i].at \notin {"reconciling", "showing"} => operations[i].result = "none"
        /\ Completes(i) => keys[operations[i].provider] = KeyOf(i)
\* While the clearing has the queues, nothing comes in, and nothing is left once it deletes.
QueuesHeld ==
    /\ exclusive <=> clearing.at \in {"locking", "deleting", "cleared"}
    /\ clearing.at = "locking" => \A i \in DOMAIN operations : i \in clearing.waits \/ operations[i].at = "done"
    /\ clearing.at \in {"deleting", "cleared"} =>
         /\ \A i \in DOMAIN operations : operations[i].at = "done"
         /\ ~clearing.failed => \A p \in Providers : p \in clearing.left \/ keys[p] = 0
    /\ clearing.at = "cleared" => clearing.left = {}
\* What was asked for before the local data were cleared is over.
Cleared ==
    /\ clearing.since <= Len(operations)
    /\ \A i \in DOMAIN operations : i <= clearing.since => operations[i].at = "done"
    /\ \A p \in Providers : keys[p] # 0 => keys[p] > clearing.since
KeysInv == KeysTyped /\ OneByOne /\ WrittenKeys /\ QueuesHeld /\ Cleared

LEMMA KeysInit == Keys!Init => KeysInv
  <1> SUFFICES ASSUME Keys!Init PROVE KeysInv
    OBVIOUS
  <1>1. (CHOOSE p \in Providers : TRUE) \in Providers
    BY ProvidersAssumption
  <1>2. Len(operations) = 0 /\ operations \in Seq(KeyOperations) /\ DOMAIN operations = {}
    BY DEF Keys!Init
  <1>3. KeysTyped
    <2>1. keys \in [Providers -> Nat] /\ exclusive \in BOOLEAN
          /\ settings \in [provider : Providers, model : BOOLEAN, changes : Nat]
      BY <1>1 DEF Keys!Init
    <2>2. clearing \in Clearings
      BY DEF Keys!Init, Clearings
    <2> QED BY <1>2, <2>1, <2>2 DEF KeysTyped
  <1>4. OneByOne /\ WrittenKeys
    BY <1>2 DEF OneByOne, WrittenKeys
  <1>5. clearing.at = "idle" /\ clearing.since = 0 /\ exclusive = FALSE /\ \A p \in Providers : keys[p] = 0
    BY DEF Keys!Init
  <1>6. QueuesHeld /\ Cleared
    BY <1>2, <1>5 DEF QueuesHeld, Cleared
  <1> QED BY <1>3, <1>4, <1>6 DEF KeysInv

\* An operation takes a step.
LEMMA OperationMoves ==
    ASSUME KeysInv, NEW i \in DOMAIN operations, NEW o \in KeyOperations,
           operations[i].at # "done",
           operations[i].at = "queued" =>
               \A j \in 1 .. (i - 1) : operations[j].provider = operations[i].provider => operations[j].at = "done",
           operations' = [operations EXCEPT ![i] = o],
           o.kind = operations[i].kind, o.provider = operations[i].provider,
           exclusive' = exclusive, clearing' = clearing, settings' = settings,
           keys' \in [Providers -> Nat],
           \/ keys' = keys
           \/ /\ operations[i].at = "writing" /\ keys'[operations[i].provider] \in {0, i}
              /\ \A p \in Providers : p # operations[i].provider => keys'[p] = keys[p],
           o.at \notin {"reconciling", "showing"} => o.result = "none",
           (o.at = "reconciling" /\ o.result = "none") \/ (o.at = "showing" /\ o.result = "completed") =>
               keys'[o.provider] = KeyOf(i)
    PROVE  KeysInv'
  <1>1. /\ operations' \in Seq(KeyOperations) /\ Len(operations') = Len(operations) /\ Len(operations) \in Nat
        /\ DOMAIN operations = 1 .. Len(operations) /\ DOMAIN operations' = DOMAIN operations
        /\ operations'[i] = o /\ \A j \in DOMAIN operations : j # i => operations'[j] = operations[j]
        /\ \A j \in DOMAIN operations : operations[j] \in KeyOperations
    BY DEF KeysInv, KeysTyped
  <1>2. KeysTyped'
    BY <1>1 DEF KeysInv, KeysTyped
  <1>3. OneByOne'
    <2> SUFFICES ASSUME NEW a \in DOMAIN operations, NEW b \in DOMAIN operations, a < b,
                        operations'[a].provider = operations'[b].provider, operations'[b].at # "queued"
                 PROVE  operations'[a].at = "done"
      BY <1>1 DEF OneByOne
    <2>1. operations[a].provider = operations[b].provider
      BY <1>1
    <2>2. CASE b = i
      <3>1. operations[a].at = "done"
        BY <1>1, <2>1, <2>2 DEF KeysInv, OneByOne
      <3> QED BY <1>1, <2>2, <3>1
    <2>3. CASE b # i
      <3>1. operations[a].at = "done"
        BY <1>1, <2>1, <2>3 DEF KeysInv, OneByOne
      <3> QED BY <1>1, <3>1
    <2> QED BY <2>2, <2>3
  <1>4. WrittenKeys'
    <2> SUFFICES ASSUME NEW j \in DOMAIN operations
                 PROVE  /\ operations'[j].at \notin {"reconciling", "showing"} => operations'[j].result = "none"
                        /\ Completes(j)' => keys'[operations'[j].provider] = KeyOf(j)'
      BY <1>1 DEF WrittenKeys
    <2>1. CASE j = i
      BY <1>1, <2>1 DEF Completes, KeyOf
    <2>2. CASE j # i
      <3>1. operations'[j] = operations[j] /\ (Completes(j)' <=> Completes(j)) /\ KeyOf(j)' = KeyOf(j)
        BY <1>1, <2>2 DEF Completes, KeyOf
      <3>2. operations[j].at \notin {"reconciling", "showing"} => operations[j].result = "none"
        BY DEF KeysInv, WrittenKeys
      <3>3. ASSUME Completes(j) PROVE keys'[operations[j].provider] = keys[operations[j].provider]
        <4>1. CASE operations[i].at = "writing" /\ operations[j].provider = operations[i].provider
          <5>1. operations[j].at \in {"reconciling", "showing"} /\ operations[i].at = "writing" /\ (j < i \/ i < j)
            BY <1>1, <2>2, <3>3, <4>1 DEF Completes
          <5> QED BY <1>1, <4>1, <5>1 DEF KeysInv, OneByOne
        <4>2. CASE operations[j].provider # operations[i].provider
          <5>1. operations[j].provider \in Providers
            BY <1>1 DEF KeyOperations
          <5> QED BY <4>2, <5>1
        <4> QED BY <4>1, <4>2
      <3>4. Completes(j) => keys[operations[j].provider] = KeyOf(j)
        BY DEF KeysInv, WrittenKeys
      <3> QED BY <3>1, <3>2, <3>3, <3>4
    <2> QED BY <2>1, <2>2
  <1>5. clearing.at \notin {"deleting", "cleared"}
    BY DEF KeysInv, QueuesHeld
  <1>6. QueuesHeld'
    <2>1. clearing.at = "locking" => i \in clearing.waits
      BY DEF KeysInv, QueuesHeld
    <2> QED BY <1>1, <1>5, <2>1 DEF KeysInv, QueuesHeld
  <1>7. Cleared'
    <2>1. i > clearing.since /\ clearing.since \in Nat
      BY <1>1 DEF KeysInv, KeysTyped, Clearings, Cleared
    <2>2. \A j \in DOMAIN operations : j <= clearing.since => operations'[j].at = "done"
      BY <1>1, <2>1 DEF KeysInv, Cleared
    <2>3. ASSUME NEW p \in Providers, keys'[p] # 0 PROVE keys'[p] > clearing.since
      BY <2>1, <2>3 DEF KeysInv, Cleared
    <2> QED BY <1>1, <2>2, <2>3 DEF KeysInv, Cleared
  <1> QED BY <1>2, <1>3, <1>4, <1>6, <1>7 DEF KeysInv

\* The keys and the clearing stay as they are, and the operations but for whether they are current.
LEMMA OperationsAge ==
    ASSUME KeysInv,
           Keys!Invalidates \/ operations' = operations
    PROVE  /\ operations' \in Seq(KeyOperations) /\ Len(operations') = Len(operations)
           /\ DOMAIN operations' = DOMAIN operations /\ DOMAIN operations = 1 .. Len(operations)
           /\ Len(operations) \in Nat
           /\ \A i \in DOMAIN operations : /\ operations'[i].at = operations[i].at
                                           /\ operations'[i].result = operations[i].result
                                           /\ operations'[i].kind = operations[i].kind
                                           /\ operations'[i].provider = operations[i].provider
           /\ OneByOne'
           /\ keys' = keys => WrittenKeys'
  <1>1. /\ operations \in Seq(KeyOperations) /\ DOMAIN operations = 1 .. Len(operations) /\ Len(operations) \in Nat
        /\ \A i \in DOMAIN operations : operations[i] \in KeyOperations
    BY DEF KeysInv, KeysTyped
  <1>2. CASE operations' = operations
    BY <1>1, <1>2 DEF KeysInv, OneByOne, WrittenKeys, Completes, KeyOf
  <1>3. CASE Keys!Invalidates
    <2>1. ASSUME NEW i \in DOMAIN operations
          PROVE  /\ [operations[i] EXCEPT !.isCurrent = FALSE] \in KeyOperations
                 /\ operations'[i] = [operations[i] EXCEPT !.isCurrent = FALSE]
      BY <1>1, <1>3 DEF KeyOperations, Keys!Invalidates
    <2>2. operations' \in [1 .. Len(operations) -> KeyOperations]
      BY <1>1, <1>3, <2>1 DEF Keys!Invalidates
    <2>3. operations' \in Seq(KeyOperations) /\ Len(operations') = Len(operations) /\ DOMAIN operations' = DOMAIN operations
      BY <1>1, <2>2
    <2>4. \A i \in DOMAIN operations : /\ operations'[i].at = operations[i].at
                                       /\ operations'[i].result = operations[i].result
                                       /\ operations'[i].kind = operations[i].kind
                                       /\ operations'[i].provider = operations[i].provider
      BY <1>1, <2>1 DEF KeyOperations
    <2>5. OneByOne'
      BY <2>3, <2>4 DEF KeysInv, OneByOne
    <2>6. keys' = keys => WrittenKeys'
      BY <2>3, <2>4 DEF KeysInv, WrittenKeys, Completes, KeyOf
    <2> QED BY <1>1, <2>3, <2>4, <2>5, <2>6
  <1> QED BY <1>2, <1>3

\* A step ends an operation, or takes it further without telling anything yet.
LEMMA OperationEnds ==
    ASSUME KeysInv, NEW i \in DOMAIN operations, NEW result, Keys!Ends(i, result),
           operations[i].at # "done",
           operations[i].at = "queued" =>
               \A j \in 1 .. (i - 1) : operations[j].provider = operations[i].provider => operations[j].at = "done",
           UNCHANGED <<keys, exclusive, settings, clearing>>
    PROVE  KeysInv'
  <1> DEFINE o == [operations[i] EXCEPT !.at = "done", !.result = "none", !.isCurrent = FALSE]
  <1>1. operations[i] \in KeyOperations /\ keys \in [Providers -> Nat]
    BY ElementOfSeq DEF KeysInv, KeysTyped
  <1>2. o \in KeyOperations /\ o.kind = operations[i].kind /\ o.provider = operations[i].provider
        /\ o.at = "done" /\ o.result = "none"
    BY <1>1 DEF KeyOperations, KeySteps
  <1>3. operations' = [operations EXCEPT ![i] = o]
    BY DEF Keys!Ends
  <1> HIDE DEF o
  <1> QED BY <1>1, <1>2, <1>3, OperationMoves
LEMMA OperationGoes ==
    ASSUME KeysInv, NEW i \in DOMAIN operations, NEW step \in KeySteps \ {"reconciling", "showing"},
           Keys!Goto(i, step),
           operations[i].at \notin {"done", "reconciling", "showing"},
           operations[i].at = "queued" =>
               \A j \in 1 .. (i - 1) : operations[j].provider = operations[i].provider => operations[j].at = "done",
           UNCHANGED <<keys, exclusive, settings, clearing>>
    PROVE  KeysInv'
  <1> DEFINE o == [operations[i] EXCEPT !.at = step]
  <1>1. operations[i] \in KeyOperations /\ keys \in [Providers -> Nat]
    BY ElementOfSeq DEF KeysInv, KeysTyped
  <1>2. operations[i].result = "none"
    BY DEF KeysInv, WrittenKeys
  <1>3. o \in KeyOperations /\ o.kind = operations[i].kind /\ o.provider = operations[i].provider
        /\ o.at = step /\ o.result = "none"
    BY <1>1, <1>2 DEF KeyOperations, KeySteps
  <1>4. operations' = [operations EXCEPT ![i] = o]
    BY DEF Keys!Goto
  <1>5. step \notin {"reconciling", "showing"}
    OBVIOUS
  <1> HIDE DEF o
  <1> QED BY <1>1, <1>3, <1>4, <1>5, OperationMoves

\* An operation is queued.
LEMMA OperationQueued ==
    ASSUME KeysInv, NEW kind \in {"save", "delete", "read", "list"}, NEW p \in Providers, Keys!Queued(kind, p),
           UNCHANGED <<keys, exclusive, settings, clearing>>
    PROVE  KeysInv'
  <1> DEFINE o == [kind |-> kind, provider |-> p, isCurrent |-> TRUE, at |-> "queued", result |-> "none"]
  <1>1. /\ operations \in Seq(KeyOperations) /\ DOMAIN operations = 1 .. Len(operations) /\ Len(operations) \in Nat
        /\ \A i \in DOMAIN operations : operations[i] \in KeyOperations
    BY DEF KeysInv, KeysTyped
  <1>2. o \in KeyOperations /\ o.at = "queued" /\ o.result = "none"
    BY DEF KeyOperations, KeySteps
  <1>3. operations' = Append(operations, o) /\ exclusive = FALSE
    BY DEF Keys!Queued, KeysInv, KeysTyped
  <1> HIDE DEF o
  <1>4. /\ operations' \in Seq(KeyOperations) /\ Len(operations') = Len(operations) + 1
        /\ DOMAIN operations' = 1 .. (Len(operations) + 1) /\ operations'[Len(operations) + 1] = o
        /\ \A i \in DOMAIN operations : i \in DOMAIN operations' /\ operations'[i] = operations[i]
    BY <1>1, <1>2, <1>3
  <1>5. \A i \in DOMAIN operations' : i \in DOMAIN operations \/ (i = Len(operations) + 1 /\ operations'[i] = o)
    BY <1>1, <1>4
  <1>6. KeysTyped'
    BY <1>4 DEF KeysInv, KeysTyped
  <1>7. OneByOne'
    <2> SUFFICES ASSUME NEW a \in DOMAIN operations', NEW b \in DOMAIN operations', a < b,
                        operations'[a].provider = operations'[b].provider, operations'[b].at # "queued"
                 PROVE  operations'[a].at = "done"
      BY DEF OneByOne
    <2>1. b \in DOMAIN operations
      BY <1>2, <1>5
    <2>2. a \in DOMAIN operations
      BY <1>1, <1>5, <2>1
    <2> QED BY <1>4, <2>1, <2>2 DEF KeysInv, OneByOne
  <1>8. WrittenKeys'
    <2> SUFFICES ASSUME NEW i \in DOMAIN operations'
                 PROVE  /\ operations'[i].at \notin {"reconciling", "showing"} => operations'[i].result = "none"
                        /\ Completes(i)' => keys'[operations'[i].provider] = KeyOf(i)'
      BY DEF WrittenKeys
    <2>1. CASE i \in DOMAIN operations
      BY <1>4, <2>1 DEF KeysInv, WrittenKeys, Completes, KeyOf
    <2>2. CASE i = Len(operations) + 1 /\ operations'[i] = o
      BY <1>2, <2>2 DEF Completes
    <2> QED BY <1>5, <2>1, <2>2
  <1>9. clearing.at \notin {"locking", "deleting", "cleared"}
    BY <1>3 DEF KeysInv, QueuesHeld
  <1>10. QueuesHeld'
    BY <1>3, <1>9 DEF QueuesHeld
  <1>11. Cleared'
    <2>1. clearing.since \in Nat /\ clearing.since <= Len(operations)
      BY DEF KeysInv, KeysTyped, Clearings, Cleared
    <2>2. \A i \in DOMAIN operations' : i <= clearing.since => operations'[i].at = "done"
      BY <1>1, <1>4, <1>5, <2>1 DEF KeysInv, Cleared
    <2> QED BY <1>1, <1>4, <2>1, <2>2 DEF KeysInv, Cleared
  <1> QED BY <1>6, <1>7, <1>8, <1>10, <1>11 DEF KeysInv

\* The clearing, or the settings, take a step: the operations age.
LEMMA ClearingMoves ==
    ASSUME KeysInv, Keys!Invalidates \/ operations' = operations, settings' \in [provider : Providers, model : BOOLEAN, changes : Nat],
           keys' = keys, clearing' \in Clearings, QueuesHeld', exclusive' \in BOOLEAN,
           clearing'.since = clearing.since
    PROVE  KeysInv'
  <1>1. /\ operations' \in Seq(KeyOperations) /\ Len(operations') = Len(operations)
        /\ DOMAIN operations' = DOMAIN operations
        /\ \A i \in DOMAIN operations : operations'[i].at = operations[i].at
        /\ OneByOne' /\ WrittenKeys'
    BY OperationsAge
  <1>2. KeysTyped'
    BY <1>1 DEF KeysInv, KeysTyped
  <1>3. Cleared'
    BY <1>1 DEF KeysInv, Cleared
  <1> QED BY <1>1, <1>2, <1>3 DEF KeysInv

LEMMA KeysNext == KeysInv /\ [Keys!Next]_keysVars => KeysInv'
  <1> SUFFICES ASSUME KeysInv, [Keys!Next]_keysVars PROVE KeysInv'
    OBVIOUS
  <1>0. /\ operations \in Seq(KeyOperations) /\ DOMAIN operations = 1 .. Len(operations) /\ Len(operations) \in Nat
        /\ \A i \in DOMAIN operations : operations[i] \in KeyOperations
        /\ keys \in [Providers -> Nat] /\ clearing \in Clearings
        /\ settings \in [provider : Providers, model : BOOLEAN, changes : Nat] /\ settings.provider \in Providers
        /\ exclusive \in BOOLEAN
    BY DEF KeysInv, KeysTyped
  <1>a. \A i \in DOMAIN operations : operations[i].provider \in Providers
    BY <1>0 DEF KeyOperations
  \* Nothing but the operations' being current, or the settings, changes.
  <1>b. ASSUME Keys!Invalidates \/ operations' = operations, UNCHANGED <<keys, exclusive, clearing>>,
               settings' \in [provider : Providers, model : BOOLEAN, changes : Nat]
        PROVE  KeysInv'
    <2>1. /\ DOMAIN operations' = DOMAIN operations
          /\ \A i \in DOMAIN operations : operations'[i].at = operations[i].at
      BY <1>b, OperationsAge
    <2>2. QueuesHeld
      BY DEF KeysInv
    <2>3. QueuesHeld'
      BY <1>b, <2>1, <2>2 DEF QueuesHeld
    <2> QED BY <1>0, <1>b, <2>3, ClearingMoves
  <1>1. ASSUME NEW i \in 1 .. MaxOperations, Keys!Starts(i) PROVE KeysInv'
    <2>1. i \in DOMAIN operations /\ operations[i].at = "queued"
      BY <1>1 DEF Keys!Starts, Keys!At
    <2>2. \A j \in 1 .. (i - 1) : operations[j].provider = operations[i].provider => operations[j].at = "done"
      BY <1>1 DEF Keys!Starts, Keys!Done
    <2>3. UNCHANGED <<keys, exclusive, settings, clearing>>
      BY <1>1 DEF Keys!Starts, Keys!Started
    <2>4. CASE Keys!Ends(i, "undefined")
      BY <2>1, <2>2, <2>3, <2>4, OperationEnds
    <2>5. CASE \E step \in {"asking", "confirming", "looking"} : Keys!Goto(i, step)
      <3>1. PICK step \in {"asking", "confirming", "looking"} : Keys!Goto(i, step)
        BY <2>5
      <3>2. step \in KeySteps \ {"reconciling", "showing"}
        BY DEF KeySteps
      <3> QED BY <2>1, <2>2, <2>3, <3>1, <3>2, OperationGoes
    <2> QED BY <1>1, <2>4, <2>5 DEF Keys!Starts, Keys!Started
  <1>2. ASSUME NEW i \in 1 .. MaxOperations, Keys!Dismissed(i) PROVE KeysInv'
    <2>1. /\ i \in DOMAIN operations /\ operations[i].at = "showing" /\ Keys!Ends(i, operations[i].result)
          /\ UNCHANGED <<keys, exclusive, settings, clearing>>
      BY <1>2 DEF Keys!Dismissed, Keys!At
    <2> QED BY <2>1, OperationEnds
  <1>3. ASSUME NEW i \in 1 .. MaxOperations, NEW answer \in BOOLEAN, Keys!Entered(i, answer) PROVE KeysInv'
    <2>1. /\ i \in DOMAIN operations /\ operations[i].at = "asking"
          /\ UNCHANGED <<keys, exclusive, settings, clearing>>
          /\ Keys!Goto(i, "confirming") \/ Keys!Ends(i, "cancelled")
      BY <1>3 DEF Keys!Entered, Keys!At
    <2>2. "confirming" \in KeySteps \ {"reconciling", "showing"}
      BY DEF KeySteps
    <2> QED BY <2>1, <2>2, OperationEnds, OperationGoes
  <1>4. ASSUME NEW i \in 1 .. MaxOperations, NEW answer \in BOOLEAN, Keys!Confirmed(i, answer) PROVE KeysInv'
    <2>1. /\ i \in DOMAIN operations /\ operations[i].at = "confirming"
          /\ UNCHANGED <<keys, exclusive, settings, clearing>>
          /\ Keys!Goto(i, "writing") \/ Keys!Goto(i, "looking") \/ Keys!Ends(i, "cancelled")
      BY <1>4 DEF Keys!Confirmed, Keys!At
    <2>2. {"writing", "looking"} \subseteq KeySteps \ {"reconciling", "showing"}
      BY DEF KeySteps
    <2> QED BY <2>1, <2>2, OperationEnds, OperationGoes
  <1>5. ASSUME NEW i \in 1 .. MaxOperations, NEW presence \in {"present", "absent", "unavailable"},
               Keys!Looks(i, presence)
        PROVE  KeysInv'
    <2>1. /\ i \in DOMAIN operations /\ operations[i].at = "looking"
          /\ UNCHANGED <<keys, exclusive, settings, clearing>>
          /\ presence \in Keys!Presences(operations[i].provider)
          /\ \/ Keys!Ends(i, presence)
             \/ operations[i].kind = "delete" /\ presence = "present" /\ Keys!Goto(i, "writing")
             \/ operations[i].kind = "delete" /\ presence = "absent" /\ Keys!Shows(i, "completed")
             \/ operations[i].kind = "delete" /\ Keys!Shows(i, "failed")
      BY <1>5 DEF Keys!Looks, Keys!At
    <2>2. CASE Keys!Ends(i, presence)
      BY <2>1, <2>2, OperationEnds
    <2>3. CASE Keys!Goto(i, "writing")
      <3>1. "writing" \in KeySteps \ {"reconciling", "showing"}
        BY DEF KeySteps
      <3> QED BY <2>1, <2>3, <3>1, OperationGoes
    <2>4. ASSUME NEW result \in {"completed", "failed"}, Keys!Shows(i, result), operations[i].kind = "delete",
                 result = "completed" => presence = "absent"
          PROVE  KeysInv'
      <3> DEFINE o == [operations[i] EXCEPT !.at = "showing", !.result = result]
      <3>1. o \in KeyOperations /\ o.kind = operations[i].kind /\ o.provider = operations[i].provider
            /\ o.at = "showing" /\ o.result = result
        BY <1>0, <2>1 DEF KeyOperations, KeySteps
      <3>2. operations' = [operations EXCEPT ![i] = o]
        BY <2>4 DEF Keys!Shows
      <3>3. result = "completed" => keys[operations[i].provider] = 0
        BY <2>1, <2>4 DEF Keys!Presences
      <3>4. KeyOf(i) = 0
        BY <2>4 DEF KeyOf
      <3> HIDE DEF o
      <3> QED BY <1>0, <2>1, <3>1, <3>2, <3>3, <3>4, OperationMoves
    <2> QED BY <2>1, <2>2, <2>3, <2>4
  <1>6. ASSUME NEW i \in 1 .. MaxOperations, NEW presence \in {"present", "absent", "unavailable"},
               Keys!Reconciles(i, presence)
        PROVE  KeysInv'
    <2> DEFINE isDone == /\ operations[i].result = "none"
                         /\ presence = IF operations[i].kind = "save" THEN "present" ELSE "absent"
               result == IF isDone THEN "completed" ELSE "failed"
               o == [operations[i] EXCEPT !.at = "showing", !.result = result]
    <2>1. /\ i \in DOMAIN operations /\ operations[i].at = "reconciling"
          /\ UNCHANGED <<keys, exclusive, settings, clearing>>
      BY <1>6 DEF Keys!Reconciles, Keys!At
    <2>2. operations' = [operations EXCEPT ![i] = o]
      BY <1>6 DEF Keys!Reconciles, Keys!Shows
    <2>3. o \in KeyOperations /\ o.kind = operations[i].kind /\ o.provider = operations[i].provider
          /\ o.at = "showing" /\ o.result = result
      BY <1>0, <2>1 DEF KeyOperations, KeySteps
    <2>4. result = "completed" => keys[operations[i].provider] = KeyOf(i)
      <3>1. result = "completed" => Completes(i)
        BY <2>1 DEF Completes
      <3> QED BY <2>1, <3>1 DEF KeysInv, WrittenKeys
    <2> HIDE DEF o, result
    <2> QED BY <1>0, <2>1, <2>2, <2>3, <2>4, OperationMoves
  <1>7. ASSUME NEW i \in 1 .. MaxOperations, NEW refused \in BOOLEAN, NEW written \in BOOLEAN,
               Keys!Writes(i, refused, written)
        PROVE  KeysInv'
    <2> DEFINE o == [operations[i] EXCEPT !.at = "reconciling", !.result = IF refused THEN "failed" ELSE @]
    <2>1. /\ i \in DOMAIN operations /\ operations[i].at = "writing" /\ (refused \/ written)
          /\ UNCHANGED <<exclusive, settings, clearing>>
      BY <1>7 DEF Keys!Writes, Keys!At
    <2>2. operations' = [operations EXCEPT ![i] = o]
      BY <1>7 DEF Keys!Writes
    <2>3. operations[i].result = "none"
      BY <2>1 DEF KeysInv, WrittenKeys
    <2>4. o \in KeyOperations /\ o.kind = operations[i].kind /\ o.provider = operations[i].provider
          /\ o.at = "reconciling" /\ o.result = IF refused THEN "failed" ELSE "none"
      BY <1>0, <2>1, <2>3 DEF KeyOperations, KeySteps
    <2>5. KeyOf(i) \in {0, i} /\ i \in Nat
      BY DEF KeyOf
    <2>6. keys' = IF ~written THEN keys ELSE [keys EXCEPT ![operations[i].provider] = KeyOf(i)]
      BY <1>7 DEF Keys!Writes, KeyOf
    <2>7. /\ keys' \in [Providers -> Nat]
          /\ \/ ~written /\ keys' = keys
             \/ /\ written /\ keys'[operations[i].provider] = KeyOf(i)
                /\ \A p \in Providers : p # operations[i].provider => keys'[p] = keys[p]
      BY <1>0, <1>a, <2>1, <2>5, <2>6
    <2>8. o.result = "none" => written
      BY <2>1, <2>4
    <2> HIDE DEF o
    <2> QED BY <2>1, <2>2, <2>4, <2>5, <2>7, <2>8, OperationMoves
  <1>8. CASE Keys!ReadKey
    BY <1>0, <1>8, OperationQueued DEF Keys!ReadKey
  <1>9. ASSUME NEW p \in Providers, NEW kind \in {"save", "delete"}, Keys!KeyCommand(kind, p) PROVE KeysInv'
    BY <1>9, OperationQueued DEF Keys!KeyCommand
  <1>10. ASSUME NEW p \in Providers, Keys!SettingsChange(p) PROVE KeysInv'
    <2>1. /\ Keys!Invalidates /\ UNCHANGED <<keys, exclusive, clearing>>
          /\ settings' = [settings EXCEPT !.provider = p, !.changes = @ + 1]
      BY <1>10 DEF Keys!SettingsChange
    <2>2. /\ settings.changes + 1 \in Nat /\ settings.model \in BOOLEAN
          /\ settings = [provider |-> settings.provider, model |-> settings.model, changes |-> settings.changes]
      BY <1>0
    <2>3. settings' = [provider |-> p, model |-> settings.model, changes |-> settings.changes + 1]
      BY <2>1, <2>2
    <2> QED BY <1>b, <2>1, <2>2, <2>3
  <1>11. ASSUME NEW isOfficial \in BOOLEAN, Keys!SelectModel(isOfficial) PROVE KeysInv'
    <2>1. /\ UNCHANGED <<keys, exclusive, settings, clearing>>
          /\ Keys!Queued("list", settings.provider) \/ operations' = operations
      BY <1>11 DEF Keys!SelectModel
    <2>2. CASE Keys!Queued("list", settings.provider)
      BY <1>0, <2>1, <2>2, OperationQueued
    <2>3. CASE operations' = operations
      BY <1>0, <1>b, <2>1, <2>3
    <2> QED BY <2>1, <2>2, <2>3
  <1>12. ASSUME NEW isUsable \in BOOLEAN, Keys!Fetched(isUsable) PROVE KeysInv'
    BY <1>0, <1>b, <1>12 DEF Keys!Fetched
  <1>13. CASE Keys!Chosen \/ Keys!NothingChosen \/ Keys!ModelNotSaved
    BY <1>0, <1>b, <1>13 DEF Keys!Chosen, Keys!NothingChosen, Keys!ModelNotSaved
  <1>14. CASE Keys!ModelSaved
    <2>1. settings' \in [provider : Providers, model : BOOLEAN, changes : Nat]
      BY <1>0, <1>14 DEF Keys!ModelSaved
    <2> QED BY <1>b, <1>14, <2>1 DEF Keys!ModelSaved
  <1>15. CASE Keys!ClearAsked \/ Keys!ClearDismissed
    <2>1. /\ UNCHANGED <<keys, exclusive, operations, settings>> /\ clearing' \in Clearings
          /\ clearing.at \in {"idle", "confirming"} /\ clearing'.at \in {"idle", "confirming"}
          /\ clearing'.since = clearing.since
      BY <1>0, <1>15 DEF Keys!ClearAsked, Keys!ClearDismissed, Clearings
    <2>2. QueuesHeld'
      BY <2>1 DEF KeysInv, QueuesHeld
    <2> QED BY <1>0, <2>1, <2>2, ClearingMoves
  <1>16. CASE Keys!AcquireExclusive
    <2>1. /\ Keys!Invalidates /\ UNCHANGED <<keys, settings>> /\ exclusive' = TRUE
          /\ clearing' = [clearing EXCEPT !.at = "locking", !.waits = (DOMAIN operations) \ Keys!Done]
      BY <1>16 DEF Keys!AcquireExclusive
    <2>2. (DOMAIN operations) \ Keys!Done \in SUBSET Nat
      BY <1>0
    <2>3. clearing' \in Clearings /\ clearing'.at = "locking" /\ clearing'.since = clearing.since
          /\ clearing'.waits = (DOMAIN operations) \ Keys!Done
      BY <1>0, <2>1, <2>2 DEF Clearings
    <2>4. \A i \in DOMAIN operations' : i \in clearing'.waits \/ operations'[i].at = "done"
      BY <2>1, <2>3, OperationsAge DEF Keys!Done
    <2>5. QueuesHeld'
      BY <2>1, <2>3, <2>4 DEF QueuesHeld
    <2> QED BY <1>0, <2>1, <2>3, <2>5, ClearingMoves
  <1>17. CASE Keys!ClearLocked
    <2>1. /\ UNCHANGED <<keys, exclusive, operations, settings>> /\ clearing.at = "locking"
          /\ clearing.waits \subseteq Keys!Done
          /\ clearing' = [clearing EXCEPT !.at = "deleting", !.left = Providers, !.waits = {}]
      BY <1>17 DEF Keys!ClearLocked
    <2>2. clearing' \in Clearings /\ clearing'.at = "deleting" /\ clearing'.since = clearing.since
          /\ clearing'.left = Providers
      BY <1>0, <2>1 DEF Clearings
    <2>3. exclusive /\ \A i \in DOMAIN operations : operations[i].at = "done"
      BY <2>1 DEF KeysInv, QueuesHeld, Keys!Done
    <2>4. QueuesHeld'
      BY <2>1, <2>2, <2>3 DEF QueuesHeld
    <2> QED BY <1>0, <2>1, <2>2, <2>4, ClearingMoves
  <1>18. ASSUME NEW p \in Providers, NEW refused \in BOOLEAN, NEW deleted \in BOOLEAN,
                Keys!ClearKey(p, refused, deleted)
         PROVE  KeysInv'
    <2>1. /\ UNCHANGED <<exclusive, operations, settings>> /\ clearing.at = "deleting" /\ (refused \/ deleted)
          /\ clearing' = [clearing EXCEPT !.left = @ \ {p}, !.failed = @ \/ refused]
          /\ keys' = IF deleted THEN [keys EXCEPT ![p] = 0] ELSE keys
      BY <1>18 DEF Keys!ClearKey
    <2>2. /\ keys' \in [Providers -> Nat] /\ deleted => keys'[p] = 0
          /\ \A q \in Providers : keys'[q] = keys[q] \/ keys'[q] = 0
      BY <1>0, <2>1
    <2>3. /\ clearing.left \in SUBSET Providers /\ clearing.failed \in BOOLEAN
          /\ (clearing.failed \/ refused) \in BOOLEAN
      BY <1>0 DEF Clearings
    <2>4. /\ clearing' \in Clearings /\ clearing'.at = "deleting" /\ clearing'.since = clearing.since
          /\ clearing'.left = clearing.left \ {p} /\ (clearing'.failed <=> clearing.failed \/ refused)
      BY <1>0, <2>1, <2>3 DEF Clearings
    <2>5. /\ exclusive /\ \A i \in DOMAIN operations : operations[i].at = "done"
          /\ ~clearing.failed => \A q \in Providers : q \in clearing.left \/ keys[q] = 0
      BY <2>1 DEF KeysInv, QueuesHeld
    <2>6. ASSUME ~clearing'.failed, NEW q \in Providers PROVE q \in clearing'.left \/ keys'[q] = 0
      <3>1. CASE q = p
        <4>1. ~refused
          BY <2>4, <2>6
        <4>2. deleted
          BY <2>1, <4>1
        <4>3. keys' = [keys EXCEPT ![p] = 0]
          BY <2>1, <4>2
        <4> QED BY <1>0, <3>1, <4>3
      <3>2. CASE q # p
        BY <2>2, <2>4, <2>5, <2>6, <3>2
      <3> QED BY <3>1, <3>2
    <2>7. QueuesHeld'
      BY <2>1, <2>4, <2>5, <2>6 DEF QueuesHeld
    <2>8. KeysTyped'
      BY <2>1, <2>2, <2>4 DEF KeysInv, KeysTyped
    <2>9. OneByOne' /\ WrittenKeys'
      BY <1>0, <2>1, <2>5 DEF KeysInv, OneByOne, WrittenKeys, Completes
    <2>10. Cleared'
      BY <2>1, <2>2, <2>4 DEF KeysInv, Cleared
    <2> QED BY <2>7, <2>8, <2>9, <2>10 DEF KeysInv
  <1>19. ASSUME NEW refused \in BOOLEAN, Keys!ClearSettings(refused) PROVE KeysInv'
    <2>1. /\ UNCHANGED <<keys, exclusive>> /\ clearing.at = "deleting" /\ clearing.left = {}
          /\ clearing' = [clearing EXCEPT !.at = "cleared", !.failed = @ \/ refused]
          /\ Keys!Invalidates \/ operations' = operations
          /\ settings' = IF refused THEN settings ELSE [settings EXCEPT !.model = FALSE]
      BY <1>19 DEF Keys!ClearSettings
    <2>2. settings' \in [provider : Providers, model : BOOLEAN, changes : Nat]
      BY <1>0, <2>1
    <2>3. clearing.failed \in BOOLEAN /\ (clearing.failed \/ refused) \in BOOLEAN
      BY <1>0 DEF Clearings
    <2>4. /\ clearing' \in Clearings /\ clearing'.at = "cleared" /\ clearing'.since = clearing.since
          /\ clearing'.left = {} /\ (clearing'.failed <=> clearing.failed \/ refused)
      BY <1>0, <2>1, <2>3 DEF Clearings
    <2>5. /\ exclusive /\ \A i \in DOMAIN operations : operations[i].at = "done"
          /\ ~clearing.failed => \A q \in Providers : q \in clearing.left \/ keys[q] = 0
      BY <2>1 DEF KeysInv, QueuesHeld
    <2>6. \A i \in DOMAIN operations' : operations'[i].at = "done"
      BY <2>1, <2>5, OperationsAge
    <2>7. QueuesHeld'
      BY <2>1, <2>4, <2>5, <2>6 DEF QueuesHeld
    <2> QED BY <1>0, <2>1, <2>2, <2>4, <2>7, ClearingMoves
  <1>20. ASSUME NEW failed \in BOOLEAN, Keys!Released(failed), clearing.at \in {"locking", "cleared"},
                clearing.at = "locking" => failed /\ clearing.waits \subseteq Keys!Done,
                clearing.at = "cleared" => failed = clearing.failed
         PROVE  KeysInv'
    <2>1. /\ Keys!Invalidates /\ UNCHANGED <<keys, settings>> /\ exclusive' = FALSE
          /\ clearing' = [clearing EXCEPT !.at = "idle", !.waits = {},
                                          !.since = IF failed THEN @ ELSE Len(operations)]
      BY <1>20 DEF Keys!Released
    <2>2. /\ clearing' \in Clearings /\ clearing'.at = "idle"
          /\ clearing'.since = IF failed THEN clearing.since ELSE Len(operations)
      BY <1>0, <2>1 DEF Clearings
    <2>3. QueuesHeld'
      BY <2>1, <2>2 DEF QueuesHeld
    <2>4. CASE failed
      BY <1>0, <2>1, <2>2, <2>3, <2>4, ClearingMoves
    <2>5. CASE ~failed
      <3>1. clearing.at = "cleared" /\ ~clearing.failed
        BY <1>20, <2>5
      <3>2. /\ \A i \in DOMAIN operations : operations[i].at = "done"
            /\ \A p \in Providers : keys[p] = 0
        BY <3>1 DEF KeysInv, QueuesHeld
      <3>3. /\ operations' \in Seq(KeyOperations) /\ Len(operations') = Len(operations)
            /\ DOMAIN operations' = DOMAIN operations /\ OneByOne' /\ WrittenKeys'
            /\ \A i \in DOMAIN operations : operations'[i].at = operations[i].at
        BY <2>1, OperationsAge
      <3>4. KeysTyped'
        BY <1>0, <2>1, <2>2, <3>3 DEF KeysTyped
      <3>5. Cleared'
        BY <1>0, <2>1, <2>2, <2>5, <3>2, <3>3 DEF Cleared
      <3> QED BY <2>3, <3>3, <3>4, <3>5 DEF KeysInv
    <2> QED BY <2>4, <2>5
  <1>21. CASE Keys!ClearEnds
    <2>1. clearing.failed \in BOOLEAN
      BY <1>0 DEF Clearings
    <2> QED BY <1>20, <1>21, <2>1 DEF Keys!ClearEnds
  <1>22. CASE Keys!ClearFails
    BY <1>20, <1>22 DEF Keys!ClearFails
  <1>23. CASE UNCHANGED keysVars
    BY <1>0, <1>b, <1>23 DEF keysVars
  <1> QED BY <1>1, <1>2, <1>3, <1>4, <1>5, <1>6, <1>7, <1>8, <1>9, <1>10, <1>11, <1>12, <1>13, <1>14, <1>15, <1>16,
             <1>17, <1>18, <1>19, <1>21, <1>22, <1>23 DEF Keys!Next

\* What is known of the operations and of the clearing implies what is promised of them.
LEMMA KeysTell == KeysInv => Keys!KeysFollowOperations
  BY DEF KeysInv, WrittenKeys, Completes, KeyOf, Cleared, Keys!KeysFollowOperations

-----------------------------------------------------------------------------
(* DiagnosticExport: what is shown, confirmed, written and told.           *)

Built == [req : Nat \ {0}, content : Nat] \cup {Export!Nothing}
PaneStatuses == {"idle", "preparing", "ready", "exporting", "completed", "cancelled", "error"}
PaneMessages ==
    [status : {"ready", "completed"}, req : Export!Exports, content : Nat]
    \cup [status : {"cancelled", "error"}, req : Export!Exports, content : Nat \cup {-1}]
HostMessages == [kind : {"request", "confirm", "cancel"}, req : Export!Exports]
HasOneEach(messages) == \A i, j \in DOMAIN messages : messages[i].req = messages[j].req => i = j
ExportTyped ==
    /\ exporter \in [choosing : Built, pending : Built, writing : Built, isDisposed : BOOLEAN]
    /\ errorCount \in Nat
    /\ pane \in [status : PaneStatuses, req : Nat, content : Nat \cup {-1}]
    /\ pane.status # "idle" => pane.req # 0
    /\ toExporter \in Seq(HostMessages) /\ HasOneEach(toExporter)
    /\ toPane \in Seq(PaneMessages) /\ HasOneEach(toPane)
    /\ outcome \in [Export!Exports -> [shown : Nat \cup {-1}, isConfirmed : BOOLEAN, written : Nat \cup {-1}]]
    /\ left \in [asked : Nat, times : Nat, exports : SUBSET Nat]

\* What is under way about an export: from the pane, and to it.
IsSent(r) == \E i \in DOMAIN toExporter : toExporter[i].req = r
IsSentAs(kind, r) == \E i \in DOMAIN toExporter : toExporter[i].req = r /\ toExporter[i].kind = kind
Answered(r) == \E i \in DOMAIN toPane : toPane[i].req = r
AnsweredAs(verdict, r) == \E i \in DOMAIN toPane : toPane[i].req = r /\ toPane[i].status = verdict
AnsweredWith(content, r) ==
    \E i \in DOMAIN toPane : toPane[i].req = r /\ toPane[i].status = "ready" /\ toPane[i].content = content
InHand(r) == r = exporter.choosing.req \/ r = exporter.writing.req
PaneHas(r) == pane.req = r /\ pane.status = "ready"
\* It is an export's turn in one place at most: on the way to the Host, in its hand, on the way
\* back, or with the user; and the Host chooses a file for nothing else than the export it has.
OneTurn ==
    /\ \A r \in Export!Exports :
         /\ IsSent(r) => ~Answered(r) /\ ~InHand(r) /\ ~PaneHas(r)
         /\ Answered(r) => ~InHand(r) /\ ~PaneHas(r)
         /\ InHand(r) => ~PaneHas(r)
    /\ exporter.choosing.req # 0 => exporter.pending.req = 0 /\ exporter.writing.req = 0
\* The exports there are were asked for, and those that were left are not the pane's.
Known ==
    /\ left.asked \in 0 .. MaxExports /\ left.exports \subseteq 1 .. left.asked
    /\ pane.req \in 0 .. left.asked /\ pane.req \notin left.exports
    /\ exporter.choosing.req <= left.asked /\ exporter.pending.req <= left.asked
    /\ exporter.writing.req <= left.asked
    /\ \A r \in Export!Exports : IsSent(r) \/ Answered(r) => r <= left.asked
    /\ \A r \in Export!Exports : r > left.asked => outcome[r].written = -1
    /\ exporter.isDisposed => \A r \in Export!Exports : InHand(r) => r \in left.exports
\* Whose turn it is agrees with what the pane waits for, if it has not left the export.
PaneFollows ==
    \A r \in Export!Exports \ left.exports :
        /\ IsSentAs("request", r) \/ exporter.choosing.req = r \/ AnsweredAs("ready", r) =>
             pane.req = r /\ pane.status = "preparing"
        /\ IsSentAs("confirm", r) \/ exporter.writing.req = r => pane.req = r /\ pane.status = "exporting"
        /\ IsSentAs("cancel", r) /\ pane.req = r => pane.status = "cancelled"
PaneWaits ==
    /\ pane.status = "preparing" => IsSent(pane.req) \/ Answered(pane.req) \/ exporter.choosing.req = pane.req
    /\ pane.status = "exporting" => IsSent(pane.req) \/ Answered(pane.req) \/ exporter.writing.req = pane.req
\* What the Host keeps is what was shown, for as long as the user may confirm it.
KeptIsShown ==
    /\ exporter.isDisposed => exporter.pending.req = 0
    /\ exporter.writing.req # 0 /\ exporter.pending.req # 0 => exporter.pending = exporter.writing
    /\ \A r \in Export!Exports : exporter.pending.req = r =>
         /\ \A content : AnsweredWith(content, r) => content = exporter.pending.content
         /\ PaneHas(r) \/ IsSentAs("confirm", r) => outcome[r].shown = exporter.pending.content
         /\ \/ AnsweredAs("ready", r) \/ PaneHas(r) \/ IsSentAs("confirm", r) \/ IsSentAs("cancel", r)
            \/ exporter.writing.req = r \/ r \in left.exports
\* What was written was confirmed and shown, and told so.
IsTrueOf(r) ==
    /\ IsSentAs("confirm", r) => outcome[r].isConfirmed
    /\ exporter.writing.req = r => outcome[r].isConfirmed /\ outcome[r].shown = exporter.writing.content
    /\ outcome[r].written # -1 =>
         /\ outcome[r].isConfirmed /\ outcome[r].shown = outcome[r].written
         /\ ~IsSent(r) /\ ~InHand(r) /\ ~PaneHas(r)
         /\ \A verdict \in PaneStatuses : AnsweredAs(verdict, r) => verdict = "completed"
    /\ AnsweredAs("completed", r) => outcome[r].written # -1
WrittenIsConfirmed == \A r \in Export!Exports : IsTrueOf(r)
ExportInv ==
    /\ ExportTyped /\ OneTurn /\ Known /\ PaneFollows /\ PaneWaits /\ KeptIsShown /\ WrittenIsConfirmed
    /\ Export!ToldAsItWas

\* The messages under way, one about each export.
LEMMA MessageTaken ==
    ASSUME NEW M, NEW messages \in Seq(M), messages # <<>>, HasOneEach(messages)
    PROVE  /\ Tail(messages) \in Seq(M) /\ HasOneEach(Tail(messages)) /\ Head(messages) \in M
           /\ 1 \in DOMAIN messages /\ Head(messages) = messages[1]
           /\ \A i \in DOMAIN Tail(messages) : /\ i + 1 \in DOMAIN messages /\ Tail(messages)[i] = messages[i + 1]
                                      /\ Tail(messages)[i].req # Head(messages).req
           /\ \A i \in DOMAIN messages : messages[i].req # Head(messages).req =>
                  i - 1 \in DOMAIN Tail(messages) /\ Tail(messages)[i - 1] = messages[i]
  <1> DEFINE rest == Tail(messages)
  <1>1. /\ Len(messages) \in Nat \ {0} /\ DOMAIN messages = 1 .. Len(messages)
        /\ Head(messages) = messages[1] /\ Head(messages) \in M
        /\ rest \in Seq(M) /\ DOMAIN rest = 1 .. (Len(messages) - 1)
        /\ \A i \in 1 .. (Len(messages) - 1) : rest[i] = messages[i + 1]
    BY HeadTailProperties, EmptySeq, LenProperties
  <1> HIDE DEF rest
  <1>2. \A i \in DOMAIN rest : i + 1 \in DOMAIN messages /\ rest[i] = messages[i + 1] /\ i \in Nat
    BY <1>1
  <1>3. HasOneEach(rest)
    BY <1>2 DEF HasOneEach
  <1>4. \A i \in DOMAIN rest : rest[i].req # Head(messages).req
    <2> SUFFICES ASSUME NEW i \in DOMAIN rest, rest[i].req = Head(messages).req PROVE FALSE
      OBVIOUS
    <2>1. messages[i + 1].req = messages[1].req /\ i + 1 # 1 /\ 1 \in DOMAIN messages
      BY <1>1, <1>2
    <2> QED BY <1>2, <2>1 DEF HasOneEach
  <1>5. ASSUME NEW i \in DOMAIN messages, messages[i].req # Head(messages).req
        PROVE  i - 1 \in DOMAIN rest /\ rest[i - 1] = messages[i]
    <2>1. i # 1
      BY <1>1, <1>5
    <2>2. i - 1 \in 1 .. (Len(messages) - 1) /\ (i - 1) + 1 = i
      BY <1>1, <2>1
    <2> QED BY <1>1, <2>2
  <1> QED BY <1>1, <1>2, <1>3, <1>4, <1>5 DEF rest
LEMMA MessageAdded ==
    ASSUME NEW M, NEW messages \in Seq(M), NEW message \in M,
           HasOneEach(messages), \A i \in DOMAIN messages : messages[i].req # message.req
    PROVE  /\ Append(messages, message) \in Seq(M) /\ HasOneEach(Append(messages, message))
           /\ \A i \in DOMAIN messages : i \in DOMAIN Append(messages, message) /\ Append(messages, message)[i] = messages[i]
           /\ Len(messages) + 1 \in DOMAIN Append(messages, message) /\ Append(messages, message)[Len(messages) + 1] = message
           /\ \A i \in DOMAIN Append(messages, message) : i \in DOMAIN messages \/ i = Len(messages) + 1
  <1> DEFINE more == Append(messages, message)
  <1>1. /\ more \in Seq(M) /\ Len(messages) \in Nat /\ DOMAIN messages = 1 .. Len(messages)
        /\ DOMAIN more = 1 .. (Len(messages) + 1) /\ more[Len(messages) + 1] = message
        /\ \A i \in 1 .. Len(messages) : more[i] = messages[i]
    OBVIOUS
  <1> HIDE DEF more
  <1>2. \A i \in DOMAIN more : i \in DOMAIN messages \/ i = Len(messages) + 1
    BY <1>1
  <1>3. HasOneEach(more)
    <2> SUFFICES ASSUME NEW i \in DOMAIN more, NEW j \in DOMAIN more, more[i].req = more[j].req
                 PROVE  i = j
      BY DEF HasOneEach
    <2>1. CASE i \in DOMAIN messages /\ j \in DOMAIN messages
      BY <1>1, <2>1 DEF HasOneEach
    <2>2. CASE i = Len(messages) + 1 \/ j = Len(messages) + 1
      BY <1>1, <1>2, <2>2
    <2> QED BY <1>2, <2>1, <2>2
  <1> QED BY <1>1, <1>2, <1>3 DEF more

LEMMA HostTakes ==
    ASSUME ExportTyped, NEW kind, Export!Takes(kind), NEW r, r = Head(toExporter).req
    PROVE  /\ r \in Export!Exports /\ IsSentAs(kind, r) /\ IsSent(r)
           /\ toExporter' \in Seq(HostMessages) /\ HasOneEach(toExporter')
           /\ \A x : IsSent(x)' <=> IsSent(x) /\ x # r
           /\ \A x, k : IsSentAs(k, x)' <=> IsSentAs(k, x) /\ x # r
           /\ \A k : IsSentAs(k, r) => k = kind
  <1>1. toExporter \in Seq(HostMessages) /\ HasOneEach(toExporter) /\ toExporter # <<>>
        /\ toExporter' = Tail(toExporter) /\ Head(toExporter).kind = kind
    BY DEF ExportTyped, Export!Takes
  <1>2. /\ toExporter' \in Seq(HostMessages) /\ HasOneEach(toExporter') /\ Head(toExporter) \in HostMessages
        /\ 1 \in DOMAIN toExporter /\ Head(toExporter) = toExporter[1]
        /\ \A i \in DOMAIN toExporter' : /\ i + 1 \in DOMAIN toExporter /\ toExporter'[i] = toExporter[i + 1]
                                         /\ toExporter'[i].req # r
        /\ \A i \in DOMAIN toExporter : toExporter[i].req # r =>
               i - 1 \in DOMAIN toExporter' /\ toExporter'[i - 1] = toExporter[i]
    BY <1>1, MessageTaken
  <1>3. r \in Export!Exports /\ IsSentAs(kind, r) /\ IsSent(r)
    BY <1>1, <1>2 DEF HostMessages, IsSentAs, IsSent
  <1>4. ASSUME NEW x PROVE IsSent(x)' <=> IsSent(x) /\ x # r
    BY <1>2 DEF IsSent
  <1>5. ASSUME NEW x, NEW k PROVE IsSentAs(k, x)' <=> IsSentAs(k, x) /\ x # r
    BY <1>2 DEF IsSentAs
  <1>6. ASSUME NEW k, IsSentAs(k, r) PROVE k = kind
    BY <1>1, <1>2, <1>6 DEF IsSentAs, HasOneEach
  <1> QED BY <1>2, <1>3, <1>4, <1>5, <1>6
LEMMA PaneAsks ==
    ASSUME ExportTyped, NEW kind \in {"request", "confirm", "cancel"}, NEW r \in Export!Exports, ~IsSent(r),
           Export!Asks(kind, r)
    PROVE  /\ toExporter' \in Seq(HostMessages) /\ HasOneEach(toExporter')
           /\ \A x : IsSent(x)' <=> IsSent(x) \/ x = r
           /\ \A x, k : IsSentAs(k, x)' <=> IsSentAs(k, x) \/ (x = r /\ k = kind)
  <1> DEFINE message == [kind |-> kind, req |-> r]
  <1>1. message \in HostMessages /\ message.req = r /\ message.kind = kind
    BY DEF HostMessages
  <1>2. toExporter \in Seq(HostMessages) /\ HasOneEach(toExporter) /\ toExporter' = Append(toExporter, message)
        /\ \A i \in DOMAIN toExporter : toExporter[i].req # message.req
    BY DEF ExportTyped, Export!Asks, IsSent
  <1> HIDE DEF message
  <1>3. /\ toExporter' \in Seq(HostMessages) /\ HasOneEach(toExporter')
        /\ \A i \in DOMAIN toExporter : i \in DOMAIN toExporter' /\ toExporter'[i] = toExporter[i]
        /\ Len(toExporter) + 1 \in DOMAIN toExporter' /\ toExporter'[Len(toExporter) + 1] = message
        /\ \A i \in DOMAIN toExporter' : i \in DOMAIN toExporter \/ i = Len(toExporter) + 1
    <2>1. toExporter \in Seq(HostMessages) /\ message \in HostMessages /\ HasOneEach(toExporter)
          /\ \A i \in DOMAIN toExporter : toExporter[i].req # message.req
      BY <1>1, <1>2
    <2> QED BY <1>2, <2>1, MessageAdded
  <1>4. ASSUME NEW x PROVE IsSent(x)' <=> IsSent(x) \/ x = r
    BY <1>1, <1>3 DEF IsSent
  <1>5. ASSUME NEW x, NEW k PROVE IsSentAs(k, x)' <=> IsSentAs(k, x) \/ (x = r /\ k = kind)
    BY <1>1, <1>3 DEF IsSentAs
  <1> QED BY <1>3, <1>4, <1>5
LEMMA HostAnswers ==
    ASSUME ExportTyped, NEW verdict, NEW export, Export!Answer(verdict, export),
           [status |-> verdict, req |-> export.req, content |-> export.content] \in PaneMessages,
           ~Answered(export.req)
    PROVE  /\ toPane' \in Seq(PaneMessages) /\ HasOneEach(toPane')
           /\ \A x : Answered(x)' <=> Answered(x) \/ x = export.req
           /\ \A x, s : AnsweredAs(s, x)' <=> AnsweredAs(s, x) \/ (x = export.req /\ s = verdict)
           /\ \A x, c : AnsweredWith(c, x)' <=>
                  AnsweredWith(c, x) \/ (x = export.req /\ verdict = "ready" /\ c = export.content)
  <1> DEFINE message == [status |-> verdict, req |-> export.req, content |-> export.content]
  <1>1. message \in PaneMessages /\ message.req = export.req /\ message.status = verdict
        /\ message.content = export.content
    OBVIOUS
  <1>2. toPane \in Seq(PaneMessages) /\ HasOneEach(toPane) /\ toPane' = Append(toPane, message)
        /\ \A i \in DOMAIN toPane : toPane[i].req # message.req
    BY DEF ExportTyped, Export!Answer, Answered
  <1> HIDE DEF message
  <1>3. /\ toPane' \in Seq(PaneMessages) /\ HasOneEach(toPane')
        /\ \A i \in DOMAIN toPane : i \in DOMAIN toPane' /\ toPane'[i] = toPane[i]
        /\ Len(toPane) + 1 \in DOMAIN toPane' /\ toPane'[Len(toPane) + 1] = message
        /\ \A i \in DOMAIN toPane' : i \in DOMAIN toPane \/ i = Len(toPane) + 1
    BY <1>1, <1>2, MessageAdded
  <1>4. ASSUME NEW x PROVE Answered(x)' <=> Answered(x) \/ x = export.req
    BY <1>1, <1>3 DEF Answered
  <1>5. ASSUME NEW x, NEW s PROVE AnsweredAs(s, x)' <=> AnsweredAs(s, x) \/ (x = export.req /\ s = verdict)
    BY <1>1, <1>3 DEF AnsweredAs
  <1>6. ASSUME NEW x, NEW c
        PROVE  AnsweredWith(c, x)' <=> AnsweredWith(c, x) \/ (x = export.req /\ verdict = "ready" /\ c = export.content)
    BY <1>1, <1>3 DEF AnsweredWith
  <1> QED BY <1>3, <1>4, <1>5, <1>6
LEMMA PaneTakes ==
    ASSUME ExportTyped, toPane # <<>>, toPane' = Tail(toPane), NEW message, message = Head(toPane)
    PROVE  /\ toPane' \in Seq(PaneMessages) /\ HasOneEach(toPane') /\ message \in PaneMessages
           /\ message.req \in Export!Exports /\ Answered(message.req) /\ AnsweredAs(message.status, message.req)
           /\ message.status = "ready" => AnsweredWith(message.content, message.req)
           /\ \A s : AnsweredAs(s, message.req) => s = message.status
           /\ \A x : Answered(x)' <=> Answered(x) /\ x # message.req
           /\ \A x, s : AnsweredAs(s, x)' <=> AnsweredAs(s, x) /\ x # message.req
           /\ \A x, c : AnsweredWith(c, x)' <=> AnsweredWith(c, x) /\ x # message.req
  <1>1. toPane \in Seq(PaneMessages) /\ HasOneEach(toPane)
    BY DEF ExportTyped
  <1>2. /\ toPane' \in Seq(PaneMessages) /\ HasOneEach(toPane') /\ message \in PaneMessages
        /\ 1 \in DOMAIN toPane /\ message = toPane[1]
        /\ \A i \in DOMAIN toPane' : /\ i + 1 \in DOMAIN toPane /\ toPane'[i] = toPane[i + 1]
                                     /\ toPane'[i].req # message.req
        /\ \A i \in DOMAIN toPane : toPane[i].req # message.req =>
               i - 1 \in DOMAIN toPane' /\ toPane'[i - 1] = toPane[i]
    BY <1>1, MessageTaken
  <1>3. /\ message.req \in Export!Exports /\ Answered(message.req) /\ AnsweredAs(message.status, message.req)
        /\ message.status = "ready" => AnsweredWith(message.content, message.req)
    BY <1>2 DEF PaneMessages, Answered, AnsweredAs, AnsweredWith
  <1>4. ASSUME NEW x PROVE Answered(x)' <=> Answered(x) /\ x # message.req
    BY <1>2 DEF Answered
  <1>5. ASSUME NEW x, NEW s PROVE AnsweredAs(s, x)' <=> AnsweredAs(s, x) /\ x # message.req
    BY <1>2 DEF AnsweredAs
  <1>6. ASSUME NEW x, NEW c PROVE AnsweredWith(c, x)' <=> AnsweredWith(c, x) /\ x # message.req
    <2>1. ASSUME AnsweredWith(c, x)' PROVE AnsweredWith(c, x) /\ x # message.req
      BY <1>2, <2>1 DEF AnsweredWith
    <2>2. ASSUME AnsweredWith(c, x), x # message.req PROVE AnsweredWith(c, x)'
      <3>1. PICK i \in DOMAIN toPane : toPane[i].req = x /\ toPane[i].status = "ready" /\ toPane[i].content = c
        BY <2>2 DEF AnsweredWith
      <3>2. i - 1 \in DOMAIN toPane' /\ toPane'[i - 1] = toPane[i]
        BY <1>2, <2>2, <3>1
      <3> QED BY <3>1, <3>2 DEF AnsweredWith
    <2> QED BY <2>1, <2>2
  <1>7. ASSUME NEW s, AnsweredAs(s, message.req) PROVE s = message.status
    BY <1>1, <1>2, <1>7 DEF AnsweredAs, HasOneEach
  <1> QED BY <1>2, <1>3, <1>4, <1>5, <1>6, <1>7

LEMMA ExportFacts ==
    ASSUME ExportTyped
    PROVE  /\ exporter.choosing \in Built /\ exporter.pending \in Built /\ exporter.writing \in Built
           /\ exporter.isDisposed \in BOOLEAN
           /\ exporter = [choosing |-> exporter.choosing, pending |-> exporter.pending,
                          writing |-> exporter.writing, isDisposed |-> exporter.isDisposed]
           /\ \A x, k : IsSentAs(k, x) => IsSent(x)
           /\ \A x : IsSent(x) => x \in Export!Exports
           /\ \A x, s : AnsweredAs(s, x) => Answered(x)
           /\ \A x, c : AnsweredWith(c, x) => AnsweredAs("ready", x)
           /\ \A x, s, t : AnsweredAs(s, x) /\ AnsweredAs(t, x) => s = t
  <1>1. toExporter \in Seq(HostMessages) /\ HasOneEach(toPane)
    BY DEF ExportTyped
  <1>2. \A i \in DOMAIN toExporter : toExporter[i] \in HostMessages
    BY <1>1
  <1>3. /\ \A x, k : IsSentAs(k, x) => IsSent(x)
        /\ \A x : IsSent(x) => x \in Export!Exports
        /\ \A x, s : AnsweredAs(s, x) => Answered(x)
        /\ \A x, c : AnsweredWith(c, x) => AnsweredAs("ready", x)
    BY <1>2 DEF IsSent, IsSentAs, Answered, AnsweredAs, AnsweredWith, HostMessages
  <1>4. \A x, s, t : AnsweredAs(s, x) /\ AnsweredAs(t, x) => s = t
    BY <1>1 DEF AnsweredAs, HasOneEach
  <1> QED BY <1>3, <1>4 DEF ExportTyped
LEMMA BuiltOrNothing ==
    \A b \in Built : /\ b.req \in Nat /\ b.content \in Nat \cup {-1}
                     /\ b = Export!Nothing <=> b.req = 0
                     /\ b.req # 0 => b.content \in Nat
                     /\ b = [req |-> b.req, content |-> b.content]
  BY DEF Built, Export!Nothing

\* The Host answers a message that it cannot serve.
LEMMA HostRefuses ==
    ASSUME ExportInv, NEW kind \in {"request", "confirm"}, Export!Takes(kind), NEW r, r = Head(toExporter).req,
           Export!Refuses(r), UNCHANGED <<errorCount, pane, outcome, left>>,
           kind = "confirm" => exporter.pending.req # r
    PROVE  ExportInv'
  <1> DEFINE export == [Export!Nothing EXCEPT !.req = r]
  <1>1. /\ ExportTyped /\ OneTurn /\ Known /\ PaneFollows /\ PaneWaits /\ KeptIsShown /\ WrittenIsConfirmed
        /\ Export!ToldAsItWas
    BY DEF ExportInv
  <1>2. /\ r \in Export!Exports /\ IsSentAs(kind, r) /\ IsSent(r)
        /\ toExporter' \in Seq(HostMessages) /\ HasOneEach(toExporter')
        /\ \A x : IsSent(x)' <=> IsSent(x) /\ x # r
        /\ \A x, k : IsSentAs(k, x)' <=> IsSentAs(k, x) /\ x # r
        /\ \A k : IsSentAs(k, r) => k = kind
    BY <1>1, HostTakes
  <1>3. export.req = r /\ export.content = -1 /\ Export!Answer("error", export) /\ exporter' = exporter
    BY DEF Export!Refuses, Export!Nothing
  <1>4. [status |-> "error", req |-> export.req, content |-> export.content] \in PaneMessages
    BY <1>2, <1>3 DEF PaneMessages
  <1>5. ~Answered(r)
    BY <1>1, <1>2 DEF OneTurn
  <1> HIDE DEF export
  <1>6. /\ toPane' \in Seq(PaneMessages) /\ HasOneEach(toPane')
        /\ \A x : Answered(x)' <=> Answered(x) \/ x = r
        /\ \A x, s : AnsweredAs(s, x)' <=> AnsweredAs(s, x) \/ (x = r /\ s = "error")
        /\ \A x, c : AnsweredWith(c, x)' <=> AnsweredWith(c, x)
    BY <1>1, <1>3, <1>4, <1>5, HostAnswers
  <1>7. \A x : (InHand(x)' <=> InHand(x)) /\ (PaneHas(x)' <=> PaneHas(x))
    BY <1>3 DEF InHand, PaneHas
  <1>8. ExportTyped'
    BY <1>1, <1>2, <1>3, <1>6 DEF ExportTyped
  <1>9. OneTurn'
    BY <1>1, <1>2, <1>3, <1>6, <1>7 DEF OneTurn
  <1>10. Known'
    BY <1>1, <1>2, <1>3, <1>6, <1>7 DEF Known
  <1>11. PaneFollows'
    BY <1>1, <1>2, <1>3, <1>6 DEF PaneFollows
  <1>12. PaneWaits'
    BY <1>1, <1>2, <1>3, <1>6 DEF PaneWaits
  <1>13. KeptIsShown'
    BY <1>1, <1>2, <1>3, <1>6, <1>7 DEF KeptIsShown
  <1>14. WrittenIsConfirmed'
    BY <1>1, <1>2, <1>3, <1>6, <1>7 DEF WrittenIsConfirmed, IsTrueOf
  <1>15. Export!ToldAsItWas'
    BY <1>1 DEF Export!ToldAsItWas
  <1> QED BY <1>8, <1>9, <1>10, <1>11, <1>12, <1>13, <1>14, <1>15 DEF ExportInv

\* What there is to say of an export does not change with the messages under way.
LEMMA QuietPane ==
    ASSUME toPane' = toPane
    PROVE  /\ \A x : Answered(x)' <=> Answered(x)
           /\ \A x, s : AnsweredAs(s, x)' <=> AnsweredAs(s, x)
           /\ \A x, c : AnsweredWith(c, x)' <=> AnsweredWith(c, x)
  BY DEF Answered, AnsweredAs, AnsweredWith
LEMMA QuietHost ==
    ASSUME toExporter' = toExporter
    PROVE  /\ \A x : IsSent(x)' <=> IsSent(x)
           /\ \A x, k : IsSentAs(k, x)' <=> IsSentAs(k, x)
  BY DEF IsSent, IsSentAs

LEMMA HostPreparesKeeps ==
    ASSUME ExportInv, NEW isBuilt \in BOOLEAN, Export!HostPrepares(isBuilt),
           NEW r, r = Head(toExporter).req
    PROVE  ExportInv'
  <1>1. /\ ExportTyped /\ OneTurn /\ Known /\ PaneFollows /\ PaneWaits /\ KeptIsShown /\ WrittenIsConfirmed
        /\ Export!ToldAsItWas
    BY DEF ExportInv
  <1>2. /\ exporter.choosing \in Built /\ exporter.pending \in Built /\ exporter.writing \in Built
        /\ exporter.isDisposed \in BOOLEAN
        /\ exporter = [choosing |-> exporter.choosing, pending |-> exporter.pending,
                       writing |-> exporter.writing, isDisposed |-> exporter.isDisposed]
        /\ \A x, k : IsSentAs(k, x) => IsSent(x)
        /\ \A x, s : AnsweredAs(s, x) => Answered(x)
        /\ \A x, c : AnsweredWith(c, x) => Answered(x)
        /\ pane.status # "idle" => pane.req # 0
    BY <1>1, ExportFacts DEF ExportTyped
  <1>3. /\ r \in Export!Exports /\ IsSentAs("request", r) /\ IsSent(r) /\ r # 0
        /\ toExporter' \in Seq(HostMessages) /\ HasOneEach(toExporter')
        /\ \A x : IsSent(x)' <=> IsSent(x) /\ x # r
        /\ \A x, k : IsSentAs(k, x)' <=> IsSentAs(k, x) /\ x # r
        /\ \A k : IsSentAs(k, r) => k = "request"
    <2>1. Export!Takes("request")
      BY DEF Export!HostPrepares
    <2> QED BY <1>1, <2>1, HostTakes DEF Export!Exports
  <1>4. CASE ~(Export!IsFree /\ isBuilt)
    <2>1. /\ Export!Takes("request") /\ Export!Refuses(r) /\ UNCHANGED <<errorCount, pane, outcome, left>>
      BY <1>4 DEF Export!HostPrepares
    <2> QED BY <2>1, HostRefuses
  <1>5. CASE Export!IsFree /\ isBuilt
    <2>1. /\ exporter' = [exporter EXCEPT !.choosing = [req |-> r, content |-> errorCount]]
          /\ UNCHANGED <<toPane, errorCount, pane, outcome, left>>
          /\ exporter.isDisposed = FALSE
          /\ exporter.choosing.req = 0 /\ exporter.pending.req = 0 /\ exporter.writing.req = 0
      BY <1>2, <1>5 DEF Export!HostPrepares, Export!IsFree, Export!Document, Export!Nothing
    <2>2. [req |-> r, content |-> errorCount] \in Built
      BY <1>1, <1>3 DEF Built, ExportTyped, Export!Exports
    <2>3. /\ exporter'.choosing = [req |-> r, content |-> errorCount] /\ exporter'.choosing.req = r
          /\ exporter'.pending = exporter.pending /\ exporter'.writing = exporter.writing
          /\ exporter'.isDisposed = FALSE
          /\ exporter' \in [choosing : Built, pending : Built, writing : Built, isDisposed : BOOLEAN]
      BY <1>2, <2>1, <2>2
    <2>4. /\ \A x : Answered(x)' <=> Answered(x)
          /\ \A x, s : AnsweredAs(s, x)' <=> AnsweredAs(s, x)
          /\ \A x, c : AnsweredWith(c, x)' <=> AnsweredWith(c, x)
      BY <2>1, QuietPane
    <2>5. \A x \in Export!Exports : (InHand(x)' <=> x = r) /\ ~InHand(x) /\ (PaneHas(x)' <=> PaneHas(x))
      BY <2>1, <2>3 DEF InHand, PaneHas, Export!Exports
    <2>6. ExportTyped'
      BY <1>1, <1>2, <1>3, <2>1, <2>3 DEF ExportTyped
    <2>7. OneTurn'
      BY <1>1, <1>2, <1>3, <2>1, <2>3, <2>4, <2>5 DEF OneTurn
    <2>8. Known'
      BY <1>1, <1>2, <1>3, <2>1, <2>3, <2>4 DEF Known
    <2>9. PaneFollows'
      BY <1>1, <1>2, <1>3, <2>1, <2>3, <2>4 DEF PaneFollows, Export!Exports
    <2>10. PaneWaits'
      BY <1>1, <1>2, <1>3, <2>1, <2>3, <2>4 DEF PaneWaits, Known, PaneFollows
    <2>11. KeptIsShown'
      BY <1>1, <1>2, <1>3, <2>1, <2>3, <2>4, <2>5 DEF KeptIsShown
    <2>12. WrittenIsConfirmed'
      BY <1>1, <1>2, <1>3, <2>1, <2>3, <2>4, <2>5 DEF WrittenIsConfirmed, IsTrueOf
    <2>13. Export!ToldAsItWas'
      BY <1>1, <1>2, <1>3, <2>1, <2>3 DEF Export!ToldAsItWas
    <2> QED BY <2>6, <2>7, <2>8, <2>9, <2>10, <2>11, <2>12, <2>13 DEF ExportInv
  <1> QED BY <1>4, <1>5

LEMMA HostChoseKeeps ==
    ASSUME ExportInv, NEW choice \in {"file", "none", "refused"}, Export!HostChose(choice),
           NEW r, r = exporter.choosing.req
    PROVE  ExportInv'
  <1>1. /\ ExportTyped /\ OneTurn /\ Known /\ PaneFollows /\ PaneWaits /\ KeptIsShown /\ WrittenIsConfirmed
        /\ Export!ToldAsItWas
    BY DEF ExportInv
  <1>2. /\ exporter.choosing \in Built /\ exporter.pending \in Built /\ exporter.writing \in Built
        /\ exporter.isDisposed \in BOOLEAN
        /\ exporter = [choosing |-> exporter.choosing, pending |-> exporter.pending,
                       writing |-> exporter.writing, isDisposed |-> exporter.isDisposed]
        /\ \A x, k : IsSentAs(k, x) => IsSent(x)
        /\ \A x, s : AnsweredAs(s, x) => Answered(x)
        /\ \A x, c : AnsweredWith(c, x) => Answered(x)
        /\ pane.status # "idle" => pane.req # 0
    BY <1>1, ExportFacts DEF ExportTyped
  <1>3. /\ exporter.choosing # Export!Nothing /\ r # 0 /\ r \in Nat /\ exporter.choosing.content \in Nat
        /\ exporter.choosing = [req |-> r, content |-> exporter.choosing.content]
    BY <1>2, BuiltOrNothing DEF Export!HostChose
  <1>4. /\ r \in Export!Exports /\ InHand(r) /\ exporter.pending.req = 0 /\ exporter.writing.req = 0
        /\ exporter.choosing.req = r
    <2>1. r <= left.asked /\ left.asked <= MaxExports /\ left.asked \in Int
      BY <1>1, ExportsAssumption DEF Known
    <2>2. r \in Export!Exports
      BY <1>3, <2>1, ExportsAssumption DEF Export!Exports
    <2> QED BY <1>1, <1>3, <2>2 DEF OneTurn, InHand
  <1>5. UNCHANGED <<errorCount, pane, toExporter, outcome, left>>
    BY DEF Export!HostChose
  <1>6. /\ \A x : IsSent(x)' <=> IsSent(x)
        /\ \A x, k : IsSentAs(k, x)' <=> IsSentAs(k, x)
    BY <1>5, QuietHost
  <1>7. Export!Nothing \in Built /\ Export!Nothing.req = 0
    BY DEF Built, Export!Nothing
  <1>8. CASE exporter.isDisposed
    <2>1. exporter' = [exporter EXCEPT !.choosing = Export!Nothing] /\ toPane' = toPane
      BY <1>8 DEF Export!HostChose
    <2>2. /\ exporter'.choosing = Export!Nothing /\ exporter'.choosing.req = 0
          /\ exporter'.pending = exporter.pending /\ exporter'.writing = exporter.writing
          /\ exporter'.isDisposed = exporter.isDisposed
          /\ exporter' \in [choosing : Built, pending : Built, writing : Built, isDisposed : BOOLEAN]
      BY <1>2, <1>7, <2>1
    <2>3. /\ \A x : Answered(x)' <=> Answered(x)
          /\ \A x, s : AnsweredAs(s, x)' <=> AnsweredAs(s, x)
          /\ \A x, c : AnsweredWith(c, x)' <=> AnsweredWith(c, x)
      BY <2>1, QuietPane
    <2>4. \A x \in Export!Exports : ~InHand(x)' /\ (InHand(x) <=> x = r) /\ (PaneHas(x)' <=> PaneHas(x))
      BY <1>4, <1>5, <2>2 DEF InHand, PaneHas, Export!Exports
    <2>5. pane.req # r
      BY <1>1, <1>4, <1>8 DEF Known
    <2>6. ExportTyped'
      BY <1>1, <1>2, <1>4, <1>5, <1>6, <1>8, <2>1, <2>2, <2>3 DEF ExportTyped
    <2>7. OneTurn'
      BY <1>1, <1>2, <1>4, <1>5, <1>6, <1>8, <2>1, <2>2, <2>3, <2>4 DEF OneTurn
    <2>8. Known'
      BY <1>1, <1>2, <1>4, <1>5, <1>6, <1>8, <2>1, <2>2, <2>3, <2>4 DEF Known
    <2>9. PaneFollows'
      BY <1>1, <1>2, <1>4, <1>5, <1>6, <1>8, <2>1, <2>2, <2>3 DEF PaneFollows, Export!Exports
    <2>10. PaneWaits'
      BY <1>1, <1>2, <1>4, <1>5, <1>6, <1>8, <2>1, <2>2, <2>3, <2>5 DEF PaneWaits
    <2>11. KeptIsShown'
      BY <1>1, <1>2, <1>4, <1>5, <1>6, <1>8, <2>1, <2>2, <2>3, <2>4 DEF KeptIsShown
    <2>12. WrittenIsConfirmed'
      BY <1>1, <1>2, <1>4, <1>5, <1>6, <1>8, <2>1, <2>2, <2>3, <2>4 DEF WrittenIsConfirmed, IsTrueOf
    <2>13. Export!ToldAsItWas'
      BY <1>1, <1>2, <1>4, <1>5, <1>6, <1>8, <2>1, <2>2, <2>3 DEF Export!ToldAsItWas
    <2> QED BY <2>6, <2>7, <2>8, <2>9, <2>10, <2>11, <2>12, <2>13 DEF ExportInv
  <1>9. CASE ~exporter.isDisposed
    <2> DEFINE verdict == IF choice = "file" THEN "ready" ELSE IF choice = "none" THEN "cancelled" ELSE "error"
    <2>1. /\ exporter' = Export!Settled(exporter.choosing, choice) /\ Export!Answer(verdict, exporter.choosing)
      BY <1>9 DEF Export!HostChose
    <2>2. [status |-> verdict, req |-> exporter.choosing.req, content |-> exporter.choosing.content] \in PaneMessages
      BY <1>3, <1>4 DEF PaneMessages
    <2>3. ~Answered(r) /\ ~IsSent(r) /\ ~PaneHas(r)
      BY <1>1, <1>4 DEF OneTurn
    <2>4. verdict = "ready" <=> choice = "file"
      OBVIOUS
    <2>5. verdict # "completed"
      OBVIOUS
    <2> HIDE DEF verdict
    <2>6. /\ toPane' \in Seq(PaneMessages) /\ HasOneEach(toPane')
          /\ \A x : Answered(x)' <=> Answered(x) \/ x = r
          /\ \A x, s : AnsweredAs(s, x)' <=> AnsweredAs(s, x) \/ (x = r /\ s = verdict)
          /\ \A x, c : AnsweredWith(c, x)' <=>
                 AnsweredWith(c, x) \/ (x = r /\ verdict = "ready" /\ c = exporter.choosing.content)
      BY <1>1, <1>4, <2>1, <2>2, <2>3, HostAnswers
    <2>7. /\ exporter'.choosing.req = 0 /\ exporter'.writing = exporter.writing
          /\ exporter'.isDisposed = exporter.isDisposed
          /\ exporter'.pending = IF choice = "file" THEN exporter.choosing ELSE exporter.pending
          /\ exporter' \in [choosing : Built, pending : Built, writing : Built, isDisposed : BOOLEAN]
      BY <1>2, <1>7, <2>1 DEF Export!Settled
    <2>8. \A x \in Export!Exports : ~InHand(x)' /\ (InHand(x) <=> x = r) /\ (PaneHas(x)' <=> PaneHas(x))
      BY <1>4, <1>5, <2>7 DEF InHand, PaneHas, Export!Exports
    <2>9. /\ exporter'.pending.req = 0 \/ (exporter'.pending = exporter.choosing /\ verdict = "ready")
          /\ exporter'.pending.req # 0 => exporter'.pending.req = r
      BY <1>4, <2>4, <2>7
    <2>10. ExportTyped'
      BY <1>1, <1>2, <1>4, <1>5, <1>6, <1>9, <2>3, <2>5, <2>6, <2>7 DEF ExportTyped
    <2>11. OneTurn'
      BY <1>1, <1>2, <1>4, <1>5, <1>6, <1>9, <2>3, <2>5, <2>6, <2>7, <2>8 DEF OneTurn
    <2>12. Known'
      BY <1>1, <1>2, <1>4, <1>5, <1>6, <1>9, <2>3, <2>5, <2>6, <2>7 DEF Known
    <2>13. PaneFollows'
      BY <1>1, <1>2, <1>4, <1>5, <1>6, <1>9, <2>3, <2>5, <2>6, <2>7 DEF PaneFollows, Export!Exports
    <2>14. PaneWaits'
      BY <1>1, <1>2, <1>4, <1>5, <1>6, <1>9, <2>3, <2>5, <2>6, <2>7 DEF PaneWaits
    <2>15. KeptIsShown'
      <3>1. CASE exporter'.pending.req = 0
        BY <1>4, <1>9, <2>7, <3>1 DEF KeptIsShown, Export!Exports
      <3>2. CASE exporter'.pending = exporter.choosing /\ verdict = "ready"
        <4>1. \A x \in Export!Exports : exporter'.pending.req = x => x = r
          BY <1>4, <3>2
        <4>2. ASSUME NEW c, AnsweredWith(c, r)' PROVE c = exporter'.pending.content
          <5>1. AnsweredWith(c, r) \/ c = exporter.choosing.content
            BY <2>6, <4>2
          <5> QED BY <1>2, <2>3, <3>2, <5>1
        <4>3. ~PaneHas(r)'
          BY <1>4, <2>3, <2>8
        <4>4. ~IsSentAs("confirm", r)'
          BY <1>2, <1>6, <2>3
        <4>5. AnsweredAs("ready", r)'
          BY <2>6, <3>2
        <4>6. exporter'.isDisposed = FALSE /\ exporter'.writing.req = 0
          BY <1>2, <1>4, <1>9, <2>7
        <4> QED BY <4>1, <4>2, <4>3, <4>4, <4>5, <4>6 DEF KeptIsShown
      <3> QED BY <2>9, <3>1, <3>2
    <2>16. WrittenIsConfirmed'
      BY <1>1, <1>2, <1>4, <1>5, <1>6, <1>9, <2>3, <2>5, <2>6, <2>7, <2>8 DEF WrittenIsConfirmed, IsTrueOf
    <2>17. Export!ToldAsItWas'
      BY <1>1, <1>2, <1>4, <1>5, <1>6, <1>9, <2>3, <2>5, <2>6, <2>7 DEF Export!ToldAsItWas
    <2> QED BY <2>10, <2>11, <2>12, <2>13, <2>14, <2>15, <2>16, <2>17 DEF ExportInv
  <1> QED BY <1>8, <1>9

\* The Host gives up what it keeps, and says so.
LEMMA EndsKept ==
    ASSUME ExportInv, NEW kind \in {"confirm", "cancel"}, Export!Takes(kind), NEW r, r = Head(toExporter).req,
           exporter.pending.req = r, exporter' = [exporter EXCEPT !.pending = Export!Nothing],
           NEW verdict \in {"error", "cancelled"}, Export!Answer(verdict, exporter.pending),
           UNCHANGED <<errorCount, pane, outcome, left>>
    PROVE  ExportInv'
  <1>1. /\ ExportTyped /\ OneTurn /\ Known /\ PaneFollows /\ PaneWaits /\ KeptIsShown /\ WrittenIsConfirmed
        /\ Export!ToldAsItWas
    BY DEF ExportInv
  <1>2. /\ exporter.choosing \in Built /\ exporter.pending \in Built /\ exporter.writing \in Built
        /\ exporter.isDisposed \in BOOLEAN
        /\ exporter = [choosing |-> exporter.choosing, pending |-> exporter.pending,
                       writing |-> exporter.writing, isDisposed |-> exporter.isDisposed]
        /\ \A x, k : IsSentAs(k, x) => IsSent(x)
        /\ \A x, s : AnsweredAs(s, x) => Answered(x)
        /\ \A x, c : AnsweredWith(c, x) => Answered(x)
        /\ pane.status # "idle" => pane.req # 0
    BY <1>1, ExportFacts DEF ExportTyped
  <1>3. /\ r \in Export!Exports /\ IsSentAs(kind, r) /\ IsSent(r) /\ r # 0
        /\ toExporter' \in Seq(HostMessages) /\ HasOneEach(toExporter')
        /\ \A x : IsSent(x)' <=> IsSent(x) /\ x # r
        /\ \A x, k : IsSentAs(k, x)' <=> IsSentAs(k, x) /\ x # r
        /\ \A k : IsSentAs(k, r) => k = kind
    BY <1>1, HostTakes DEF Export!Exports
  <1>4. ~Answered(r) /\ ~InHand(r) /\ ~PaneHas(r)
    BY <1>1, <1>3 DEF OneTurn
  <1>5. exporter.pending.content \in Nat
    BY <1>2, <1>3, BuiltOrNothing
  <1>6. [status |-> verdict, req |-> exporter.pending.req, content |-> exporter.pending.content] \in PaneMessages
    BY <1>3, <1>5 DEF PaneMessages
  <1>7. /\ toPane' \in Seq(PaneMessages) /\ HasOneEach(toPane')
        /\ \A x : Answered(x)' <=> Answered(x) \/ x = r
        /\ \A x, s : AnsweredAs(s, x)' <=> AnsweredAs(s, x) \/ (x = r /\ s = verdict)
        /\ \A x, c : AnsweredWith(c, x)' <=> AnsweredWith(c, x)
    BY <1>1, <1>4, <1>6, HostAnswers
  <1>8. /\ exporter'.pending = Export!Nothing /\ exporter'.pending.req = 0
        /\ exporter'.choosing = exporter.choosing /\ exporter'.writing = exporter.writing
        /\ exporter'.isDisposed = exporter.isDisposed
        /\ exporter' \in [choosing : Built, pending : Built, writing : Built, isDisposed : BOOLEAN]
    BY <1>2 DEF Built, Export!Nothing
  <1>9. \A x : (InHand(x)' <=> InHand(x)) /\ (PaneHas(x)' <=> PaneHas(x))
    BY <1>8 DEF InHand, PaneHas
  <1>10. ExportTyped'
    BY <1>1, <1>2, <1>3, <1>4, <1>7, <1>8 DEF ExportTyped
  <1>11. OneTurn'
    BY <1>1, <1>2, <1>3, <1>4, <1>7, <1>9 DEF OneTurn
  <1>12. Known'
    BY <1>1, <1>2, <1>3, <1>4, <1>7, <1>8, <1>9 DEF Known
  <1>13. PaneFollows'
    BY <1>1, <1>2, <1>3, <1>4, <1>7 DEF PaneFollows, Export!Exports
  <1>14. PaneWaits'
    BY <1>1, <1>2, <1>3, <1>4, <1>7 DEF PaneWaits
  <1>15. KeptIsShown'
    BY <1>1, <1>2, <1>3, <1>4, <1>7, <1>8 DEF KeptIsShown, Export!Exports
  <1>16. WrittenIsConfirmed'
    BY <1>1, <1>2, <1>3, <1>4, <1>7, <1>9 DEF WrittenIsConfirmed, IsTrueOf
  <1>17. Export!ToldAsItWas'
    BY <1>1, <1>2, <1>3, <1>4, <1>7 DEF Export!ToldAsItWas
  <1> QED BY <1>10, <1>11, <1>12, <1>13, <1>14, <1>15, <1>16, <1>17 DEF ExportInv

LEMMA HostConfirmsKeeps ==
    ASSUME ExportInv, NEW isBegun \in BOOLEAN, Export!HostConfirms(isBegun),
           NEW r, r = Head(toExporter).req
    PROVE  ExportInv'
  <1>1. /\ ExportTyped /\ OneTurn /\ Known /\ PaneFollows /\ PaneWaits /\ KeptIsShown /\ WrittenIsConfirmed
        /\ Export!ToldAsItWas
    BY DEF ExportInv
  <1>2. /\ exporter.choosing \in Built /\ exporter.pending \in Built /\ exporter.writing \in Built
        /\ exporter.isDisposed \in BOOLEAN
        /\ exporter = [choosing |-> exporter.choosing, pending |-> exporter.pending,
                       writing |-> exporter.writing, isDisposed |-> exporter.isDisposed]
        /\ \A x, k : IsSentAs(k, x) => IsSent(x)
        /\ \A x, s : AnsweredAs(s, x) => Answered(x)
        /\ \A x, c : AnsweredWith(c, x) => Answered(x)
        /\ pane.status # "idle" => pane.req # 0
    BY <1>1, ExportFacts DEF ExportTyped
  <1>3. /\ r \in Export!Exports /\ IsSentAs("confirm", r) /\ IsSent(r) /\ r # 0
        /\ toExporter' \in Seq(HostMessages) /\ HasOneEach(toExporter')
        /\ \A x : IsSent(x)' <=> IsSent(x) /\ x # r
        /\ \A x, k : IsSentAs(k, x)' <=> IsSentAs(k, x) /\ x # r
        /\ \A k : IsSentAs(k, r) => k = "confirm"
    <2>1. Export!Takes("confirm")
      BY DEF Export!HostConfirms
    <2> QED BY <1>1, <2>1, HostTakes DEF Export!Exports
  <1>4. UNCHANGED <<errorCount, pane, outcome, left>>
    BY DEF Export!HostConfirms
  <1>5. ~Answered(r) /\ ~InHand(r) /\ ~PaneHas(r)
    BY <1>1, <1>3 DEF OneTurn
  \* What the Host keeps for the export is still to be confirmed.
  <1>6. exporter.pending.req = r => Export!IsKept(r) /\ exporter.choosing.req = 0 /\ exporter.writing.req = 0
    <2>1. ASSUME exporter.pending.req = r PROVE exporter.writing.req = 0
      <3>1. exporter.writing.req # 0 => exporter.writing.req = r
        BY <1>1, <1>3, <2>1 DEF KeptIsShown
      <3> QED BY <1>5, <3>1 DEF InHand
    <2>2. exporter.pending.req = r => exporter.isDisposed = FALSE /\ exporter.choosing.req = 0
      BY <1>1, <1>2, <1>3 DEF KeptIsShown, OneTurn
    <2>3. exporter.writing.req = 0 => exporter.writing = Export!Nothing
      BY <1>2, BuiltOrNothing
    <2>4. exporter.pending.req = r => exporter.pending # Export!Nothing
      BY <1>3 DEF Export!Nothing
    <2> QED BY <2>1, <2>2, <2>3, <2>4 DEF Export!IsKept
  <1>7. CASE ~Export!IsKept(r)
    <2>1. Export!Takes("confirm") /\ Export!Refuses(r) /\ exporter.pending.req # r
      BY <1>6, <1>7 DEF Export!HostConfirms
    <2> QED BY <1>4, <2>1, HostRefuses
  <1>8. CASE Export!IsKept(r) /\ isBegun
    <2>1. exporter.pending.req = r /\ exporter.choosing.req = 0 /\ exporter.writing.req = 0
      BY <1>6, <1>8 DEF Export!IsKept
    <2>2. /\ exporter' = [exporter EXCEPT !.writing = exporter.pending] /\ toPane' = toPane
      BY <1>8 DEF Export!HostConfirms, Export!Writes
    <2>3. /\ exporter'.writing = exporter.pending /\ exporter'.writing.req = r
          /\ exporter'.pending = exporter.pending /\ exporter'.choosing = exporter.choosing
          /\ exporter'.isDisposed = exporter.isDisposed
          /\ exporter' \in [choosing : Built, pending : Built, writing : Built, isDisposed : BOOLEAN]
      BY <1>2, <2>1, <2>2
    <2>4. /\ \A x : Answered(x)' <=> Answered(x)
          /\ \A x, s : AnsweredAs(s, x)' <=> AnsweredAs(s, x)
          /\ \A x, c : AnsweredWith(c, x)' <=> AnsweredWith(c, x)
      BY <2>2, QuietPane
    <2>5. \A x \in Export!Exports : (InHand(x)' <=> x = r) /\ ~InHand(x) /\ (PaneHas(x)' <=> PaneHas(x))
      BY <1>4, <2>1, <2>3 DEF InHand, PaneHas, Export!Exports
    <2>6. exporter.isDisposed = FALSE
      BY <1>2, <1>8 DEF Export!IsKept
    <2>7. outcome[r].isConfirmed /\ outcome[r].shown = exporter.pending.content
      BY <1>1, <1>3, <2>1 DEF WrittenIsConfirmed, IsTrueOf, KeptIsShown
    <2>8. ExportTyped'
      BY <1>1, <1>2, <1>3, <1>4, <1>5, <2>1, <2>2, <2>3, <2>4, <2>5 DEF ExportTyped
    <2>9. OneTurn'
      BY <1>1, <1>2, <1>3, <1>4, <1>5, <2>1, <2>2, <2>3, <2>4, <2>5 DEF OneTurn
    <2>10. Known'
      BY <1>1, <1>2, <1>3, <1>4, <1>5, <2>1, <2>2, <2>3, <2>4, <2>5, <2>6 DEF Known
    <2>11. PaneFollows'
      BY <1>1, <1>2, <1>3, <1>4, <1>5, <2>1, <2>2, <2>3, <2>4, <2>5 DEF PaneFollows, Export!Exports
    <2>12. PaneWaits'
      BY <1>1, <1>2, <1>3, <1>4, <1>5, <2>1, <2>2, <2>3, <2>4, <2>5 DEF PaneWaits, Known, PaneFollows
    <2>13. KeptIsShown'
      BY <1>1, <1>2, <1>3, <1>4, <1>5, <2>1, <2>2, <2>3, <2>4, <2>5 DEF KeptIsShown
    <2>14. WrittenIsConfirmed'
      BY <1>1, <1>2, <1>3, <1>4, <1>5, <2>1, <2>2, <2>3, <2>4, <2>5, <2>7 DEF WrittenIsConfirmed, IsTrueOf
    <2>15. Export!ToldAsItWas'
      BY <1>1, <1>2, <1>3, <1>4, <1>5, <2>1, <2>2, <2>3, <2>4, <2>5 DEF Export!ToldAsItWas
    <2> QED BY <2>8, <2>9, <2>10, <2>11, <2>12, <2>13, <2>14, <2>15 DEF ExportInv
  <1>9. CASE Export!IsKept(r) /\ ~isBegun
    <2>1. exporter.pending.req = r /\ exporter.choosing.req = 0 /\ exporter.writing.req = 0
      BY <1>6, <1>9 DEF Export!IsKept
    <2>2. /\ exporter' = [exporter EXCEPT !.pending = Export!Nothing]
          /\ Export!Answer("error", exporter.pending)
      BY <1>9 DEF Export!HostConfirms
    <2> QED BY <1>4, <2>1, <2>2, EndsKept DEF Export!HostConfirms
  <1> QED BY <1>7, <1>8, <1>9

LEMMA HostCancelsKeeps ==
    ASSUME ExportInv, Export!HostCancels, NEW r, r = Head(toExporter).req
    PROVE  ExportInv'
  <1>1. /\ ExportTyped /\ OneTurn /\ Known /\ PaneFollows /\ PaneWaits /\ KeptIsShown /\ WrittenIsConfirmed
        /\ Export!ToldAsItWas
    BY DEF ExportInv
  <1>2. /\ exporter.choosing \in Built /\ exporter.pending \in Built /\ exporter.writing \in Built
        /\ exporter.isDisposed \in BOOLEAN
        /\ exporter = [choosing |-> exporter.choosing, pending |-> exporter.pending,
                       writing |-> exporter.writing, isDisposed |-> exporter.isDisposed]
        /\ \A x, k : IsSentAs(k, x) => IsSent(x)
        /\ \A x, s : AnsweredAs(s, x) => Answered(x)
        /\ \A x, c : AnsweredWith(c, x) => Answered(x)
        /\ pane.status # "idle" => pane.req # 0
    BY <1>1, ExportFacts DEF ExportTyped
  <1>3. /\ r \in Export!Exports /\ IsSentAs("cancel", r) /\ IsSent(r) /\ r # 0
        /\ toExporter' \in Seq(HostMessages) /\ HasOneEach(toExporter')
        /\ \A x : IsSent(x)' <=> IsSent(x) /\ x # r
        /\ \A x, k : IsSentAs(k, x)' <=> IsSentAs(k, x) /\ x # r
        /\ \A k : IsSentAs(k, r) => k = "cancel"
    <2>1. Export!Takes("cancel")
      BY DEF Export!HostCancels
    <2> QED BY <1>1, <2>1, HostTakes DEF Export!Exports
  <1>4. UNCHANGED <<errorCount, pane, outcome, left>>
    BY DEF Export!HostCancels
  <1>5. ~Answered(r) /\ ~InHand(r) /\ ~PaneHas(r)
    BY <1>1, <1>3 DEF OneTurn
  <1>6. CASE Export!IsKept(r)
    <2>1. /\ exporter.pending.req = r /\ exporter' = [exporter EXCEPT !.pending = Export!Nothing]
          /\ Export!Answer("cancelled", exporter.pending) /\ Export!Takes("cancel")
      BY <1>6 DEF Export!HostCancels, Export!IsKept
    <2> QED BY <1>4, <2>1, EndsKept
  <1>7. CASE ~Export!IsKept(r)
    <2>1. exporter' = exporter /\ toPane' = toPane
      BY <1>7 DEF Export!HostCancels
    <2>2. exporter.pending.req # r
      <3> SUFFICES ASSUME exporter.pending.req = r PROVE FALSE
        OBVIOUS
      <3>1. exporter.writing.req # 0 => exporter.writing.req = r
        BY <1>1, <1>3 DEF KeptIsShown
      <3>2. exporter.writing = Export!Nothing
        BY <1>2, <1>5, <3>1, BuiltOrNothing DEF InHand
      <3>3. exporter.pending # Export!Nothing
        BY <1>3 DEF Export!Nothing
      <3>4. ~exporter.isDisposed
        BY <1>1, <1>3 DEF KeptIsShown
      <3> QED BY <1>7, <3>2, <3>3, <3>4 DEF Export!IsKept
    <2>3. /\ \A x : Answered(x)' <=> Answered(x)
          /\ \A x, s : AnsweredAs(s, x)' <=> AnsweredAs(s, x)
          /\ \A x, c : AnsweredWith(c, x)' <=> AnsweredWith(c, x)
      BY <2>1, QuietPane
    <2>4. \A x : (InHand(x)' <=> InHand(x)) /\ (PaneHas(x)' <=> PaneHas(x))
      BY <1>4, <2>1 DEF InHand, PaneHas
    <2>5. pane.req = r => pane.status = "cancelled"
      BY <1>1, <1>3 DEF PaneFollows, Known
    <2>6. ExportTyped'
      BY <1>1, <1>2, <1>3, <1>4, <2>1, <2>2, <2>3 DEF ExportTyped
    <2>7. OneTurn'
      BY <1>1, <1>2, <1>3, <1>4, <2>1, <2>2, <2>3, <2>4 DEF OneTurn
    <2>8. Known'
      BY <1>1, <1>2, <1>3, <1>4, <2>1, <2>2, <2>3, <2>4 DEF Known
    <2>9. PaneFollows'
      BY <1>1, <1>2, <1>3, <1>4, <2>1, <2>2, <2>3 DEF PaneFollows
    <2>10. PaneWaits'
      BY <1>1, <1>2, <1>3, <1>4, <2>1, <2>2, <2>3, <2>5 DEF PaneWaits
    <2>11. KeptIsShown'
      BY <1>1, <1>2, <1>3, <1>4, <2>1, <2>2, <2>3, <2>4 DEF KeptIsShown
    <2>12. WrittenIsConfirmed'
      BY <1>1, <1>2, <1>3, <1>4, <2>1, <2>2, <2>3, <2>4 DEF WrittenIsConfirmed, IsTrueOf
    <2>13. Export!ToldAsItWas'
      BY <1>1, <1>2, <1>3, <1>4, <2>1, <2>2, <2>3 DEF Export!ToldAsItWas
    <2> QED BY <2>6, <2>7, <2>8, <2>9, <2>10, <2>11, <2>12, <2>13 DEF ExportInv
  <1> QED BY <1>6, <1>7

LEMMA HostWroteKeeps ==
    ASSUME ExportInv, NEW isWritten \in BOOLEAN, Export!HostWrote(isWritten),
           NEW r, r = exporter.writing.req
    PROVE  ExportInv'
  <1>1. /\ ExportTyped /\ OneTurn /\ Known /\ PaneFollows /\ PaneWaits /\ KeptIsShown /\ WrittenIsConfirmed
        /\ Export!ToldAsItWas
    BY DEF ExportInv
  <1>2. /\ exporter.choosing \in Built /\ exporter.pending \in Built /\ exporter.writing \in Built
        /\ exporter.isDisposed \in BOOLEAN
        /\ exporter = [choosing |-> exporter.choosing, pending |-> exporter.pending,
                       writing |-> exporter.writing, isDisposed |-> exporter.isDisposed]
        /\ \A x, k : IsSentAs(k, x) => IsSent(x)
        /\ \A x, s : AnsweredAs(s, x) => Answered(x)
        /\ \A x, c : AnsweredWith(c, x) => Answered(x)
        /\ pane.status # "idle" => pane.req # 0
    BY <1>1, ExportFacts DEF ExportTyped
  <1>3. r # 0 /\ r \in Nat /\ exporter.writing.content \in Nat /\ exporter.writing.req = r
    BY <1>2, BuiltOrNothing DEF Export!HostWrote
  <1>4. r \in Export!Exports /\ InHand(r) /\ exporter.choosing.req = 0
    <2>1. r <= left.asked /\ left.asked <= MaxExports /\ left.asked \in Int
      BY <1>1, ExportsAssumption DEF Known
    <2>2. r \in Export!Exports
      BY <1>3, <2>1, ExportsAssumption DEF Export!Exports
    <2> QED BY <1>1, <1>3, <2>2 DEF OneTurn, InHand
  <1>5. ~Answered(r) /\ ~IsSent(r) /\ ~PaneHas(r)
    BY <1>1, <1>4 DEF OneTurn
  <1>6. /\ UNCHANGED <<errorCount, pane, toExporter, left>>
        /\ exporter' = [exporter EXCEPT !.writing = Export!Nothing, !.pending = Export!Nothing]
        /\ outcome' = IF isWritten THEN [outcome EXCEPT ![r].written = exporter.writing.content] ELSE outcome
    BY DEF Export!HostWrote
  <1>7. /\ \A x : IsSent(x)' <=> IsSent(x)
        /\ \A x, k : IsSentAs(k, x)' <=> IsSentAs(k, x)
    BY <1>6, QuietHost
  <1>8. /\ exporter'.pending.req = 0 /\ exporter'.writing.req = 0
        /\ exporter'.choosing = exporter.choosing /\ exporter'.isDisposed = exporter.isDisposed
        /\ exporter' \in [choosing : Built, pending : Built, writing : Built, isDisposed : BOOLEAN]
    BY <1>2, <1>6 DEF Built, Export!Nothing
  <1>9. \A x \in Export!Exports : ~InHand(x)' /\ (InHand(x) <=> x = r) /\ (PaneHas(x)' <=> PaneHas(x))
    BY <1>3, <1>4, <1>6, <1>8 DEF InHand, PaneHas, Export!Exports
  <1>10. /\ outcome' \in [Export!Exports -> [shown : Nat \cup {-1}, isConfirmed : BOOLEAN, written : Nat \cup {-1}]]
         /\ \A x \in Export!Exports : /\ outcome'[x].shown = outcome[x].shown
                                      /\ outcome'[x].isConfirmed = outcome[x].isConfirmed
                                      /\ x # r => outcome'[x].written = outcome[x].written
         /\ IF isWritten THEN outcome'[r].written = exporter.writing.content ELSE outcome'[r].written = outcome[r].written
    BY <1>1, <1>3, <1>4, <1>6 DEF ExportTyped
  <1>11. /\ outcome[r].written = -1 /\ outcome[r].isConfirmed /\ outcome[r].shown = exporter.writing.content
         /\ outcome'[r].written \in {-1, exporter.writing.content}
         /\ isWritten => outcome'[r].written # -1
         /\ ~isWritten => outcome'[r].written = -1
    BY <1>1, <1>3, <1>4, <1>10 DEF WrittenIsConfirmed, IsTrueOf
  <1>12. pane.req = r => pane.status = "exporting" /\ ~exporter.isDisposed
    BY <1>1, <1>3, <1>4 DEF PaneFollows, Known
  <1>13. CASE exporter.isDisposed
    <2>1. toPane' = toPane
      BY <1>13 DEF Export!HostWrote
    <2>2. /\ \A x : Answered(x)' <=> Answered(x)
          /\ \A x, s : AnsweredAs(s, x)' <=> AnsweredAs(s, x)
          /\ \A x, c : AnsweredWith(c, x)' <=> AnsweredWith(c, x)
      BY <2>1, QuietPane
    <2>3. \A s : ~AnsweredAs(s, r)
      BY <1>2, <1>5
    <2>4. ExportTyped'
      BY <1>1, <1>2, <1>3, <1>4, <1>5, <1>6, <1>7, <1>8, <1>9, <1>10, <1>11, <1>12, <1>13, <2>1 DEF ExportTyped
    <2>5. OneTurn'
      BY <1>1, <1>2, <1>3, <1>4, <1>5, <1>6, <1>7, <1>8, <1>9, <1>10, <1>11, <1>12, <1>13, <2>1, <2>2 DEF OneTurn
    <2>6. Known'
      BY <1>1, <1>2, <1>3, <1>4, <1>5, <1>6, <1>7, <1>8, <1>9, <1>10, <1>11, <1>12, <1>13, <2>1, <2>2 DEF Known
    <2>7. PaneFollows'
      BY <1>1, <1>2, <1>3, <1>4, <1>5, <1>6, <1>7, <1>8, <1>9, <1>10, <1>11, <1>12, <1>13, <2>1, <2>2 DEF PaneFollows, Export!Exports
    <2>8. PaneWaits'
      BY <1>1, <1>2, <1>3, <1>4, <1>5, <1>6, <1>7, <1>8, <1>9, <1>10, <1>11, <1>12, <1>13, <2>1, <2>2 DEF PaneWaits
    <2>9. KeptIsShown'
      BY <1>1, <1>2, <1>3, <1>4, <1>5, <1>6, <1>7, <1>8, <1>9, <1>10, <1>11, <1>12, <1>13, <2>1 DEF KeptIsShown, Export!Exports
    <2>10. WrittenIsConfirmed'
      <3> SUFFICES ASSUME NEW x \in Export!Exports PROVE IsTrueOf(x)'
        BY DEF WrittenIsConfirmed
      <3>1. IsTrueOf(x) /\ x # 0
        BY <1>1 DEF WrittenIsConfirmed, Export!Exports
      <3>2. exporter'.writing.req # x /\ ~InHand(x)'
        BY <1>8, <1>9, <3>1
      <3>3. CASE x # r
        BY <1>7, <1>9, <1>10, <2>2, <3>1, <3>2, <3>3 DEF IsTrueOf
      <3>4. CASE x = r
        <4>1. ~IsSent(r)' /\ ~PaneHas(r)' /\ ~IsSentAs("confirm", r)'
          BY <1>2, <1>4, <1>5, <1>7, <1>9
        <4>2. outcome'[r].isConfirmed /\ outcome'[r].shown = exporter.writing.content
          BY <1>4, <1>10, <1>11
        <4> QED BY <1>11, <2>2, <2>3, <3>2, <3>4, <4>1, <4>2 DEF IsTrueOf
      <3> QED BY <3>3, <3>4
    <2>11. Export!ToldAsItWas'
      BY <1>1, <1>2, <1>3, <1>4, <1>5, <1>6, <1>7, <1>8, <1>9, <1>10, <1>11, <1>12, <1>13, <2>1 DEF Export!ToldAsItWas
    <2> QED BY <2>4, <2>5, <2>6, <2>7, <2>8, <2>9, <2>10, <2>11 DEF ExportInv
  <1>14. CASE ~exporter.isDisposed
    <2> DEFINE verdict == IF isWritten THEN "completed" ELSE "error"
    <2>1. Export!Answer(verdict, exporter.writing)
      BY <1>14 DEF Export!HostWrote
    <2>2. [status |-> verdict, req |-> exporter.writing.req, content |-> exporter.writing.content] \in PaneMessages
      BY <1>3, <1>4 DEF PaneMessages
    <2>3. verdict \in {"completed", "error"} /\ (verdict = "completed" => isWritten) /\ (isWritten => verdict = "completed")
      OBVIOUS
    <2> HIDE DEF verdict
    <2>4. /\ toPane' \in Seq(PaneMessages) /\ HasOneEach(toPane')
          /\ \A x : Answered(x)' <=> Answered(x) \/ x = r
          /\ \A x, s : AnsweredAs(s, x)' <=> AnsweredAs(s, x) \/ (x = r /\ s = verdict)
          /\ \A x, c : AnsweredWith(c, x)' <=> AnsweredWith(c, x)
      BY <1>1, <1>3, <1>5, <2>1, <2>2, <2>3, HostAnswers
    <2>5. \A s : AnsweredAs(s, r)' <=> s = verdict
      BY <1>2, <1>5, <2>4
    <2>6. verdict = "completed" <=> outcome'[r].written # -1
      BY <1>11, <2>3
    <2>7. ExportTyped'
      BY <1>1, <1>2, <1>3, <1>4, <1>5, <1>6, <1>7, <1>8, <1>9, <1>10, <1>11, <1>12, <2>3, <2>4 DEF ExportTyped
    <2>8. OneTurn'
      BY <1>1, <1>2, <1>3, <1>4, <1>5, <1>6, <1>7, <1>8, <1>9, <1>10, <1>11, <1>12, <2>3, <2>4 DEF OneTurn
    <2>9. Known'
      BY <1>1, <1>2, <1>3, <1>4, <1>5, <1>6, <1>7, <1>8, <1>9, <1>10, <1>11, <1>12, <2>3, <2>4 DEF Known
    <2>10. PaneFollows'
      BY <1>1, <1>2, <1>3, <1>4, <1>5, <1>6, <1>7, <1>8, <1>9, <1>10, <1>11, <1>12, <2>3, <2>4 DEF PaneFollows, Export!Exports
    <2>11. PaneWaits'
      BY <1>1, <1>2, <1>3, <1>4, <1>5, <1>6, <1>7, <1>8, <1>9, <1>10, <1>11, <1>12, <2>3, <2>4 DEF PaneWaits
    <2>12. KeptIsShown'
      BY <1>1, <1>2, <1>3, <1>4, <1>5, <1>6, <1>7, <1>8, <1>9, <1>10, <1>11, <1>12, <2>3, <2>4 DEF KeptIsShown, Export!Exports
    <2>13. WrittenIsConfirmed'
      <3> SUFFICES ASSUME NEW x \in Export!Exports PROVE IsTrueOf(x)'
        BY DEF WrittenIsConfirmed
      <3>1. IsTrueOf(x) /\ x # 0
        BY <1>1 DEF WrittenIsConfirmed, Export!Exports
      <3>2. exporter'.writing.req # x /\ ~InHand(x)'
        BY <1>8, <1>9, <3>1
      <3>3. CASE x # r
        BY <1>7, <1>9, <1>10, <2>4, <3>1, <3>2, <3>3 DEF IsTrueOf
      <3>4. CASE x = r
        <4>1. ~IsSent(r)' /\ ~PaneHas(r)' /\ ~IsSentAs("confirm", r)'
          BY <1>2, <1>4, <1>5, <1>7, <1>9
        <4>2. outcome'[r].isConfirmed /\ outcome'[r].shown = exporter.writing.content
          BY <1>4, <1>10, <1>11
        <4> QED BY <1>11, <2>5, <2>6, <3>2, <3>4, <4>1, <4>2 DEF IsTrueOf
      <3> QED BY <3>3, <3>4
    <2>14. Export!ToldAsItWas'
      BY <1>1, <1>2, <1>3, <1>4, <1>5, <1>6, <1>7, <1>8, <1>9, <1>10, <1>11, <1>12, <2>3, <2>4 DEF Export!ToldAsItWas
    <2> QED BY <2>7, <2>8, <2>9, <2>10, <2>11, <2>12, <2>13, <2>14 DEF ExportInv
  <1> QED BY <1>13, <1>14

\* The pane asks for an export, with an id that nothing is known of.
LEMMA StartKeepsExport ==
    ASSUME ExportInv, Export!Start, NEW r, r = left.asked + 1
    PROVE  ExportInv'
  <1>1. /\ ExportTyped /\ OneTurn /\ Known /\ PaneFollows /\ PaneWaits /\ KeptIsShown /\ WrittenIsConfirmed
        /\ Export!ToldAsItWas
    BY DEF ExportInv
  <1>2. /\ exporter.choosing \in Built /\ exporter.pending \in Built /\ exporter.writing \in Built
        /\ exporter.isDisposed \in BOOLEAN
        /\ exporter = [choosing |-> exporter.choosing, pending |-> exporter.pending,
                       writing |-> exporter.writing, isDisposed |-> exporter.isDisposed]
        /\ \A x, k : IsSentAs(k, x) => IsSent(x)
        /\ \A x, s : AnsweredAs(s, x) => Answered(x)
        /\ \A x, c : AnsweredWith(c, x) => Answered(x)
        /\ pane.status # "idle" => pane.req # 0
    BY <1>1, ExportFacts DEF ExportTyped
  <1>3. /\ left.asked \in Nat /\ left.asked <= MaxExports /\ left.times \in Nat /\ left.exports \subseteq Nat
        /\ pane \in [status : PaneStatuses, req : Nat, content : Nat \cup {-1}]
    BY <1>1, ExportsAssumption DEF ExportTyped, Known
  <1>4. /\ pane.status \notin {"preparing", "ready", "exporting"} /\ left.asked < MaxExports
        /\ left' = [left EXCEPT !.asked = r] /\ pane' = [status |-> "preparing", req |-> r, content |-> -1]
        /\ Export!Asks("request", r) /\ UNCHANGED <<exporter, errorCount, toPane, outcome>>
    BY <1>1 DEF Export!Start, Export!Idle, ExportTyped
  <1>5. /\ left'.asked = r /\ left'.exports = left.exports /\ left' \in [asked : Nat, times : Nat, exports : SUBSET Nat]
        /\ pane'.status = "preparing" /\ pane'.req = r /\ pane' \in [status : PaneStatuses, req : Nat, content : Nat \cup {-1}]
    BY <1>1, <1>3, <1>4 DEF ExportTyped, PaneStatuses
  <1>6. r \in Export!Exports /\ r # 0 /\ r \in Nat /\ r > left.asked
    BY <1>3, <1>4, ExportsAssumption DEF Export!Exports
  <1>7. /\ ~IsSent(r) /\ ~Answered(r) /\ ~InHand(r) /\ r \notin left.exports /\ pane.req # r
        /\ exporter.pending.req # r /\ outcome[r].written = -1
    <2>1. ~(r <= left.asked)
      BY <1>3, <1>6
    <2>2. ~IsSent(r) /\ ~Answered(r) /\ outcome[r].written = -1
      BY <1>1, <1>6, <2>1 DEF Known
    <2>3. exporter.choosing.req # r /\ exporter.pending.req # r /\ exporter.writing.req # r
      BY <1>1, <2>1 DEF Known
    <2>4. r \notin left.exports /\ pane.req # r
      BY <1>1, <1>3, <1>6, <2>1 DEF Known
    <2> QED BY <2>2, <2>3, <2>4 DEF InHand
  <1>8. /\ toExporter' \in Seq(HostMessages) /\ HasOneEach(toExporter')
        /\ \A x : IsSent(x)' <=> IsSent(x) \/ x = r
        /\ \A x, k : IsSentAs(k, x)' <=> IsSentAs(k, x) \/ (x = r /\ k = "request")
    BY <1>1, <1>4, <1>6, <1>7, PaneAsks
  <1>9. /\ \A x : Answered(x)' <=> Answered(x)
        /\ \A x, s : AnsweredAs(s, x)' <=> AnsweredAs(s, x)
        /\ \A x, c : AnsweredWith(c, x)' <=> AnsweredWith(c, x)
    BY <1>4, QuietPane
  <1>10. \A x : (InHand(x)' <=> InHand(x)) /\ ~PaneHas(x)' /\ ~PaneHas(x)
    BY <1>4, <1>5 DEF InHand, PaneHas
  <1>11. \A x \in Export!Exports : x \in Nat /\ (x <= left.asked => x <= r) /\ (x > r => x > left.asked)
    BY <1>3, <1>6 DEF Export!Exports
  <1>12. ExportTyped'
    BY <1>1, <1>2, <1>3, <1>4, <1>5, <1>6, <1>7, <1>8, <1>9 DEF ExportTyped
  <1>13. OneTurn'
    BY <1>1, <1>2, <1>3, <1>4, <1>5, <1>6, <1>7, <1>8, <1>9, <1>10 DEF OneTurn
  <1>14. Known'
    <2>1. r \in 0 .. MaxExports /\ left.exports \subseteq 1 .. r /\ r \notin left.exports
      BY <1>1, <1>3, <1>4, ExportsAssumption DEF Known
    <2>2. /\ exporter.choosing.req <= r /\ exporter.pending.req <= r /\ exporter.writing.req <= r
      BY <1>1, <1>2, <1>3, <1>6, BuiltOrNothing DEF Known
    <2>3. \A x \in Export!Exports : (IsSent(x) \/ Answered(x))' => x <= r
      BY <1>1, <1>6, <1>8, <1>9, <1>11 DEF Known
    <2>4. \A x \in Export!Exports : x > r => outcome[x].written = -1
      BY <1>1, <1>11 DEF Known
    <2>5. exporter.isDisposed => \A x \in Export!Exports : InHand(x) => x \in left.exports
      BY <1>1 DEF Known
    <2> QED BY <1>4, <1>5, <1>6, <1>10, <2>1, <2>2, <2>3, <2>4, <2>5 DEF Known
  <1>15. PaneFollows'
    BY <1>1, <1>2, <1>3, <1>4, <1>5, <1>6, <1>7, <1>8, <1>9 DEF PaneFollows, Export!Exports
  <1>16. PaneWaits'
    BY <1>1, <1>2, <1>3, <1>4, <1>5, <1>6, <1>7, <1>8, <1>9 DEF PaneWaits
  <1>17. KeptIsShown'
    BY <1>1, <1>2, <1>3, <1>4, <1>5, <1>6, <1>7, <1>8, <1>9, <1>10 DEF KeptIsShown, Export!Exports
  <1>18. WrittenIsConfirmed'
    BY <1>1, <1>2, <1>3, <1>4, <1>5, <1>6, <1>7, <1>8, <1>9, <1>10 DEF WrittenIsConfirmed, IsTrueOf
  <1>19. Export!ToldAsItWas'
    BY <1>1, <1>2, <1>3, <1>4, <1>5, <1>6, <1>7, <1>8, <1>9 DEF Export!ToldAsItWas
  <1> QED BY <1>12, <1>13, <1>14, <1>15, <1>16, <1>17, <1>18, <1>19 DEF ExportInv

LEMMA ConfirmKeepsExport ==
    ASSUME ExportInv, Export!Confirm, NEW r, r = pane.req
    PROVE  ExportInv'
  <1>1. /\ ExportTyped /\ OneTurn /\ Known /\ PaneFollows /\ PaneWaits /\ KeptIsShown /\ WrittenIsConfirmed
        /\ Export!ToldAsItWas
    BY DEF ExportInv
  <1>2. /\ exporter.choosing \in Built /\ exporter.pending \in Built /\ exporter.writing \in Built
        /\ exporter.isDisposed \in BOOLEAN
        /\ exporter = [choosing |-> exporter.choosing, pending |-> exporter.pending,
                       writing |-> exporter.writing, isDisposed |-> exporter.isDisposed]
        /\ \A x, k : IsSentAs(k, x) => IsSent(x)
        /\ \A x, s : AnsweredAs(s, x) => Answered(x)
        /\ \A x, c : AnsweredWith(c, x) => Answered(x)
        /\ pane.status # "idle" => pane.req # 0
    BY <1>1, ExportFacts DEF ExportTyped
  <1>3. /\ left.asked \in Nat /\ left.asked <= MaxExports /\ left.times \in Nat /\ left.exports \subseteq Nat
        /\ pane \in [status : PaneStatuses, req : Nat, content : Nat \cup {-1}]
    BY <1>1, ExportsAssumption DEF ExportTyped, Known
  <1>4. r \in Export!Exports /\ r # 0 /\ pane.req = r /\ pane.status = "ready" /\ r \notin left.exports
    <2>1. pane.status = "ready" /\ pane.req # 0 /\ pane.req \in 0 .. left.asked
      BY <1>1, <1>2 DEF Known, Export!Confirm
    <2> QED BY <1>1, <1>3, <2>1, ExportsAssumption DEF Known, Export!Exports
  <1>5. ~IsSent(r) /\ ~Answered(r) /\ ~InHand(r) /\ PaneHas(r) /\ outcome[r].written = -1
    <2>1. PaneHas(r)
      BY <1>4 DEF PaneHas
    <2>2. ~IsSent(r) /\ ~Answered(r) /\ ~InHand(r)
      BY <1>1, <1>4, <2>1 DEF OneTurn
    <2> QED BY <1>1, <1>4, <2>1, <2>2 DEF WrittenIsConfirmed, IsTrueOf
  <1>6. /\ pane' = [pane EXCEPT !.status = "exporting"] /\ Export!Asks("confirm", r)
        /\ UNCHANGED <<exporter, errorCount, toPane, left>>
    BY DEF Export!Confirm
  <1>7. /\ pane'.status = "exporting" /\ pane'.req = r
        /\ pane' \in [status : PaneStatuses, req : Nat, content : Nat \cup {-1}]
    BY <1>3, <1>4, <1>6 DEF PaneStatuses
  <1>8. /\ toExporter' \in Seq(HostMessages) /\ HasOneEach(toExporter')
        /\ \A x : IsSent(x)' <=> IsSent(x) \/ x = r
        /\ \A x, k : IsSentAs(k, x)' <=> IsSentAs(k, x) \/ (x = r /\ k = "confirm")
    BY <1>1, <1>4, <1>5, <1>6, PaneAsks
  <1>9. /\ \A x : Answered(x)' <=> Answered(x)
        /\ \A x, s : AnsweredAs(s, x)' <=> AnsweredAs(s, x)
        /\ \A x, c : AnsweredWith(c, x)' <=> AnsweredWith(c, x)
    BY <1>6, QuietPane
  <1>10. \A x : (InHand(x)' <=> InHand(x)) /\ ~PaneHas(x)' /\ (PaneHas(x) <=> x = r)
    BY <1>4, <1>6, <1>7 DEF InHand, PaneHas
  <1>11. /\ outcome' \in [Export!Exports -> [shown : Nat \cup {-1}, isConfirmed : BOOLEAN, written : Nat \cup {-1}]]
         /\ \A x \in Export!Exports : /\ outcome'[x].shown = outcome[x].shown /\ outcome'[x].written = outcome[x].written
                                      /\ x # r => outcome'[x].isConfirmed = outcome[x].isConfirmed
         /\ outcome'[r].isConfirmed
    <2>1. outcome' = [outcome EXCEPT ![r].isConfirmed = TRUE] /\ outcome \in [Export!Exports -> [shown : Nat \cup {-1}, isConfirmed : BOOLEAN, written : Nat \cup {-1}]]
      BY <1>1 DEF Export!Confirm, ExportTyped
    <2> QED BY <1>4, <2>1
  <1>12. ExportTyped'
    BY <1>1, <1>2, <1>3, <1>4, <1>5, <1>6, <1>7, <1>8, <1>9, <1>11 DEF ExportTyped
  <1>13. OneTurn'
    BY <1>1, <1>2, <1>3, <1>4, <1>5, <1>6, <1>7, <1>8, <1>9, <1>10 DEF OneTurn
  <1>14. Known'
    <2>1. r \in 0 .. left.asked
      BY <1>1 DEF Known
    <2>2. \A x \in Export!Exports : (IsSent(x) \/ Answered(x))' => x <= left.asked
      BY <1>1, <1>8, <1>9, <2>1 DEF Known
    <2>3. \A x \in Export!Exports : x > left.asked => outcome'[x].written = -1
      BY <1>1, <1>11 DEF Known
    <2> QED BY <1>1, <1>4, <1>6, <1>7, <1>10, <2>1, <2>2, <2>3 DEF Known
  <1>15. PaneFollows'
    BY <1>1, <1>2, <1>3, <1>4, <1>5, <1>6, <1>7, <1>8, <1>9 DEF PaneFollows, Export!Exports
  <1>16. PaneWaits'
    BY <1>1, <1>2, <1>3, <1>4, <1>5, <1>6, <1>7, <1>8, <1>9 DEF PaneWaits
  <1>17. KeptIsShown'
    BY <1>1, <1>2, <1>3, <1>4, <1>5, <1>6, <1>7, <1>8, <1>9, <1>10, <1>11 DEF KeptIsShown, Export!Exports
  <1>18. WrittenIsConfirmed'
    BY <1>1, <1>2, <1>3, <1>4, <1>5, <1>6, <1>7, <1>8, <1>9, <1>10, <1>11 DEF WrittenIsConfirmed, IsTrueOf
  <1>19. Export!ToldAsItWas'
    BY <1>1, <1>2, <1>3, <1>4, <1>5, <1>6, <1>7, <1>8, <1>9 DEF Export!ToldAsItWas
  <1> QED BY <1>12, <1>13, <1>14, <1>15, <1>16, <1>17, <1>18, <1>19 DEF ExportInv

LEMMA CancelKeepsExport ==
    ASSUME ExportInv, Export!Cancel, NEW r, r = pane.req
    PROVE  ExportInv'
  <1>1. /\ ExportTyped /\ OneTurn /\ Known /\ PaneFollows /\ PaneWaits /\ KeptIsShown /\ WrittenIsConfirmed
        /\ Export!ToldAsItWas
    BY DEF ExportInv
  <1>2. /\ exporter.choosing \in Built /\ exporter.pending \in Built /\ exporter.writing \in Built
        /\ exporter.isDisposed \in BOOLEAN
        /\ exporter = [choosing |-> exporter.choosing, pending |-> exporter.pending,
                       writing |-> exporter.writing, isDisposed |-> exporter.isDisposed]
        /\ \A x, k : IsSentAs(k, x) => IsSent(x)
        /\ \A x, s : AnsweredAs(s, x) => Answered(x)
        /\ \A x, c : AnsweredWith(c, x) => Answered(x)
        /\ pane.status # "idle" => pane.req # 0
    BY <1>1, ExportFacts DEF ExportTyped
  <1>3. /\ left.asked \in Nat /\ left.asked <= MaxExports /\ left.times \in Nat /\ left.exports \subseteq Nat
        /\ pane \in [status : PaneStatuses, req : Nat, content : Nat \cup {-1}]
    BY <1>1, ExportsAssumption DEF ExportTyped, Known
  <1>4. r \in Export!Exports /\ r # 0 /\ pane.req = r /\ pane.status = "ready" /\ r \notin left.exports
    <2>1. pane.status = "ready" /\ pane.req # 0 /\ pane.req \in 0 .. left.asked
      BY <1>1, <1>2 DEF Known, Export!Cancel
    <2> QED BY <1>1, <1>3, <2>1, ExportsAssumption DEF Known, Export!Exports
  <1>5. ~IsSent(r) /\ ~Answered(r) /\ ~InHand(r) /\ PaneHas(r) /\ outcome[r].written = -1
    <2>1. PaneHas(r)
      BY <1>4 DEF PaneHas
    <2>2. ~IsSent(r) /\ ~Answered(r) /\ ~InHand(r)
      BY <1>1, <1>4, <2>1 DEF OneTurn
    <2> QED BY <1>1, <1>4, <2>1, <2>2 DEF WrittenIsConfirmed, IsTrueOf
  <1>6. /\ pane' = [pane EXCEPT !.status = "cancelled"] /\ Export!Asks("cancel", r)
        /\ UNCHANGED <<exporter, errorCount, toPane, left>>
    BY DEF Export!Cancel
  <1>7. /\ pane'.status = "cancelled" /\ pane'.req = r
        /\ pane' \in [status : PaneStatuses, req : Nat, content : Nat \cup {-1}]
    BY <1>3, <1>4, <1>6 DEF PaneStatuses
  <1>8. /\ toExporter' \in Seq(HostMessages) /\ HasOneEach(toExporter')
        /\ \A x : IsSent(x)' <=> IsSent(x) \/ x = r
        /\ \A x, k : IsSentAs(k, x)' <=> IsSentAs(k, x) \/ (x = r /\ k = "cancel")
    BY <1>1, <1>4, <1>5, <1>6, PaneAsks
  <1>9. /\ \A x : Answered(x)' <=> Answered(x)
        /\ \A x, s : AnsweredAs(s, x)' <=> AnsweredAs(s, x)
        /\ \A x, c : AnsweredWith(c, x)' <=> AnsweredWith(c, x)
    BY <1>6, QuietPane
  <1>10. \A x : (InHand(x)' <=> InHand(x)) /\ ~PaneHas(x)' /\ (PaneHas(x) <=> x = r)
    BY <1>4, <1>6, <1>7 DEF InHand, PaneHas
  <1>11. outcome' = outcome
    BY DEF Export!Cancel
  <1>12. ExportTyped'
    BY <1>1, <1>2, <1>3, <1>4, <1>5, <1>6, <1>7, <1>8, <1>9, <1>11 DEF ExportTyped
  <1>13. OneTurn'
    BY <1>1, <1>2, <1>3, <1>4, <1>5, <1>6, <1>7, <1>8, <1>9, <1>10 DEF OneTurn
  <1>14. Known'
    BY <1>1, <1>2, <1>3, <1>4, <1>5, <1>6, <1>7, <1>8, <1>9, <1>10, <1>11 DEF Known
  <1>15. PaneFollows'
    BY <1>1, <1>2, <1>3, <1>4, <1>5, <1>6, <1>7, <1>8, <1>9 DEF PaneFollows, Export!Exports
  <1>16. PaneWaits'
    BY <1>1, <1>2, <1>3, <1>4, <1>5, <1>6, <1>7, <1>8, <1>9 DEF PaneWaits
  <1>17. KeptIsShown'
    BY <1>1, <1>2, <1>3, <1>4, <1>5, <1>6, <1>7, <1>8, <1>9, <1>10, <1>11 DEF KeptIsShown, Export!Exports
  <1>18. WrittenIsConfirmed'
    BY <1>1, <1>2, <1>3, <1>4, <1>5, <1>6, <1>7, <1>8, <1>9, <1>10, <1>11 DEF WrittenIsConfirmed, IsTrueOf
  <1>19. Export!ToldAsItWas'
    BY <1>1, <1>2, <1>3, <1>4, <1>5, <1>6, <1>7, <1>8, <1>9, <1>11 DEF Export!ToldAsItWas
  <1> QED BY <1>12, <1>13, <1>14, <1>15, <1>16, <1>17, <1>18, <1>19 DEF ExportInv

LEMMA ReceiveKeepsExport ==
    ASSUME ExportInv, Export!Receive, NEW message, message = Head(toPane), NEW r, r = message.req
    PROVE  ExportInv'
  <1>1. /\ ExportTyped /\ OneTurn /\ Known /\ PaneFollows /\ PaneWaits /\ KeptIsShown /\ WrittenIsConfirmed
        /\ Export!ToldAsItWas
    BY DEF ExportInv
  <1>2. /\ exporter.choosing \in Built /\ exporter.pending \in Built /\ exporter.writing \in Built
        /\ exporter.isDisposed \in BOOLEAN
        /\ exporter = [choosing |-> exporter.choosing, pending |-> exporter.pending,
                       writing |-> exporter.writing, isDisposed |-> exporter.isDisposed]
        /\ \A x, k : IsSentAs(k, x) => IsSent(x)
        /\ \A x, s : AnsweredAs(s, x) => Answered(x)
        /\ \A x, c : AnsweredWith(c, x) => Answered(x)
        /\ pane.status # "idle" => pane.req # 0
    BY <1>1, ExportFacts DEF ExportTyped
  <1>3. /\ left.asked \in Nat /\ left.asked <= MaxExports /\ left.times \in Nat /\ left.exports \subseteq Nat
        /\ pane \in [status : PaneStatuses, req : Nat, content : Nat \cup {-1}]
    BY <1>1, ExportsAssumption DEF ExportTyped, Known
  <1>4. /\ toPane # <<>> /\ toPane' = Tail(toPane) /\ UNCHANGED <<exporter, errorCount, toExporter, left>>
    BY DEF Export!Receive
  <1>5. /\ toPane' \in Seq(PaneMessages) /\ HasOneEach(toPane') /\ message \in PaneMessages
        /\ r \in Export!Exports /\ Answered(r) /\ AnsweredAs(message.status, r)
        /\ message.status = "ready" => AnsweredWith(message.content, r)
        /\ \A s : AnsweredAs(s, r) => s = message.status
        /\ \A x : Answered(x)' <=> Answered(x) /\ x # r
        /\ \A x, s : AnsweredAs(s, x)' <=> AnsweredAs(s, x) /\ x # r
        /\ \A x, c : AnsweredWith(c, x)' <=> AnsweredWith(c, x) /\ x # r
    BY <1>1, <1>4, PaneTakes
  <1>6. ~IsSent(r) /\ ~InHand(r) /\ ~PaneHas(r) /\ r # 0
    BY <1>1, <1>5 DEF OneTurn, Export!Exports
  <1>7. /\ \A x : IsSent(x)' <=> IsSent(x)
        /\ \A x, k : IsSentAs(k, x)' <=> IsSentAs(k, x)
    BY <1>4, QuietHost
  <1>8. \A x : InHand(x)' <=> InHand(x)
    BY <1>4 DEF InHand
  <1>9. CASE r # pane.req
    <2>1. pane' = pane /\ outcome' = outcome
      BY <1>9 DEF Export!Receive, Export!IsForPane
    <2>2. \A x : PaneHas(x)' <=> PaneHas(x)
      BY <2>1 DEF PaneHas
    \* What was ready for an export that is not the pane's was left.
    <2>3. AnsweredAs("ready", r) => r \in left.exports
      BY <1>1, <1>5, <1>9 DEF PaneFollows
    <2>4. ExportTyped'
      BY <1>1, <1>2, <1>3, <1>4, <1>5, <1>6, <1>7, <1>8, <1>9, <2>1 DEF ExportTyped
    <2>5. OneTurn'
      BY <1>1, <1>2, <1>3, <1>4, <1>5, <1>6, <1>7, <1>8, <1>9, <2>1, <2>2 DEF OneTurn
    <2>6. Known'
      BY <1>1, <1>2, <1>3, <1>4, <1>5, <1>6, <1>7, <1>8, <1>9, <2>1 DEF Known
    <2>7. PaneFollows'
      BY <1>1, <1>2, <1>3, <1>4, <1>5, <1>6, <1>7, <1>8, <1>9, <2>1 DEF PaneFollows, Export!Exports
    <2>8. PaneWaits'
      BY <1>1, <1>2, <1>3, <1>4, <1>5, <1>6, <1>7, <1>8, <1>9, <2>1 DEF PaneWaits
    <2>9. KeptIsShown'
      BY <1>1, <1>2, <1>3, <1>4, <1>5, <1>6, <1>7, <1>8, <1>9, <2>1, <2>2, <2>3 DEF KeptIsShown, Export!Exports
    <2>10. WrittenIsConfirmed'
      BY <1>1, <1>2, <1>3, <1>4, <1>5, <1>6, <1>7, <1>8, <1>9, <2>1, <2>2 DEF WrittenIsConfirmed, IsTrueOf
    <2>11. Export!ToldAsItWas'
      BY <1>1, <1>2, <1>3, <1>4, <1>5, <1>6, <1>7, <1>8, <1>9, <2>1 DEF Export!ToldAsItWas
    <2> QED BY <2>4, <2>5, <2>6, <2>7, <2>8, <2>9, <2>10, <2>11 DEF ExportInv
  <1>10. CASE r = pane.req
    <2>1. r \notin left.exports /\ pane.req = r
      BY <1>1, <1>10 DEF Known
    \* Of the exports that were not left, nothing is under way but this answer.
    <2>2. \A x \in Export!Exports \ left.exports :
             /\ ~IsSentAs("request", x) /\ ~IsSentAs("confirm", x)
             /\ exporter.choosing.req # x /\ exporter.writing.req # x
             /\ x # r => ~AnsweredAs("ready", x)
      BY <1>1, <1>2, <1>6, <2>1 DEF PaneFollows, InHand
    <2>3. \A x : ~PaneHas(x)
      BY <1>6, <2>1 DEF PaneHas
    <2>4. CASE message.status = "ready"
      <3>1. /\ pane' = [pane EXCEPT !.status = "ready", !.content = message.content]
            /\ outcome' = [outcome EXCEPT ![r].shown = message.content]
            /\ message.content \in Nat
        BY <1>5, <1>10, <2>4 DEF Export!Receive, Export!IsForPane, PaneMessages
      <3>2. /\ pane'.status = "ready" /\ pane'.req = r
            /\ pane' \in [status : PaneStatuses, req : Nat, content : Nat \cup {-1}]
        BY <1>3, <2>1, <3>1 DEF PaneStatuses
      <3>3. /\ outcome' \in [Export!Exports -> [shown : Nat \cup {-1}, isConfirmed : BOOLEAN, written : Nat \cup {-1}]]
            /\ \A x \in Export!Exports : /\ outcome'[x].isConfirmed = outcome[x].isConfirmed
                                         /\ outcome'[x].written = outcome[x].written
                                         /\ x # r => outcome'[x].shown = outcome[x].shown
            /\ outcome'[r].shown = message.content
        <4>1. outcome \in [Export!Exports -> [shown : Nat \cup {-1}, isConfirmed : BOOLEAN, written : Nat \cup {-1}]]
          BY <1>1 DEF ExportTyped
        <4> QED BY <1>5, <3>1, <4>1
      <3>4. outcome[r].written = -1
        BY <1>1, <1>5, <2>4 DEF WrittenIsConfirmed, IsTrueOf, PaneStatuses
      <3>5. exporter.pending.req = r => message.content = exporter.pending.content
        BY <1>1, <1>5, <2>4 DEF KeptIsShown
      <3>6. \A x : PaneHas(x)' <=> x = r
        BY <3>2 DEF PaneHas
      <3>7. ExportTyped'
        BY <1>1, <1>2, <1>3, <1>4, <1>5, <1>6, <1>7, <1>8, <2>1, <2>2, <2>3, <2>4, <3>2, <3>3, <3>4 DEF ExportTyped
      <3>8. OneTurn'
        BY <1>1, <1>2, <1>3, <1>4, <1>5, <1>6, <1>7, <1>8, <2>1, <2>2, <2>3, <2>4, <3>2, <3>3, <3>4, <3>6 DEF OneTurn
      <3>9. Known'
        BY <1>1, <1>2, <1>3, <1>4, <1>5, <1>6, <1>7, <1>8, <2>1, <2>2, <2>3, <2>4, <3>2, <3>3, <3>4 DEF Known
      <3>10. PaneFollows'
        BY <1>1, <1>2, <1>3, <1>4, <1>5, <1>6, <1>7, <1>8, <2>1, <2>2, <2>3, <2>4, <3>2, <3>3, <3>4 DEF PaneFollows, Export!Exports
      <3>11. PaneWaits'
        BY <1>1, <1>2, <1>3, <1>4, <1>5, <1>6, <1>7, <1>8, <2>1, <2>2, <2>3, <2>4, <3>2, <3>3, <3>4 DEF PaneWaits
      <3>12. KeptIsShown'
        BY <1>1, <1>2, <1>3, <1>4, <1>5, <1>6, <1>7, <1>8, <2>1, <2>2, <2>3, <2>4, <3>2, <3>3, <3>4, <3>6 DEF KeptIsShown, Export!Exports
      <3>13. WrittenIsConfirmed'
        <4> SUFFICES ASSUME NEW x \in Export!Exports PROVE IsTrueOf(x)'
          BY DEF WrittenIsConfirmed
        <4>1. IsTrueOf(x)
          BY <1>1 DEF WrittenIsConfirmed
        <4>2. CASE x # r
          BY <1>4, <1>5, <1>7, <1>8, <2>3, <3>3, <3>6, <4>1, <4>2 DEF IsTrueOf
        <4>3. CASE x = r
          <5>1. ~IsSentAs("confirm", r)' /\ exporter'.writing.req # r /\ ~AnsweredAs("completed", r)'
            BY <1>2, <1>4, <1>5, <1>6, <1>7 DEF InHand
          <5> QED BY <1>5, <3>3, <3>4, <4>3, <5>1 DEF IsTrueOf
        <4> QED BY <4>2, <4>3
      <3>14. Export!ToldAsItWas'
        BY <1>1, <1>2, <1>3, <1>4, <1>5, <1>6, <1>7, <1>8, <2>1, <2>2, <2>3, <2>4, <3>2, <3>3, <3>4 DEF Export!ToldAsItWas
      <3> QED BY <3>7, <3>8, <3>9, <3>10, <3>11, <3>12, <3>13, <3>14 DEF ExportInv
    <2>5. CASE message.status # "ready"
      <3>1. /\ pane' = [pane EXCEPT !.status = message.status, !.content = -1] /\ outcome' = outcome
            /\ message.status \in {"completed", "cancelled", "error"}
        BY <1>5, <1>10, <2>5 DEF Export!Receive, Export!IsForPane, PaneMessages
      <3>2. /\ pane'.status = message.status /\ pane'.req = r
            /\ pane' \in [status : PaneStatuses, req : Nat, content : Nat \cup {-1}]
        BY <1>3, <2>1, <3>1 DEF PaneStatuses
      <3>3. /\ message.status = "completed" => outcome[r].written # -1
            /\ message.status # "completed" => outcome[r].written = -1
        BY <1>1, <1>5, <3>1 DEF WrittenIsConfirmed, IsTrueOf, PaneStatuses
      <3>4. exporter.pending.req # r
        <4>1. ~AnsweredAs("ready", r)
          BY <1>5, <2>5
        <4>2. ~IsSentAs("confirm", r) /\ ~IsSentAs("cancel", r) /\ exporter.writing.req # r
          BY <1>2, <1>6 DEF InHand
        <4> QED BY <1>1, <1>5, <1>6, <2>1, <4>1, <4>2 DEF KeptIsShown
      <3>5. \A x : ~PaneHas(x)'
        BY <3>1, <3>2 DEF PaneHas
      <3>6. ExportTyped'
        BY <1>1, <1>2, <1>3, <1>4, <1>5, <1>6, <1>7, <1>8, <2>1, <2>2, <2>3, <2>5, <3>1, <3>2, <3>3 DEF ExportTyped
      <3>7. OneTurn'
        BY <1>1, <1>2, <1>3, <1>4, <1>5, <1>6, <1>7, <1>8, <2>1, <2>2, <2>3, <2>5, <3>1, <3>2, <3>3, <3>5 DEF OneTurn
      <3>8. Known'
        BY <1>1, <1>2, <1>3, <1>4, <1>5, <1>6, <1>7, <1>8, <2>1, <2>2, <2>3, <2>5, <3>1, <3>2, <3>3 DEF Known
      <3>9. PaneFollows'
        BY <1>1, <1>2, <1>3, <1>4, <1>5, <1>6, <1>7, <1>8, <2>1, <2>2, <2>3, <2>5, <3>1, <3>2, <3>3 DEF PaneFollows, Export!Exports
      <3>10. PaneWaits'
        BY <1>1, <1>2, <1>3, <1>4, <1>5, <1>6, <1>7, <1>8, <2>1, <2>2, <2>3, <2>5, <3>1, <3>2, <3>3 DEF PaneWaits
      <3>11. KeptIsShown'
        BY <1>1, <1>2, <1>3, <1>4, <1>5, <1>6, <1>7, <1>8, <2>1, <2>2, <2>3, <2>5, <3>1, <3>2, <3>3, <3>5 DEF KeptIsShown, Export!Exports
      <3>12. WrittenIsConfirmed'
        BY <1>1, <1>2, <1>3, <1>4, <1>5, <1>6, <1>7, <1>8, <2>1, <2>2, <2>3, <2>5, <3>1, <3>2, <3>3, <3>5 DEF WrittenIsConfirmed, IsTrueOf
      <3>13. Export!ToldAsItWas'
        BY <1>1, <1>2, <1>3, <1>4, <1>5, <1>6, <1>7, <1>8, <2>1, <2>2, <2>3, <2>5, <3>1, <3>2, <3>3 DEF Export!ToldAsItWas
      <3> QED BY <3>6, <3>7, <3>8, <3>9, <3>10, <3>11, <3>12, <3>13 DEF ExportInv
    <2> QED BY <2>4, <2>5
  <1> QED BY <1>9, <1>10

\* The pane forgets its export: whatever is known of any was left.
LEMMA ClearLocalKeepsExport ==
    ASSUME ExportInv, Export!ClearLocal
    PROVE  ExportInv'
  <1>1. /\ ExportTyped /\ OneTurn /\ Known /\ PaneFollows /\ PaneWaits /\ KeptIsShown /\ WrittenIsConfirmed
        /\ Export!ToldAsItWas
    BY DEF ExportInv
  <1>2. /\ exporter.choosing \in Built /\ exporter.pending \in Built /\ exporter.writing \in Built
        /\ exporter.isDisposed \in BOOLEAN
        /\ exporter = [choosing |-> exporter.choosing, pending |-> exporter.pending,
                       writing |-> exporter.writing, isDisposed |-> exporter.isDisposed]
        /\ \A x, k : IsSentAs(k, x) => IsSent(x)
        /\ \A x, s : AnsweredAs(s, x) => Answered(x)
        /\ \A x, c : AnsweredWith(c, x) => Answered(x)
        /\ pane.status # "idle" => pane.req # 0
    BY <1>1, ExportFacts DEF ExportTyped
  <1>3. /\ left.asked \in Nat /\ left.asked <= MaxExports /\ left.times \in Nat /\ left.exports \subseteq Nat
        /\ pane \in [status : PaneStatuses, req : Nat, content : Nat \cup {-1}]
    BY <1>1, ExportsAssumption DEF ExportTyped, Known
  <1>4. /\ left' = [left EXCEPT !.times = @ + 1, !.exports = @ \union (1 .. left.asked)]
        /\ pane' = Export!Idle /\ UNCHANGED <<errorCount, outcome>>
    BY DEF Export!ClearLocal, Export!Leaves
  <1>5. /\ left'.asked = left.asked /\ left'.exports = left.exports \cup 1 .. left.asked
        /\ left' \in [asked : Nat, times : Nat, exports : SUBSET Nat]
        /\ pane'.status = "idle" /\ pane'.req = 0
        /\ pane' \in [status : PaneStatuses, req : Nat, content : Nat \cup {-1}]
    <2>1. left' = [asked |-> left.asked, times |-> left.times + 1, exports |-> left.exports \cup 1 .. left.asked]
      BY <1>1, <1>4 DEF ExportTyped
    <2>2. 1 .. left.asked \subseteq Nat
      BY <1>3
    <2>3. left.exports \cup 1 .. left.asked \in SUBSET Nat
      BY <1>3, <2>2
    <2>4. left'.asked = left.asked /\ left'.exports = left.exports \cup 1 .. left.asked
          /\ left' \in [asked : Nat, times : Nat, exports : SUBSET Nat]
      BY <1>3, <2>1, <2>3
    <2> QED BY <1>4, <2>4 DEF PaneStatuses, Export!Idle
  <1>6. /\ left'.exports = 1 .. left.asked /\ 0 \notin left'.exports
        /\ \A x \in Export!Exports : x <= left.asked => x \in left'.exports
    BY <1>1, <1>3, <1>5 DEF Known, Export!Exports
  <1>7. \A x : ~PaneHas(x)'
    BY <1>5 DEF PaneHas
  <1>8. exporter' = exporter /\ toExporter' = toExporter /\ toPane' = toPane
    BY DEF Export!ClearLocal
  <1>9. /\ \A x : IsSent(x)' <=> IsSent(x)
        /\ \A x, k : IsSentAs(k, x)' <=> IsSentAs(k, x)
        /\ \A x : Answered(x)' <=> Answered(x)
        /\ \A x, s : AnsweredAs(s, x)' <=> AnsweredAs(s, x)
        /\ \A x, c : AnsweredWith(c, x)' <=> AnsweredWith(c, x)
    BY <1>8, QuietHost, QuietPane
  <1>10. \A x : InHand(x)' <=> InHand(x)
    BY <1>8 DEF InHand
  \* Of the exports that were not left, nothing is known.
  <1>11. \A x \in Export!Exports \ left'.exports :
             ~IsSent(x) /\ ~Answered(x) /\ ~InHand(x) /\ exporter.pending.req # x
    <2> SUFFICES ASSUME NEW x \in Export!Exports \ left'.exports
                 PROVE  ~IsSent(x) /\ ~Answered(x) /\ ~InHand(x) /\ exporter.pending.req # x
      OBVIOUS
    <2>1. ~(x <= left.asked)
      BY <1>6
    <2> QED BY <1>1, <2>1 DEF Known, InHand
  <1>12. ExportTyped'
    BY <1>1, <1>2, <1>3, <1>4, <1>5, <1>6, <1>7, <1>8, <1>9 DEF ExportTyped
  <1>13. OneTurn'
    BY <1>1, <1>2, <1>3, <1>4, <1>5, <1>6, <1>7, <1>8, <1>9, <1>10 DEF OneTurn
  <1>14. Known'
    BY <1>1, <1>2, <1>3, <1>4, <1>5, <1>6, <1>7, <1>8, <1>9, <1>10 DEF Known
  <1>15. PaneFollows'
    BY <1>1, <1>2, <1>3, <1>4, <1>5, <1>6, <1>7, <1>8, <1>9, <1>11 DEF PaneFollows, InHand, Export!Exports
  <1>16. PaneWaits'
    BY <1>1, <1>2, <1>3, <1>4, <1>5, <1>6, <1>7, <1>8, <1>9 DEF PaneWaits
  <1>17. KeptIsShown'
    BY <1>1, <1>2, <1>3, <1>4, <1>5, <1>6, <1>7, <1>8, <1>9, <1>11 DEF KeptIsShown, Export!Exports
  <1>18. WrittenIsConfirmed'
    BY <1>1, <1>2, <1>3, <1>4, <1>5, <1>6, <1>7, <1>8, <1>9, <1>10 DEF WrittenIsConfirmed, IsTrueOf
  <1>19. Export!ToldAsItWas'
    BY <1>1, <1>2, <1>3, <1>4, <1>5, <1>6, <1>7, <1>8, <1>9 DEF Export!ToldAsItWas
  <1> QED BY <1>12, <1>13, <1>14, <1>15, <1>16, <1>17, <1>18, <1>19 DEF ExportInv

LEMMA ReopenKeepsExport ==
    ASSUME ExportInv, Export!Reopen
    PROVE  ExportInv'
  <1>1. /\ ExportTyped /\ OneTurn /\ Known /\ PaneFollows /\ PaneWaits /\ KeptIsShown /\ WrittenIsConfirmed
        /\ Export!ToldAsItWas
    BY DEF ExportInv
  <1>2. /\ exporter.choosing \in Built /\ exporter.pending \in Built /\ exporter.writing \in Built
        /\ exporter.isDisposed \in BOOLEAN
        /\ exporter = [choosing |-> exporter.choosing, pending |-> exporter.pending,
                       writing |-> exporter.writing, isDisposed |-> exporter.isDisposed]
        /\ \A x, k : IsSentAs(k, x) => IsSent(x)
        /\ \A x, s : AnsweredAs(s, x) => Answered(x)
        /\ \A x, c : AnsweredWith(c, x) => Answered(x)
        /\ pane.status # "idle" => pane.req # 0
    BY <1>1, ExportFacts DEF ExportTyped
  <1>3. /\ left.asked \in Nat /\ left.asked <= MaxExports /\ left.times \in Nat /\ left.exports \subseteq Nat
        /\ pane \in [status : PaneStatuses, req : Nat, content : Nat \cup {-1}]
    BY <1>1, ExportsAssumption DEF ExportTyped, Known
  <1>4. /\ left' = [left EXCEPT !.times = @ + 1, !.exports = @ \union (1 .. left.asked)]
        /\ pane' = Export!Idle /\ UNCHANGED <<errorCount, outcome>>
    BY DEF Export!Reopen, Export!Leaves
  <1>5. /\ left'.asked = left.asked /\ left'.exports = left.exports \cup 1 .. left.asked
        /\ left' \in [asked : Nat, times : Nat, exports : SUBSET Nat]
        /\ pane'.status = "idle" /\ pane'.req = 0
        /\ pane' \in [status : PaneStatuses, req : Nat, content : Nat \cup {-1}]
    <2>1. left' = [asked |-> left.asked, times |-> left.times + 1, exports |-> left.exports \cup 1 .. left.asked]
      BY <1>1, <1>4 DEF ExportTyped
    <2>2. 1 .. left.asked \subseteq Nat
      BY <1>3
    <2>3. left.exports \cup 1 .. left.asked \in SUBSET Nat
      BY <1>3, <2>2
    <2>4. left'.asked = left.asked /\ left'.exports = left.exports \cup 1 .. left.asked
          /\ left' \in [asked : Nat, times : Nat, exports : SUBSET Nat]
      BY <1>3, <2>1, <2>3
    <2> QED BY <1>4, <2>4 DEF PaneStatuses, Export!Idle
  <1>6. /\ left'.exports = 1 .. left.asked /\ 0 \notin left'.exports
        /\ \A x \in Export!Exports : x <= left.asked => x \in left'.exports
    BY <1>1, <1>3, <1>5 DEF Known, Export!Exports
  <1>7. \A x : ~PaneHas(x)'
    BY <1>5 DEF PaneHas
  <1>8. /\ toExporter' = <<>> /\ toPane' = <<>>
        /\ exporter' = [exporter EXCEPT !.isDisposed = TRUE, !.pending = Export!Nothing]
    BY DEF Export!Reopen
  <1>9. /\ \A x : ~IsSent(x)' /\ ~Answered(x)'
        /\ \A x, k : ~IsSentAs(k, x)' /\ ~AnsweredAs(k, x)' /\ ~AnsweredWith(k, x)'
    BY <1>8 DEF IsSent, Answered, IsSentAs, AnsweredAs, AnsweredWith
  <1>10. toExporter' \in Seq(HostMessages) /\ HasOneEach(toExporter') /\ toPane' \in Seq(PaneMessages) /\ HasOneEach(toPane')
    BY <1>8, EmptySeq DEF HasOneEach
  <1>11. /\ exporter'.pending = Export!Nothing /\ exporter'.pending.req = 0
         /\ exporter'.choosing = exporter.choosing /\ exporter'.writing = exporter.writing
         /\ exporter'.isDisposed = TRUE
         /\ exporter' \in [choosing : Built, pending : Built, writing : Built, isDisposed : BOOLEAN]
    BY <1>2, <1>8 DEF Built, Export!Nothing
  <1>12. \A x : InHand(x)' <=> InHand(x)
    BY <1>11 DEF InHand
  <1>13. \A x \in Export!Exports : InHand(x) => x \in left'.exports
    BY <1>1, <1>6 DEF Known, InHand
  <1>14. ExportTyped'
    BY <1>1, <1>2, <1>3, <1>4, <1>5, <1>6, <1>7, <1>9, <1>10, <1>11 DEF ExportTyped
  <1>15. OneTurn'
    BY <1>1, <1>2, <1>3, <1>4, <1>5, <1>6, <1>7, <1>9, <1>10, <1>11 DEF OneTurn
  <1>16. Known'
    BY <1>1, <1>2, <1>3, <1>4, <1>5, <1>6, <1>7, <1>9, <1>10, <1>11, <1>12, <1>13 DEF Known
  <1>17. PaneFollows'
    BY <1>1, <1>2, <1>3, <1>4, <1>5, <1>6, <1>7, <1>9, <1>10, <1>11, <1>13 DEF PaneFollows, InHand, Export!Exports
  <1>18. PaneWaits'
    BY <1>1, <1>2, <1>3, <1>4, <1>5, <1>6, <1>7, <1>9, <1>10, <1>11 DEF PaneWaits
  <1>19. KeptIsShown'
    BY <1>1, <1>2, <1>3, <1>4, <1>5, <1>6, <1>7, <1>9, <1>10, <1>11 DEF KeptIsShown, Export!Exports
  <1>20. WrittenIsConfirmed'
    BY <1>1, <1>2, <1>3, <1>4, <1>5, <1>6, <1>7, <1>9, <1>10, <1>11, <1>12 DEF WrittenIsConfirmed, IsTrueOf
  <1>21. Export!ToldAsItWas'
    BY <1>1, <1>2, <1>3, <1>4, <1>5, <1>6, <1>7, <1>9, <1>10, <1>11 DEF Export!ToldAsItWas
  <1> QED BY <1>14, <1>15, <1>16, <1>17, <1>18, <1>19, <1>20, <1>21 DEF ExportInv

LEMMA RecordErrorKeepsExport ==
    ASSUME ExportInv, Export!RecordError
    PROVE  ExportInv'
  <1>1. /\ ExportTyped /\ OneTurn /\ Known /\ PaneFollows /\ PaneWaits /\ KeptIsShown /\ WrittenIsConfirmed
        /\ Export!ToldAsItWas
    BY DEF ExportInv
  <1>2. /\ exporter.choosing \in Built /\ exporter.pending \in Built /\ exporter.writing \in Built
        /\ exporter.isDisposed \in BOOLEAN
        /\ exporter = [choosing |-> exporter.choosing, pending |-> exporter.pending,
                       writing |-> exporter.writing, isDisposed |-> exporter.isDisposed]
        /\ \A x, k : IsSentAs(k, x) => IsSent(x)
        /\ \A x, s : AnsweredAs(s, x) => Answered(x)
        /\ \A x, c : AnsweredWith(c, x) => Answered(x)
        /\ pane.status # "idle" => pane.req # 0
    BY <1>1, ExportFacts DEF ExportTyped
  <1>3. errorCount' \in Nat /\ UNCHANGED <<exporter, pane, toExporter, toPane, outcome, left>>
    BY <1>1 DEF Export!RecordError, ExportTyped
  <1>4. /\ \A x : IsSent(x)' <=> IsSent(x)
        /\ \A x, k : IsSentAs(k, x)' <=> IsSentAs(k, x)
        /\ \A x : Answered(x)' <=> Answered(x)
        /\ \A x, s : AnsweredAs(s, x)' <=> AnsweredAs(s, x)
        /\ \A x, c : AnsweredWith(c, x)' <=> AnsweredWith(c, x)
    BY <1>3, QuietHost, QuietPane
  <1>5. \A x : (InHand(x)' <=> InHand(x)) /\ (PaneHas(x)' <=> PaneHas(x))
    BY <1>3 DEF InHand, PaneHas
  <1>6. ExportTyped'
    BY <1>1, <1>3, <1>4, <1>5 DEF ExportTyped
  <1>7. OneTurn'
    BY <1>1, <1>3, <1>4, <1>5 DEF OneTurn
  <1>8. Known'
    BY <1>1, <1>3, <1>4, <1>5 DEF Known
  <1>9. PaneFollows'
    BY <1>1, <1>3, <1>4, <1>5 DEF PaneFollows
  <1>10. PaneWaits'
    BY <1>1, <1>3, <1>4, <1>5 DEF PaneWaits
  <1>11. KeptIsShown'
    BY <1>1, <1>3, <1>4, <1>5 DEF KeptIsShown
  <1>12. WrittenIsConfirmed'
    BY <1>1, <1>3, <1>4, <1>5 DEF WrittenIsConfirmed, IsTrueOf
  <1>13. Export!ToldAsItWas'
    BY <1>1, <1>3, <1>4, <1>5 DEF Export!ToldAsItWas
  <1> QED BY <1>6, <1>7, <1>8, <1>9, <1>10, <1>11, <1>12, <1>13 DEF ExportInv

\* Initially nothing is known of any export.
LEMMA ExportInit == Export!Init => ExportInv
  <1> SUFFICES ASSUME Export!Init PROVE ExportInv
    OBVIOUS
  <1>1. /\ exporter = [choosing |-> Export!Nothing, pending |-> Export!Nothing, writing |-> Export!Nothing,
                       isDisposed |-> FALSE]
        /\ errorCount = 0 /\ pane = [status |-> "idle", req |-> 0, content |-> -1]
        /\ toExporter = <<>> /\ toPane = <<>>
        /\ outcome = [r \in Export!Exports |-> [shown |-> -1, isConfirmed |-> FALSE, written |-> -1]]
        /\ left = [asked |-> 0, times |-> 0, exports |-> {}]
    BY DEF Export!Init, Export!Idle
  <1>2. Export!Nothing \in Built /\ Export!Nothing.req = 0
    BY DEF Built, Export!Nothing
  <1>3. /\ exporter.choosing.req = 0 /\ exporter.pending.req = 0 /\ exporter.writing.req = 0
        /\ exporter \in [choosing : Built, pending : Built, writing : Built, isDisposed : BOOLEAN]
        /\ ~exporter.isDisposed
    BY <1>1, <1>2
  <1>4. /\ \A x : ~IsSent(x) /\ ~Answered(x)
        /\ \A x, k : ~IsSentAs(k, x) /\ ~AnsweredAs(k, x) /\ ~AnsweredWith(k, x)
    BY <1>1 DEF IsSent, Answered, IsSentAs, AnsweredAs, AnsweredWith
  <1>5. toExporter \in Seq(HostMessages) /\ HasOneEach(toExporter) /\ toPane \in Seq(PaneMessages) /\ HasOneEach(toPane)
    BY <1>1, EmptySeq DEF HasOneEach
  <1>6. \A x \in Export!Exports : x # 0 /\ ~InHand(x) /\ ~PaneHas(x) /\ outcome[x].written = -1
    BY <1>1, <1>3 DEF InHand, PaneHas, Export!Exports
  <1>7. ExportTyped
    BY <1>1, <1>3, <1>5 DEF ExportTyped, PaneStatuses
  <1>8. OneTurn
    BY <1>3, <1>4, <1>6 DEF OneTurn
  <1>9. Known
    BY <1>1, <1>3, <1>4, <1>6, ExportsAssumption DEF Known
  <1>10. PaneFollows
    BY <1>3, <1>4, <1>6 DEF PaneFollows
  <1>11. PaneWaits
    BY <1>1 DEF PaneWaits
  <1>12. KeptIsShown
    BY <1>3, <1>6 DEF KeptIsShown
  <1>13. WrittenIsConfirmed
    BY <1>3, <1>4, <1>6 DEF WrittenIsConfirmed, IsTrueOf
  <1>14. Export!ToldAsItWas
    BY <1>1 DEF Export!ToldAsItWas
  <1> QED BY <1>7, <1>8, <1>9, <1>10, <1>11, <1>12, <1>13, <1>14 DEF ExportInv

\* Every step of an export preserves what is known of them.
LEMMA ExportNext == ExportInv /\ [Export!Next]_exportVars => ExportInv'
  <1> SUFFICES ASSUME ExportInv, [Export!Next]_exportVars PROVE ExportInv'
    OBVIOUS
  <1>1. CASE Export!RecordError
    BY <1>1, RecordErrorKeepsExport
  <1>2. ASSUME NEW b \in BOOLEAN, Export!HostPrepares(b) PROVE ExportInv'
    BY <1>2, HostPreparesKeeps
  <1>3. ASSUME NEW b \in BOOLEAN, Export!HostConfirms(b) PROVE ExportInv'
    BY <1>3, HostConfirmsKeeps
  <1>4. ASSUME NEW b \in BOOLEAN, Export!HostWrote(b) PROVE ExportInv'
    BY <1>4, HostWroteKeeps
  <1>5. ASSUME NEW c \in {"file", "none", "refused"}, Export!HostChose(c) PROVE ExportInv'
    BY <1>5, HostChoseKeeps
  <1>6. CASE Export!HostCancels
    BY <1>6, HostCancelsKeeps
  <1>7. CASE Export!Start
    BY <1>7, StartKeepsExport
  <1>8. CASE Export!Confirm
    BY <1>8, ConfirmKeepsExport
  <1>9. CASE Export!Cancel
    BY <1>9, CancelKeepsExport
  <1>10. CASE Export!Receive
    BY <1>10, ReceiveKeepsExport
  <1>11. CASE Export!ClearLocal
    BY <1>11, ClearLocalKeepsExport
  <1>12. CASE Export!Reopen
    BY <1>12, ReopenKeepsExport
  <1>13. CASE UNCHANGED exportVars
    <2>1. UNCHANGED <<exporter, errorCount, pane, toExporter, toPane, outcome, left>>
      BY <1>13 DEF exportVars
    <2> QED BY <2>1 DEF ExportInv, ExportTyped, OneTurn, Known, PaneFollows, PaneWaits, KeptIsShown, WrittenIsConfirmed,
                        IsTrueOf, Export!ToldAsItWas, InHand, PaneHas, IsSent, IsSentAs, Answered, AnsweredAs, AnsweredWith
  <1> QED BY <1>1, <1>2, <1>3, <1>4, <1>5, <1>6, <1>7, <1>8, <1>9, <1>10, <1>11, <1>12, <1>13 DEF Export!Next

\* What is known of the exports implies what is promised of them.
LEMMA ExportTells ==
    ASSUME ExportInv
    PROVE  Export!OnlyTheShownIsWritten /\ Export!ToldAsItWas /\ Export!ExportIsInSight
  <1>1. /\ ExportTyped /\ OneTurn /\ Known /\ PaneFollows /\ PaneWaits /\ KeptIsShown /\ WrittenIsConfirmed
        /\ Export!ToldAsItWas
    BY DEF ExportInv
  <1>2. \A x : Export!About(x) <=> IsSent(x) \/ Answered(x)
    BY DEF Export!About, IsSent, Answered
  <1>3. Export!OnlyTheShownIsWritten
    BY <1>1 DEF Export!OnlyTheShownIsWritten, WrittenIsConfirmed, IsTrueOf
  <1>4. pane.status \in {"preparing", "exporting"} =>
          Export!About(pane.req) \/ pane.req \in {exporter.choosing.req, exporter.writing.req}
    BY <1>1, <1>2 DEF PaneWaits
  <1>5. ASSUME NEW r, r = exporter.pending.req, exporter.pending # Export!Nothing
        PROVE  \/ pane.req = r /\ pane.status \in {"ready", "exporting"}
               \/ Export!About(r) \/ r \in left.exports
    <2>1. r # 0 /\ r \in Nat /\ r <= MaxExports
      <3>1. exporter.pending \in Built
        BY <1>1, ExportFacts
      <3>2. r # 0 /\ r \in Nat
        BY <1>5, <3>1, BuiltOrNothing
      <3> QED BY <1>1, <1>5, <3>2, ExportsAssumption DEF Known
    <2>2. r \in Export!Exports
      BY <2>1, ExportsAssumption DEF Export!Exports
    <2>3. \/ AnsweredAs("ready", r) \/ PaneHas(r) \/ IsSentAs("confirm", r) \/ IsSentAs("cancel", r)
          \/ exporter.writing.req = r \/ r \in left.exports
      BY <1>1, <1>5, <2>2 DEF KeptIsShown
    <2>4. AnsweredAs("ready", r) \/ IsSentAs("confirm", r) \/ IsSentAs("cancel", r) => Export!About(r)
      BY <1>1, <1>2, ExportFacts
    <2>5. exporter.writing.req = r /\ r \notin left.exports => pane.req = r /\ pane.status = "exporting"
      BY <1>1, <2>2 DEF PaneFollows
    <2> QED BY <2>3, <2>4, <2>5 DEF PaneHas
  <1>6. Export!ExportIsInSight
    BY <1>4, <1>5 DEF Export!ExportIsInSight
  <1> QED BY <1>1, <1>3, <1>6
=============================================================================
