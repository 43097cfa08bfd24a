--------------------------- MODULE ChatViewProofs ---------------------------
(* What is proved of the view and its Host beyond AgentViewProofs: the active *)
(* Run is one the view follows, what was told as deleted stays gone, and what *)
(* is shown is of the current Session and of one Run each.                    *)
(*                                                                            *)
(* Neither side ever asks the other; each acts on what it has been told. The  *)
(* proof follows what is under way: a deletion or clearing the view waits for *)
(* is in one place, on its way, with the Host or answered; the question of    *)
(* the followed request is on its way, with the Host or at an end; and what   *)
(* is told of a Run is told in one Session.                                   *)
EXTENDS AgentViewProofs, FiniteSetTheorems

-----------------------------------------------------------------------------
(* Messages under way.                                                     *)

\* No message of s is of a type in A; at most one is.
NoneOf(s, A) == \A m \in ToSet(s) : m.type \notin A
AtMostOne(s, A) == \A i, j \in DOMAIN s : s[i].type \in A /\ s[j].type \in A => i = j
\* The messages of a type in A come before those of a type in B.
Before(s, A, B) == \A i, j \in DOMAIN s : s[i].type \in A /\ s[j].type \in B => i < j
\* The messages after one of a type in A.
Later(s, A) == {s[j] : j \in {j \in DOMAIN s : \E i \in DOMAIN s : i < j /\ s[i].type \in A}}

LEMMA Appended ==
    ASSUME NEW S, NEW s \in Seq(S), NEW t \in Seq(S)
    PROVE  /\ s \o t \in Seq(S) /\ ToSet(s \o t) = ToSet(s) \cup ToSet(t)
           /\ \A A : AtMostOne(s, A) /\ NoneOf(t, A) => AtMostOne(s \o t, A)
           /\ \A A : NoneOf(s, A) /\ AtMostOne(t, A) => AtMostOne(s \o t, A)
           /\ \A A, B : Before(s, A, B) /\ NoneOf(t, A) => Before(s \o t, A, B)
           /\ \A A, B : NoneOf(s, B) /\ Before(t, A, B) => Before(s \o t, A, B)
           /\ \A A : NoneOf(t, A) => Later(s \o t, A) \subseteq Later(s, A) \cup (IF NoneOf(s, A) THEN {} ELSE ToSet(t))
  <1>1. /\ DOMAIN s = 1 .. Len(s) /\ DOMAIN t = 1 .. Len(t) /\ Len(s) \in Nat /\ Len(t) \in Nat
        /\ s \o t \in Seq(S) /\ DOMAIN (s \o t) = 1 .. Len(s) + Len(t)
        /\ \A i \in DOMAIN (s \o t) :
              (i \in DOMAIN s /\ (s \o t)[i] = s[i]) \/ (i > Len(s) /\ i - Len(s) \in DOMAIN t /\ (s \o t)[i] = t[i - Len(s)])
        /\ \A i \in DOMAIN s : i \in DOMAIN (s \o t) /\ (s \o t)[i] = s[i]
        /\ \A i \in DOMAIN t : i + Len(s) \in DOMAIN (s \o t) /\ (s \o t)[i + Len(s)] = t[i]
    OBVIOUS
  <1> DEFINE u == s \o t
  <1> HIDE DEF u
  <1>2. /\ DOMAIN s \subseteq Nat /\ DOMAIN t \subseteq Nat /\ DOMAIN u \subseteq Nat
        /\ \A i \in DOMAIN u : (i \in DOMAIN s /\ u[i] = s[i]) \/ (i > Len(s) /\ i - Len(s) \in DOMAIN t /\ u[i] = t[i - Len(s)])
        /\ \A i \in DOMAIN s : i <= Len(s) /\ i \in DOMAIN u /\ u[i] = s[i]
        /\ \A i \in DOMAIN t : i + Len(s) \in DOMAIN u /\ u[i + Len(s)] = t[i]
    BY <1>1 DEF u
  <1>3. ToSet(u) = ToSet(s) \cup ToSet(t)
    BY <1>2 DEF ToSet
  <1>4. \A i \in DOMAIN s : s[i] \in ToSet(s)
    BY DEF ToSet
  <1>5. \A i \in DOMAIN t : t[i] \in ToSet(t)
    BY DEF ToSet
  <1>6. \A A : AtMostOne(s, A) /\ NoneOf(t, A) => AtMostOne(u, A)
    BY <1>2, <1>5 DEF AtMostOne, NoneOf
  <1>7. \A A : NoneOf(s, A) /\ AtMostOne(t, A) => AtMostOne(u, A)
    <2> SUFFICES ASSUME NEW A, NoneOf(s, A), AtMostOne(t, A), NEW i \in DOMAIN u, NEW j \in DOMAIN u,
                        u[i].type \in A, u[j].type \in A
                 PROVE  i = j
      BY DEF AtMostOne
    <2>1. \A k \in DOMAIN s : s[k].type \notin A
      BY <1>4 DEF NoneOf
    <2>2. i - Len(s) \in DOMAIN t /\ u[i] = t[i - Len(s)] /\ j - Len(s) \in DOMAIN t /\ u[j] = t[j - Len(s)]
      BY <1>2, <2>1
    <2>3. i - Len(s) = j - Len(s)
      BY <2>2 DEF AtMostOne
    <2> QED BY <1>1, <1>2, <2>3
  <1>8. \A A, B : Before(s, A, B) /\ NoneOf(t, A) => Before(u, A, B)
    <2> SUFFICES ASSUME NEW A, NEW B, Before(s, A, B), NoneOf(t, A), NEW i \in DOMAIN u, NEW j \in DOMAIN u,
                        u[i].type \in A, u[j].type \in B
                 PROVE  i < j
      BY DEF Before
    <2>1. i \in DOMAIN s /\ u[i] = s[i]
      BY <1>2, <1>5 DEF NoneOf
    <2>2. CASE j \in DOMAIN s
      BY <1>2, <2>1, <2>2 DEF Before
    <2>3. CASE j \notin DOMAIN s
      BY <1>1, <1>2, <2>1, <2>3
    <2> QED BY <2>2, <2>3
  <1>9. \A A, B : NoneOf(s, B) /\ Before(t, A, B) => Before(u, A, B)
    <2> SUFFICES ASSUME NEW A, NEW B, NoneOf(s, B), Before(t, A, B), NEW i \in DOMAIN u, NEW j \in DOMAIN u,
                        u[i].type \in A, u[j].type \in B
                 PROVE  i < j
      BY DEF Before
    <2>1. j > Len(s) /\ j - Len(s) \in DOMAIN t /\ u[j] = t[j - Len(s)]
      BY <1>2, <1>4 DEF NoneOf
    <2>2. CASE i \in DOMAIN s
      BY <1>1, <1>2, <2>1, <2>2
    <2>3. CASE i \notin DOMAIN s
      <3>1. i - Len(s) \in DOMAIN t /\ u[i] = t[i - Len(s)]
        BY <1>2, <2>3
      <3>2. i - Len(s) < j - Len(s)
        BY <2>1, <3>1 DEF Before
      <3> QED BY <1>1, <1>2, <3>2
    <2> QED BY <2>2, <2>3
  <1>10. \A A : NoneOf(t, A) => Later(u, A) \subseteq Later(s, A) \cup (IF NoneOf(s, A) THEN {} ELSE ToSet(t))
    <2> SUFFICES ASSUME NEW A, NoneOf(t, A), NEW i \in DOMAIN u, NEW j \in DOMAIN u, i < j, u[i].type \in A
                 PROVE  u[j] \in Later(s, A) \cup (IF NoneOf(s, A) THEN {} ELSE ToSet(t))
      BY DEF Later
    <2>1. i \in DOMAIN s /\ u[i] = s[i] /\ ~NoneOf(s, A)
      BY <1>2, <1>4, <1>5 DEF NoneOf
    <2>2. CASE j \in DOMAIN s
      BY <1>2, <2>1, <2>2 DEF Later
    <2>3. CASE j \notin DOMAIN s
      BY <1>2, <1>5, <2>1, <2>3
    <2> QED BY <2>2, <2>3
  <1> QED BY <1>1, <1>3, <1>6, <1>7, <1>8, <1>9, <1>10 DEF u

LEMMA Taken ==
    ASSUME NEW S, NEW s \in Seq(S), s # <<>>
    PROVE  /\ Tail(s) \in Seq(S) /\ Head(s) \in S /\ ToSet(s) = {Head(s)} \cup ToSet(Tail(s))
           /\ \A A : AtMostOne(s, A) => AtMostOne(Tail(s), A) /\ (Head(s).type \in A => NoneOf(Tail(s), A))
           /\ \A A, B : Before(s, A, B) => Before(Tail(s), A, B) /\ (Head(s).type \in B => NoneOf(s, A))
           /\ \A A : Later(Tail(s), A) \subseteq Later(s, A) /\ (Head(s).type \in A => ToSet(Tail(s)) \subseteq Later(s, A))
  <1> DEFINE u == Tail(s)
  <1>1. /\ u \in Seq(S) /\ Head(s) \in S /\ Head(s) = s[1] /\ 1 \in DOMAIN s
        /\ \A i \in DOMAIN u : i \in Nat /\ i >= 1 /\ i + 1 \in DOMAIN s /\ u[i] = s[i + 1]
        /\ \A i \in DOMAIN s : i \in Nat /\ i >= 1 /\ (i = 1 \/ (i - 1 \in DOMAIN u /\ s[i] = u[i - 1]))
    OBVIOUS
  <1> HIDE DEF u
  <1>2. ToSet(s) = {Head(s)} \cup ToSet(u)
    <2>1. \A i \in DOMAIN s : s[i] \in {Head(s)} \cup ToSet(u)
      BY <1>1 DEF ToSet
    <2>2. Head(s) \in ToSet(s) /\ \A i \in DOMAIN u : u[i] \in ToSet(s)
      BY <1>1 DEF ToSet
    <2> QED BY <2>1, <2>2 DEF ToSet
  <1>3. \A m \in ToSet(u) : \E i \in DOMAIN s : i > 1 /\ m = s[i]
    <2> SUFFICES ASSUME NEW j \in DOMAIN u PROVE \E i \in DOMAIN s : i > 1 /\ u[j] = s[i]
      BY DEF ToSet
    <2> QED BY <1>1
  <1>4. ASSUME NEW A, AtMostOne(s, A) PROVE AtMostOne(u, A) /\ (Head(s).type \in A => NoneOf(u, A))
    <2>1. AtMostOne(u, A)
      <3> SUFFICES ASSUME NEW i \in DOMAIN u, NEW j \in DOMAIN u, u[i].type \in A, u[j].type \in A PROVE i = j
        BY DEF AtMostOne
      <3>1. i + 1 = j + 1
        BY <1>1, <1>4 DEF AtMostOne
      <3> QED BY <1>1, <3>1
    <2>2. Head(s).type \in A => NoneOf(u, A)
      BY <1>1, <1>3, <1>4 DEF AtMostOne, NoneOf
    <2> QED BY <2>1, <2>2
  <1>5. ASSUME NEW A, NEW B, Before(s, A, B) PROVE Before(u, A, B) /\ (Head(s).type \in B => NoneOf(s, A))
    <2>1. Before(u, A, B)
      <3> SUFFICES ASSUME NEW i \in DOMAIN u, NEW j \in DOMAIN u, u[i].type \in A, u[j].type \in B PROVE i < j
        BY DEF Before
      <3>1. i + 1 < j + 1
        BY <1>1, <1>5 DEF Before
      <3> QED BY <1>1, <3>1
    <2>2. Head(s).type \in B => NoneOf(s, A)
      <3> SUFFICES ASSUME Head(s).type \in B, NEW i \in DOMAIN s, s[i].type \in A PROVE FALSE
        BY DEF NoneOf, ToSet
      <3>1. i < 1
        BY <1>1, <1>5 DEF Before
      <3> QED BY <1>1, <3>1
    <2> QED BY <2>1, <2>2
  <1>6. ASSUME NEW A PROVE Later(u, A) \subseteq Later(s, A) /\ (Head(s).type \in A => ToSet(u) \subseteq Later(s, A))
    <2>1. ASSUME NEW i \in DOMAIN u, NEW j \in DOMAIN u, i < j, u[i].type \in A PROVE u[j] \in Later(s, A)
      <3>1. i + 1 \in DOMAIN s /\ j + 1 \in DOMAIN s /\ i + 1 < j + 1 /\ s[i + 1].type \in A /\ u[j] = s[j + 1]
        BY <1>1, <2>1
      <3> QED BY <3>1 DEF Later
    <2>2. Later(u, A) \subseteq Later(s, A)
      BY <2>1 DEF Later
    <2>3. Head(s).type \in A => ToSet(u) \subseteq Later(s, A)
      BY <1>1, <1>3 DEF Later
    <2> QED BY <2>2, <2>3
  <1> QED BY <1>1, <1>2, <1>4, <1>5, <1>6 DEF u

LEMMA Few ==
    /\ ToSet(<<>>) = {} /\ DOMAIN <<>> = {}
    /\ \A x : ToSet(<<x>>) = {x} /\ DOMAIN <<x>> = {1} /\ <<x>>[1] = x
    /\ \A x, y : ToSet(<<x, y>>) = {x, y} /\ DOMAIN <<x, y>> = {1, 2} /\ <<x, y>>[1] = x /\ <<x, y>>[2] = y
  <1>1. DOMAIN <<>> = {} /\ (\A x : DOMAIN <<x>> = {1} /\ <<x>>[1] = x)
        /\ (\A x, y : DOMAIN <<x, y>> = {1, 2} /\ <<x, y>>[1] = x /\ <<x, y>>[2] = y)
    OBVIOUS
  <1> QED BY <1>1 DEF ToSet

-----------------------------------------------------------------------------
(* What is under way.                                                      *)

Launches == {"submit", "regenerate", "edit-message"}
Mutations == {"delete-session", "clear-sessions", "clear-local-data"}
Answers == {"session-deleted", "sessions-cleared", "session-deletion-error", "local-data-clear-result"}
\* What tells of a Run, and what ends it, for the view that follows it.
Words == {"session-started", "text-delta"}
IsWord(m) == m.type \in Words /\ m.req = chat.active
EndsIt(m) == m.type = "run-status" /\ m.req = chat.active /\ m.status \in Terminal
\* The Host is at a deletion or a clearing.
Deciding == host.job.kind \in {"delete", "clear"} \/ host.reset.step # "none"

\* Requests are counted, and nobody names one that was not made.
HostNumbered ==
    /\ {host.active, host.list.req, host.job.req, host.reset.req} \subseteq 0 .. issued
    /\ host.settling \subseteq 1 .. issued
Numbered ==
    /\ issued \in 0 .. MaxRequests
    /\ {chat.active, chat.list, chat.restore, chat.delete, chat.clear, chat.reset} \subseteq 0 .. issued
    /\ HostNumbered
    /\ \A m \in ToSet(toHost) : m.req \in 0 .. issued /\ (m.req = 0 => m.type = "select-session")
    /\ \A m \in ToSet(toView) : m.req \in 1 .. issued

\* What the Host keeps of Sessions are Sessions; a Run reports as much as it may.
HostTypes ==
    /\ NoSession \notin host.known \cup host.list.found
    /\ host.job.step = "read" => host.job.session # NoSession
    /\ \A r \in Requests : runs[r].left \in 0 .. MaxEvents

\* The view waits for one deletion or clearing at a time, and restores nothing meanwhile.
OneMutation ==
    /\ chat.mutating \in BOOLEAN
    /\ ~chat.mutating => chat.delete = 0 /\ chat.clear = 0 /\ chat.reset = 0
    /\ chat.delete # 0 => chat.clear = 0 /\ chat.reset = 0
    /\ chat.clear # 0 => chat.reset = 0
    /\ chat.delete # 0 \/ chat.clear # 0 => chat.restore = 0 /\ issued < MaxRequests
    /\ chat.delete # 0 => chat.deleteTarget \in Told \ {NoSession}
    /\ chat.restore # 0 => chat.active = 0 /\ chat.restoreTarget \in Told \ {NoSession}

\* What is under way is what the view waits for.
IntentFits(m) ==
    /\ m.type = "delete-session" => m.req = chat.delete /\ m.session = chat.deleteTarget
    /\ m.type = "clear-sessions" => m.req = chat.clear
    /\ m.type = "clear-local-data" => m.req = chat.reset
AnswerFits(m) ==
    /\ m.type = "session-deleted" => m.req = chat.delete /\ m.session = chat.deleteTarget
    /\ m.type = "sessions-cleared" => m.req = chat.clear
    /\ m.type = "session-deletion-error" => m.req \in {chat.delete, chat.clear}
    /\ m.type = "local-data-clear-result" => m.req = chat.reset
HostFits ==
    /\ host.job.kind # "none" => host.job.req # 0
    /\ host.job.kind = "delete" => host.job.req = chat.delete /\ host.job.session = chat.deleteTarget
    /\ host.job.kind = "clear" => host.job.req = chat.clear
    /\ host.reset.step # "none" => host.reset.req # 0 /\ host.reset.req = chat.reset
Awaited ==
    /\ HostFits
    /\ \A m \in ToSet(toHost) : IntentFits(m)
    /\ \A m \in ToSet(toView) : AnswerFits(m)

\* It is in one place: on its way, with the Host, or answered.
OnePlace ==
    /\ AtMostOne(toHost, Mutations) /\ AtMostOne(toView, Answers)
    /\ NoneOf(toHost, Mutations) \/ (~Deciding /\ NoneOf(toView, Answers))
    /\ Deciding => NoneOf(toView, Answers)

AskInv == Numbered /\ HostTypes /\ OneMutation /\ Awaited /\ OnePlace

-----------------------------------------------------------------------------
(* The Run the view follows.                                               *)

\* A question on its way is the one the view waits for, and comes before any deletion.
Submitted ==
    /\ AtMostOne(toHost, Launches) /\ Before(toHost, Launches, Mutations)
    /\ \A m \in ToSet(toHost) : m.type \in Launches =>
          /\ m.req = chat.active /\ m.session = chat.selected /\ host.active = 0 /\ ~Deciding
          /\ NoneOf(toView, Answers)
          /\ \A n \in ToSet(toView) : ~IsWord(n) /\ ~EndsIt(n)

\* The active Run is followed, works in the Session that is shown, and is not told to be over.
ActiveFollowed ==
    host.active # 0 =>
        /\ chat.active = host.active
        /\ chat.selected # NoSession => runs[host.active].session = chat.selected
        /\ \A n \in ToSet(toView) : (IsWord(n) => n.session = runs[host.active].session) /\ ~EndsIt(n)

\* What is told of the followed Run is told in one Session, the one that is shown.
WordsAgree ==
    \A m \in ToSet(toView) : m.type \in Words =>
        /\ m.session # NoSession
        /\ IsWord(m) /\ chat.selected # NoSession => m.session = chat.selected
        /\ \A n \in ToSet(toView) : IsWord(m) /\ IsWord(n) => m.session = n.session

\* The active Run works in another Session than s.
Quieted(s) == host.active # 0 => runs[host.active].session # s
\* A deletion or clearing leaves no active Run behind in what it takes away.
HostHushed ==
    /\ host.job.kind = "clear" \/ host.reset.step = "settling" => host.active = 0
    /\ host.lock <=> host.list.req # 0 \/ host.reset.step = "settling"
    /\ host.job.kind = "delete" =>
          /\ Quieted(host.job.session)
          /\ host.active # 0 /\ runs[host.active].session = NoSession => host.owned # host.job.session
Hushed(m) ==
    IF chat.delete # 0 THEN Quieted(chat.deleteTarget)
    ELSE host.active = 0 \/ (m.type = "local-data-clear-result" /\ m.status = "cancelled")
AnswersHushed == \A m \in ToSet(toView) : m.type \in Answers => Hushed(m)

FollowInv == Submitted /\ ActiveFollowed /\ WordsAgree /\ HostHushed /\ AnswersHushed

TalkInv == ViewInv /\ AskInv /\ FollowInv

-----------------------------------------------------------------------------
(* What every step of the Host does to this, with the messages ms it posts. *)

Took(A) == toHost # <<>> /\ toHost' = Tail(toHost) /\ Head(toHost).type \in A

Travels(ms) ==
    /\ UNCHANGED <<chat, issued>>
    /\ toHost' = toHost \/ (toHost # <<>> /\ toHost' = Tail(toHost))
    /\ ms \in Seq(Messages(AnySession)) /\ toView' = toView \o ms

\* A deletion is taken from its intent, and answered once it is over.
MutationMoves(ms) ==
    /\ Deciding' => Deciding \/ Took(Mutations)
    /\ AtMostOne(ms, Answers)
    /\ \A m \in ToSet(ms) : m.req \in 1 .. issued /\ AnswerFits(m)
    /\ \A m \in ToSet(ms) : m.type \in Answers =>
          (Deciding \/ Took(Mutations)) /\ ~Deciding' /\ Hushed(m)' /\ NoneOf(ms, Words)

\* No Run is active, or the one that was, which may now have a Session, or a new one.
ActiveMoves ==
    \/ host'.active = 0
    \/ /\ host'.active = host.active
       /\ \/ runs'[host.active].session = runs[host.active].session
          \/ runs[host.active].session = NoSession /\ runs'[host.active].session \notin Told
    \/ /\ Took(Launches) /\ host'.active = Head(toHost).req
       /\ runs'[Head(toHost).req].session = Head(toHost).session
       /\ ~runs'[Head(toHost).req].started
Tells(m) ==
    /\ host.active # 0 /\ m.req = host.active /\ m.session = runs'[host.active].session
    /\ m.session # NoSession /\ runs[host.active].session \in {NoSession, m.session} /\ m.session \in stored
    /\ runs[host.active].session # m.session => m.session \notin Told
RunMoves(ms) ==
    /\ ActiveMoves
    /\ \A m \in ToSet(ms) : m.type \in Words => Tells(m)
    /\ \A m \in ToSet(ms) : m.type = "run-status" /\ m.status \in Terminal =>
          host'.active = 0 /\ (host.active # 0 \/ Took(Launches))

\* What is gone stays gone, and is not found.
StoreMoves(ms) ==
    /\ used \ stored \subseteq used' \ stored'
    /\ host'.list.read => \/ host.list.read /\ host'.list.req = host.list.req /\ host'.list.found = host.list.found
                          \/ host'.list.found \subseteq stored'
    /\ \A m \in ToSet(ms) : m.type = "session-list" =>
          host.list.read /\ m.req = host.list.req /\ m.sessions = host.list.found
    /\ \A m \in ToSet(ms) : m.type = "session-deleted" => m.session \in used' \ stored'

\* Text comes after the start of its Run.
TextMoves(ms) ==
    /\ \A k \in DOMAIN ms : ms[k].type = "text-delta" =>
          \/ runs[host.active].started
          \/ \E j \in DOMAIN ms : j < k /\ ms[j].type = "session-started" /\ ms[j].req = ms[k].req
    /\ host'.active # 0 /\ runs'[host'.active].started =>
          \/ host'.active = host.active /\ runs[host.active].started
          \/ \E m \in ToSet(ms) : m.type = "session-started" /\ m.req = host'.active

HostMoves(ms) ==
    /\ Travels(ms) /\ Told \subseteq Told'
    /\ HostNumbered' /\ HostTypes' /\ HostFits' /\ HostHushed'
    /\ MutationMoves(ms) /\ RunMoves(ms) /\ StoreMoves(ms) /\ TextMoves(ms)

LEMMA Channels ==
    ASSUME ViewInv
    PROVE  /\ toHost \in Seq(Intents(AnySession)) /\ toView \in Seq(Messages(AnySession)) /\ Told \subseteq AnySession
           /\ NoSession \in Told
  <1> DEFINE A == Told
  <1>1. A \subseteq AnySession /\ toHost \in Seq(Intents(A)) /\ toView \in Seq(Messages(A)) /\ NoSession \in A
    BY DEF ViewInv, Named, Told, AnySession
  <1>2. toHost \in Seq(Intents(AnySession)) /\ toView \in Seq(Messages(AnySession))
    <2> HIDE DEF A
    <2> QED BY <1>1, Wider
  <1> QED BY <1>1, <1>2

LEMMA MovesLeave ==
    ASSUME TalkInv, NEW ms, HostMoves(ms)
    PROVE  /\ ToSet(toHost') \subseteq ToSet(toHost) /\ ToSet(toView') = ToSet(toView) \cup ToSet(ms)
           /\ chat' = chat /\ issued' = issued
           /\ \A A : AtMostOne(toHost, A) => AtMostOne(toHost', A) /\ (Took(A) => NoneOf(toHost', A))
           /\ \A A, B : Before(toHost, A, B) => Before(toHost', A, B) /\ (Took(B) => NoneOf(toHost, A))
           /\ \A A : AtMostOne(toView, A) /\ NoneOf(ms, A) => AtMostOne(toView', A)
           /\ \A A : NoneOf(toView, A) /\ AtMostOne(ms, A) => AtMostOne(toView', A)
           /\ \A A : Took(A) => Head(toHost) \in ToSet(toHost)
           /\ \A A : NoneOf(ms, A) => Later(toView', A) \subseteq Later(toView, A) \cup (IF NoneOf(toView, A) THEN {} ELSE ToSet(ms))
  <1>1. /\ toHost \in Seq(Intents(AnySession)) /\ toView \in Seq(Messages(AnySession)) /\ ms \in Seq(Messages(AnySession))
        /\ toView' = toView \o ms /\ chat' = chat /\ issued' = issued
        /\ toHost' = toHost \/ (toHost # <<>> /\ toHost' = Tail(toHost))
    BY Channels DEF TalkInv, HostMoves, Travels
  <1>2. /\ ToSet(toView') = ToSet(toView) \cup ToSet(ms)
        /\ \A A : AtMostOne(toView, A) /\ NoneOf(ms, A) => AtMostOne(toView', A)
        /\ \A A : NoneOf(toView, A) /\ AtMostOne(ms, A) => AtMostOne(toView', A)
        /\ \A A : NoneOf(ms, A) => Later(toView', A) \subseteq Later(toView, A) \cup (IF NoneOf(toView, A) THEN {} ELSE ToSet(ms))
    BY <1>1, Appended
  <1>3. CASE toHost' = toHost /\ toHost = <<>>
    BY <1>1, <1>2, <1>3 DEF Took
  <1>4. CASE toHost # <<>>
    <2>1. /\ ToSet(toHost) = {Head(toHost)} \cup ToSet(Tail(toHost))
          /\ \A A : AtMostOne(toHost, A) => AtMostOne(Tail(toHost), A) /\ (Head(toHost).type \in A => NoneOf(Tail(toHost), A))
          /\ \A A, B : Before(toHost, A, B) => Before(Tail(toHost), A, B) /\ (Head(toHost).type \in B => NoneOf(toHost, A))
      BY <1>1, <1>4, Taken
    <2>2. \A A : Took(A) => toHost' = Tail(toHost) /\ Head(toHost).type \in A
      BY DEF Took
    <2>3. toHost' = toHost \/ toHost' = Tail(toHost)
      BY <1>1
    <2>4. \A A : AtMostOne(toHost, A) => AtMostOne(toHost', A) /\ (Took(A) => NoneOf(toHost', A))
      <3> SUFFICES ASSUME NEW A, AtMostOne(toHost, A)
                   PROVE  AtMostOne(toHost', A) /\ (Took(A) => NoneOf(toHost', A))
        OBVIOUS
      <3>1. AtMostOne(Tail(toHost), A) /\ (Head(toHost).type \in A => NoneOf(Tail(toHost), A))
        BY <2>1
      <3>2. AtMostOne(toHost', A)
        BY <2>3, <3>1
      <3>3. Took(A) => NoneOf(toHost', A)
        BY <2>2, <3>1
      <3> QED BY <3>2, <3>3
    <2>5. \A A, B : Before(toHost, A, B) => Before(toHost', A, B) /\ (Took(B) => NoneOf(toHost, A))
      <3> SUFFICES ASSUME NEW A, NEW B, Before(toHost, A, B)
                   PROVE  Before(toHost', A, B) /\ (Took(B) => NoneOf(toHost, A))
        OBVIOUS
      <3>1. Before(Tail(toHost), A, B) /\ (Head(toHost).type \in B => NoneOf(toHost, A))
        BY <2>1
      <3>2. Before(toHost', A, B)
        BY <2>3, <3>1
      <3>3. Took(B) => NoneOf(toHost, A)
        BY <2>2, <3>1
      <3> QED BY <3>2, <3>3
    <2>6. ToSet(toHost') \subseteq ToSet(toHost) /\ Head(toHost) \in ToSet(toHost)
      BY <2>1, <2>3
    <2> QED BY <1>1, <1>2, <2>4, <2>5, <2>6
  <1> QED BY <1>1, <1>3, <1>4

LEMMA MovesKeepAsk ==
    ASSUME TalkInv, NEW ms, HostMoves(ms)
    PROVE  AskInv'
  <1>1. AskInv
    BY DEF TalkInv
  <1>2. /\ ToSet(toHost') \subseteq ToSet(toHost) /\ ToSet(toView') = ToSet(toView) \cup ToSet(ms)
        /\ chat' = chat /\ issued' = issued /\ Told \subseteq Told'
    BY MovesLeave DEF HostMoves
  <1>3. Numbered'
    <2>1. HostNumbered' /\ \A m \in ToSet(ms) : m.req \in 1 .. issued
      BY DEF HostMoves, MutationMoves
    <2> QED BY <1>1, <1>2, <2>1 DEF AskInv, Numbered
  <1>4. HostTypes'
    BY DEF HostMoves
  <1>5. OneMutation'
    BY <1>1, <1>2 DEF AskInv, OneMutation
  <1>6. Awaited'
    <2>1. HostFits' /\ \A m \in ToSet(ms) : AnswerFits(m)
      BY DEF HostMoves, MutationMoves
    <2>2. (\A m \in ToSet(toHost) : IntentFits(m)) /\ \A m \in ToSet(toView) : AnswerFits(m)
      BY <1>1 DEF AskInv, Awaited
    <2>3. \A m : (IntentFits(m) <=> IntentFits(m)') /\ (AnswerFits(m) <=> AnswerFits(m)')
      BY <1>2 DEF IntentFits, AnswerFits
    <2> QED BY <1>2, <2>1, <2>2, <2>3 DEF Awaited
  <1>7. OnePlace'
    <2>1. /\ AtMostOne(toHost, Mutations) /\ AtMostOne(toView, Answers)
          /\ NoneOf(toHost, Mutations) \/ (~Deciding /\ NoneOf(toView, Answers))
          /\ Deciding => NoneOf(toView, Answers)
      BY <1>1 DEF AskInv, OnePlace
    <2>2. /\ Deciding' => Deciding \/ Took(Mutations)
          /\ AtMostOne(ms, Answers)
          /\ NoneOf(ms, Answers) \/ ((Deciding \/ Took(Mutations)) /\ ~Deciding')
      BY DEF HostMoves, MutationMoves, NoneOf
    <2>3. /\ AtMostOne(toHost', Mutations)
          /\ Took(Mutations) => NoneOf(toHost', Mutations) /\ ~NoneOf(toHost, Mutations)
          /\ NoneOf(toHost, Mutations) => NoneOf(toHost', Mutations)
      <3>1. Took(Mutations) => Head(toHost) \in ToSet(toHost) /\ Head(toHost).type \in Mutations
        BY MovesLeave DEF Took
      <3> QED BY <1>2, <2>1, <3>1, MovesLeave DEF NoneOf
    <2>4. NoneOf(toView, Answers) /\ NoneOf(ms, Answers) => NoneOf(toView', Answers)
      BY <1>2 DEF NoneOf
    <2>5. AtMostOne(toView', Answers)
      BY <2>1, <2>2, <2>3, MovesLeave
    <2> QED BY <2>1, <2>2, <2>3, <2>4, <2>5 DEF OnePlace
  <1> QED BY <1>3, <1>4, <1>5, <1>6, <1>7 DEF AskInv

LEMMA MovesKeepFollow ==
    ASSUME TalkInv, NEW ms, HostMoves(ms)
    PROVE  FollowInv'
  <1>1. AskInv /\ FollowInv
    BY DEF TalkInv
  <1>2. /\ ToSet(toHost') \subseteq ToSet(toHost) /\ ToSet(toView') = ToSet(toView) \cup ToSet(ms)
        /\ chat' = chat /\ issued' = issued
        /\ Took(Launches) => Head(toHost) \in ToSet(toHost) /\ Head(toHost).type \in Launches
    <2>1. Took(Launches) => Head(toHost).type \in Launches
      BY DEF Took
    <2> QED BY <2>1, MovesLeave
  <1>3. ActiveMoves /\ HostHushed'
    BY DEF HostMoves, RunMoves
  <1>4. \A m \in ToSet(ms) :
          /\ m.type \in Words => Tells(m)
          /\ EndsIt(m) => host'.active = 0 /\ (host.active # 0 \/ Took(Launches))
          /\ m.type \in Answers => (Deciding \/ Took(Mutations)) /\ ~Deciding' /\ Hushed(m)'
    BY DEF HostMoves, RunMoves, MutationMoves, EndsIt
  <1>5. Deciding' => Deciding \/ Took(Mutations)
    BY DEF HostMoves, MutationMoves
  <1>6. \A m : (IsWord(m) <=> IsWord(m)') /\ (EndsIt(m) <=> EndsIt(m)')
    BY <1>2 DEF IsWord, EndsIt
  <1>7. Submitted'
    <2>1. /\ AtMostOne(toHost, Launches) /\ Before(toHost, Launches, Mutations)
          /\ \A m \in ToSet(toHost) : m.type \in Launches =>
              /\ m.req = chat.active /\ m.session = chat.selected /\ host.active = 0 /\ ~Deciding
              /\ NoneOf(toView, Answers)
              /\ \A n \in ToSet(toView) : ~IsWord(n) /\ ~EndsIt(n)
      BY <1>1 DEF FollowInv, Submitted
    <2>2. AtMostOne(toHost', Launches) /\ Before(toHost', Launches, Mutations)
      BY <2>1, MovesLeave
    <2>3. ASSUME NEW m \in ToSet(toHost'), m.type \in Launches PROVE ~Took(Launches) /\ ~Took(Mutations)
      <3>1. ~NoneOf(toHost', Launches) /\ ~NoneOf(toHost, Launches)
        BY <1>2, <2>3 DEF NoneOf
      <3> QED BY <2>1, <3>1, MovesLeave
    <2>4. ASSUME NEW m \in ToSet(toHost'), m.type \in Launches
          PROVE  /\ m.req = chat.active /\ m.session = chat.selected /\ host'.active = 0 /\ ~Deciding'
                 /\ NoneOf(toView', Answers)
                 /\ \A n \in ToSet(toView') : ~IsWord(n) /\ ~EndsIt(n)
      <3>1. /\ m.req = chat.active /\ m.session = chat.selected /\ host.active = 0 /\ ~Deciding
            /\ NoneOf(toView, Answers) /\ \A n \in ToSet(toView) : ~IsWord(n) /\ ~EndsIt(n)
        BY <1>2, <2>1, <2>4
      <3>2. ~Took(Launches) /\ ~Took(Mutations)
        BY <2>3, <2>4
      <3>3. host'.active = 0 /\ ~Deciding'
        BY <1>3, <1>5, <3>1, <3>2 DEF ActiveMoves
      <3>4. \A n \in ToSet(ms) : n.type \notin Answers /\ ~IsWord(n) /\ ~EndsIt(n)
        BY <1>4, <3>1, <3>2 DEF Tells, IsWord
      <3> QED BY <1>2, <3>1, <3>3, <3>4 DEF NoneOf
    <2> QED BY <1>2, <1>6, <2>2, <2>4 DEF Submitted
  <1>8. WordsAgree /\ ActiveFollowed /\ Submitted /\ AnswersHushed
    BY <1>1 DEF FollowInv
  <1>9. ActiveFollowed'
    <2> SUFFICES ASSUME host'.active # 0
                 PROVE  /\ chat.active = host'.active
                        /\ chat.selected # NoSession => runs'[host'.active].session = chat.selected
                        /\ \A n \in ToSet(toView') :
                              (IsWord(n) => n.session = runs'[host'.active].session) /\ ~EndsIt(n)
      BY <1>2, <1>6 DEF ActiveFollowed
    <2>1. \A n \in ToSet(ms) : ~EndsIt(n) /\ (IsWord(n) => Tells(n))
      BY <1>4 DEF IsWord
    <2>2. CASE /\ host'.active = host.active
               /\ \/ runs'[host.active].session = runs[host.active].session
                  \/ runs[host.active].session = NoSession /\ runs'[host.active].session \notin Told
      <3>1. /\ chat.active = host.active
            /\ chat.selected # NoSession => runs[host.active].session = chat.selected
            /\ \A n \in ToSet(toView) : (IsWord(n) => n.session = runs[host.active].session) /\ ~EndsIt(n)
        BY <1>8, <2>2 DEF ActiveFollowed
      <3>2. \A n \in ToSet(toView) : IsWord(n) => n.session = runs'[host.active].session
        BY <1>8, <2>2, <3>1 DEF WordsAgree, IsWord
      <3> QED BY <1>2, <2>1, <2>2, <3>1, <3>2 DEF Tells
    <2>3. CASE /\ Took(Launches) /\ host'.active = Head(toHost).req
               /\ runs'[Head(toHost).req].session = Head(toHost).session
      <3>1. /\ Head(toHost).req = chat.active /\ Head(toHost).session = chat.selected /\ host.active = 0
            /\ \A n \in ToSet(toView) : ~IsWord(n) /\ ~EndsIt(n)
        BY <1>2, <1>8, <2>3 DEF Submitted
      <3> QED BY <1>2, <2>1, <2>3, <3>1 DEF Tells
    <2> QED BY <1>3, <2>2, <2>3 DEF ActiveMoves
  <1>10. WordsAgree'
    <2>1. \A m \in ToSet(toView) : m.type \in Words =>
            /\ m.session # NoSession
            /\ IsWord(m) /\ chat.selected # NoSession => m.session = chat.selected
            /\ \A n \in ToSet(toView) : IsWord(m) /\ IsWord(n) => m.session = n.session
      BY <1>8 DEF WordsAgree
    <2>2. ASSUME NEW m \in ToSet(ms), m.type \in Words
          PROVE  /\ m.session # NoSession /\ m.session = runs'[host.active].session
                 /\ IsWord(m) /\ chat.selected # NoSession => m.session = chat.selected
                 /\ \A n \in ToSet(toView) : IsWord(m) /\ IsWord(n) => m.session = n.session
      <3>1. Tells(m)
        BY <1>4, <2>2
      <3>2. host.active # 0 /\ m.session # NoSession /\ runs[host.active].session \in {NoSession, m.session}
            /\ m.session = runs'[host.active].session
        BY <3>1 DEF Tells
      <3>3. chat.selected # NoSession => runs[host.active].session = chat.selected
        BY <1>8, <3>2 DEF ActiveFollowed
      <3>4. \A n \in ToSet(toView) : IsWord(n) => n.session = runs[host.active].session /\ n.session # NoSession
        BY <1>8, <2>1, <3>2 DEF ActiveFollowed, IsWord
      <3> QED BY <3>2, <3>3, <3>4
    <2>3. ASSUME NEW m \in ToSet(toView'), m.type \in Words
          PROVE  /\ m.session # NoSession
                 /\ IsWord(m) /\ chat.selected # NoSession => m.session = chat.selected
                 /\ \A n \in ToSet(toView') : IsWord(m) /\ IsWord(n) => m.session = n.session
      <3>1. \A n : IsWord(n) => n.type \in Words
        BY DEF IsWord
      <3> QED BY <1>2, <2>1, <2>2, <2>3, <3>1
    <2> QED BY <1>2, <1>6, <2>3 DEF WordsAgree
  <1>11. AnswersHushed'
    <2> SUFFICES ASSUME NEW m \in ToSet(toView'), m.type \in Answers PROVE Hushed(m)'
      BY DEF AnswersHushed
    <2>1. CASE m \in ToSet(ms)
      BY <1>4, <2>1
    <2>2. CASE m \in ToSet(toView)
      <3>1. Hushed(m) /\ ~NoneOf(toView, Answers)
        BY <1>8, <2>2 DEF AnswersHushed, NoneOf
      <3>2. ~Took(Launches)
        BY <1>2, <1>8, <3>1 DEF Submitted
      <3>3. chat.delete # 0 => chat.deleteTarget \in Told
        BY <1>1 DEF AskInv, OneMutation
      <3>4. \/ host'.active = 0
            \/ /\ host'.active = host.active
               /\ \/ runs'[host.active].session = runs[host.active].session
                  \/ runs[host.active].session = NoSession /\ runs'[host.active].session \notin Told
        BY <1>3, <3>2 DEF ActiveMoves
      <3>5. host.active = 0 => host'.active = 0
        BY <3>4
      <3>6. chat.delete # 0 /\ Quieted(chat.deleteTarget) => Quieted(chat.deleteTarget)'
        BY <1>2, <3>3, <3>4 DEF Quieted
      <3> QED BY <1>2, <3>1, <3>5, <3>6 DEF Hushed
    <2> QED BY <1>2, <2>1, <2>2
  <1> QED BY <1>3, <1>7, <1>9, <1>10, <1>11 DEF FollowInv

LEMMA MovesKeep ==
    ASSUME TalkInv, ViewInv', NEW ms, HostMoves(ms)
    PROVE  TalkInv'
  BY MovesKeepAsk, MovesKeepFollow DEF TalkInv

-----------------------------------------------------------------------------
(* The steps of the Host.                                                  *)

LEMMA ToldIs ==
    ASSUME ViewInv
    PROVE  /\ host \in Hosts(Told) /\ runs \in [Requests -> RunRecords(Told)]
           /\ Told \subseteq AnySession /\ NoSession \in Told
           /\ \A r \in Requests : /\ runs[r].on \in AnySession
                                  /\ runs[r].phase = "reporting" =>
                                        /\ runs[r].on \in stored /\ runs[r].on # NoSession
                                        /\ runs[r].session \in {NoSession, runs[r].on}
  <1>1. \A r \in Requests : runs[r].on \in AnySession
    BY DEF ViewInv, Named, RunRecords
  <1>2. \A r \in Requests : runs[r].phase = "reporting" =>
           /\ runs[r].on \in stored /\ runs[r].on # NoSession /\ runs[r].session \in {NoSession, runs[r].on}
    BY SessionAssumption DEF ViewInv, Places
  <1> QED BY <1>1, <1>2, Channels DEF ViewInv, Named

\* The intent at hand names a request that was made.
LEMMA HeadIs ==
    ASSUME TalkInv, toHost # <<>>
    PROVE  /\ Head(toHost) \in ToSet(toHost) /\ Head(toHost) \in Intents(Told)
           /\ Head(toHost).req \in 0 .. issued /\ Head(toHost).session \in Told
           /\ Head(toHost).type # "select-session" => Head(toHost).req \in 1 .. issued
           /\ 0 .. issued \subseteq 0 .. MaxRequests /\ 1 .. issued \subseteq Requests /\ issued \in Nat
  <1>1. toHost \in Seq(Intents(Told))
    BY DEF TalkInv, ViewInv, Named
  <1>2. Head(toHost) \in ToSet(toHost) /\ Head(toHost) \in Intents(Told)
    BY <1>1, Taken
  <1>3. Numbered
    BY DEF TalkInv, AskInv
  <1> QED BY <1>2, <1>3, RequestsAssumption DEF Numbered, Intents, Requests

\* A step that is not about a deletion and leaves the Runs as the view knows them.
Aside(ms) ==
    /\ Travels(ms) /\ Told \subseteq Told'
    /\ host'.active = host.active /\ host'.settling = host.settling /\ host'.reset = host.reset
    /\ \A r \in Requests : /\ runs'[r].session = runs[r].session /\ runs'[r].started = runs[r].started
                           /\ runs'[r].left \in 0 .. MaxEvents
    /\ \/ host'.job = host.job /\ (host'.owned = host.owned \/ host.job.kind # "delete")
       \/ /\ host.job.kind \in {"none", "restore"} /\ host'.job.kind \in {"none", "restore"}
          /\ host'.job.req \in 0 .. issued /\ (host'.job.kind = "restore" => host'.job.req # 0)
          /\ host'.job.step = "read" => host'.job.session # NoSession
    /\ \/ host'.list = host.list /\ host'.lock = host.lock
       \/ /\ host'.list.req \in 0 .. issued /\ host.reset.step # "settling"
          /\ host'.lock <=> host'.list.req # 0
    /\ NoSession \notin host'.known \cup host'.list.found
    /\ \A m \in ToSet(ms) : /\ m.req \in 1 .. issued /\ m.type \notin Answers \cup Words
                            /\ m.type = "run-status" => host.active = 0 /\ Took(Launches)
    /\ StoreMoves(ms)

LEMMA AsideMoves ==
    ASSUME TalkInv, NEW ms, Aside(ms)
    PROVE  HostMoves(ms)
  <1>1. Numbered /\ HostTypes /\ Awaited /\ HostHushed
    BY DEF TalkInv, AskInv, FollowInv
  <1>2. UNCHANGED <<chat, issued>>
    BY DEF Aside, Travels
  <1>3. host.active # 0 => host.active \in Requests
    BY <1>1, RequestsAssumption DEF Numbered, HostNumbered, Requests
  <1>4. HostNumbered'
    BY <1>1, <1>2 DEF Aside, Numbered, HostNumbered
  <1>5. HostTypes'
    BY <1>1 DEF Aside, HostTypes
  <1>6. HostFits'
    BY <1>1, <1>2 DEF Aside, Awaited, HostFits
  <1>7. HostHushed'
    <2>1. host'.job.kind = "clear" \/ host'.reset.step = "settling" => host'.active = 0
      BY <1>1 DEF Aside, HostHushed
    <2>2. host'.lock <=> host'.list.req # 0 \/ host'.reset.step = "settling"
      BY <1>1 DEF Aside, HostHushed
    <2>3. host'.job.kind = "delete" =>
            /\ host'.active # 0 => runs'[host'.active].session # host'.job.session
            /\ host'.active # 0 /\ runs'[host'.active].session = NoSession => host'.owned # host'.job.session
      BY <1>1, <1>3 DEF Aside, HostHushed, Quieted
    <2> QED BY <2>1, <2>2, <2>3 DEF HostHushed, Quieted
  <1>8. MutationMoves(ms)
    <2>1. Deciding' => Deciding
      BY DEF Aside, Deciding
    <2>2. \A i \in DOMAIN ms : ms[i] \in ToSet(ms)
      BY DEF ToSet
    <2>3. AtMostOne(ms, Answers)
      BY <2>2 DEF Aside, AtMostOne
    <2>4. \A m \in ToSet(ms) : m.req \in 1 .. issued /\ AnswerFits(m) /\ m.type \notin Answers
      BY DEF Aside, AnswerFits, Answers
    <2> QED BY <2>1, <2>3, <2>4 DEF MutationMoves
  <1>9. RunMoves(ms)
    <2>1. ActiveMoves
      BY <1>3 DEF Aside, ActiveMoves
    <2> QED BY <2>1 DEF Aside, RunMoves
  <1>10. TextMoves(ms)
    <2>1. \A k \in DOMAIN ms : ms[k] \in ToSet(ms)
      BY DEF ToSet
    <2>2. \A k \in DOMAIN ms : ms[k].type # "text-delta"
      BY <2>1 DEF Aside, Words
    <2> QED BY <1>3, <2>2 DEF Aside, TextMoves
  <1> QED BY <1>4, <1>5, <1>6, <1>7, <1>8, <1>9, <1>10 DEF HostMoves, Aside

LEMMA NothingPosted ==
    ASSUME ViewInv, PostNothing
    PROVE  toView' = toView \o <<>> /\ <<>> \in Seq(Messages(AnySession)) /\ ToSet(<<>>) = {}
  <1>1. toView \in Seq(Messages(AnySession))
    BY Channels
  <1> QED BY <1>1, Few DEF PostNothing

LEMMA PostedAre ==
    ASSUME NEW req \in Nat
    PROVE  /\ \A type \in MessageTypes : Notice(type, req) \in Messages(AnySession)
           /\ RunStatus(req, "failed") \in Messages(AnySession)
           /\ \A code \in {"unavailable", "partial"} : DeletionError(req, code) \in Messages(AnySession)
           /\ \A s \in AnySession, type \in MessageTypes : Message(type, req, s, "", {}) \in Messages(AnySession)
           /\ \A found \in SUBSET AnySession : Message("session-list", req, NoSession, "", found) \in Messages(AnySession)
           /\ \A outcome \in {"cancelled", "partial", "completed"} :
                 Message("local-data-clear-result", req, NoSession, outcome, {}) \in Messages(AnySession)
           /\ \A x \in Messages(AnySession) : <<x>> \in Seq(Messages(AnySession))
           /\ \A x, y \in Messages(AnySession) : <<x, y>> \in Seq(Messages(AnySession))
           /\ <<>> \in Seq(Messages(AnySession))
  <1> DEFINE A == AnySession
  <1>1. NoSession \in A
    BY DEF AnySession
  <1> HIDE DEF A
  <1>2. /\ \A type \in MessageTypes : Notice(type, req) \in Messages(A)
        /\ RunStatus(req, "failed") \in Messages(A)
        /\ \A code \in {"unavailable", "partial"} : DeletionError(req, code) \in Messages(A)
        /\ \A s \in A, type \in MessageTypes : Message(type, req, s, "", {}) \in Messages(A)
        /\ \A found \in SUBSET A : Message("session-list", req, NoSession, "", found) \in Messages(A)
        /\ \A outcome \in {"cancelled", "partial", "completed"} :
              Message("local-data-clear-result", req, NoSession, outcome, {}) \in Messages(A)
        /\ \A x \in Messages(A) : <<x>> \in Seq(Messages(A))
        /\ \A x, y \in Messages(A) : <<x, y>> \in Seq(Messages(A))
        /\ <<>> \in Seq(Messages(A))
    BY <1>1, AnswersAre
  <1> QED BY <1>2 DEF A

\* The Host keeps what it has, and may say so.
LEMMA SameMoves ==
    ASSUME TalkInv, UNCHANGED <<host, runs, stored, used>>, NEW ms, Travels(ms),
           \A m \in ToSet(ms) : /\ m.req \in 1 .. issued /\ m.type \in {"run-error", "session-error", "run-status"}
                                /\ m.type = "run-status" => host.active = 0 /\ Took(Launches)
    PROVE  HostMoves(ms)
  <1>1. HostTypes
    BY DEF TalkInv, AskInv
  <1>2. Told' = Told
    BY DEF Told, HiddenRuns
  <1>3. StoreMoves(ms)
    BY DEF StoreMoves
  <1>4. Aside(ms)
    BY <1>1, <1>2, <1>3 DEF Aside, HostTypes, Answers, Words
  <1> QED BY <1>4, AsideMoves

\* m tells how a deletion or clearing ended.
Concludes(m) ==
    /\ m.type \in Answers /\ m.req \in 1 .. issued /\ AnswerFits(m)
    /\ Deciding \/ Took(Mutations)
    /\ ~Deciding' /\ Hushed(m)'
    /\ m.type = "session-deleted" => m.session \in used \ stored'
\* A step that begins or ends a deletion or clearing, or ends the active Run.
Decides(ms) ==
    /\ Travels(ms) /\ used' = used /\ stored' \subseteq stored
    /\ \A r \in Requests : /\ runs'[r].session = runs[r].session /\ runs'[r].started = runs[r].started
                           /\ runs'[r].left = runs[r].left /\ runs'[r].phase = runs[r].phase
                           /\ runs'[r].on = runs[r].on
    /\ host'.active \in {0, host.active} /\ host'.settling \subseteq host.settling \cup ({host.active} \ {0})
    /\ host'.list.req = host.list.req /\ host'.list.read = host.list.read /\ host'.list.found = host.list.found
    /\ NoSession \notin host'.known
    /\ host'.job.req \in 0 .. issued /\ host'.reset.req \in 0 .. issued
    /\ host'.job.step = "read" => host'.job.session # NoSession
    /\ HostFits' /\ HostHushed' /\ (Deciding' => Deciding \/ Took(Mutations))
    /\ \/ ms = <<>>
       \/ ms = <<RunStatus(host.active, "cancelled")>> /\ host.active # 0 /\ host'.active = 0
       \/ \E m : ms = <<m>> /\ Concludes(m)

LEMMA DecidesMoves ==
    ASSUME TalkInv, NEW ms, Decides(ms)
    PROVE  HostMoves(ms)
  <1>1. Numbered /\ HostTypes /\ Awaited /\ HostHushed /\ stored \subseteq used
    BY DEF TalkInv, AskInv, FollowInv, ViewInv
  <1>2. UNCHANGED <<chat, issued>> /\ Travels(ms)
    BY DEF Decides, Travels
  <1>3. host.active # 0 => host.active \in Requests /\ host.active \in 1 .. issued
    BY <1>1, RequestsAssumption DEF Numbered, HostNumbered, Requests
  <1>4. HostNumbered'
    BY <1>1, <1>2, <1>3 DEF Decides, Numbered, HostNumbered
  <1>5. HostTypes'
    BY <1>1 DEF Decides, HostTypes
  <1>6. Told' = Told
    <2>1. HiddenRuns' = HiddenRuns /\ \A r \in Requests : runs'[r].on = runs[r].on
      BY DEF Decides, HiddenRuns, Hidden
    <2> QED BY <2>1 DEF Told, Decides, HiddenRuns
  <1>7. \/ ms = <<>> /\ ToSet(ms) = {} /\ DOMAIN ms = {}
        \/ \E m : ToSet(ms) = {m} /\ DOMAIN ms = {1} /\ ms[1] = m
                  /\ m.type = "run-status" /\ m.req = host.active /\ host.active # 0 /\ host'.active = 0
        \/ \E m : ToSet(ms) = {m} /\ DOMAIN ms = {1} /\ ms[1] = m
                  /\ m.type \in Answers /\ m.req \in 1 .. issued /\ AnswerFits(m) /\ (Deciding \/ Took(Mutations))
                  /\ ~Deciding' /\ Hushed(m)'
                  /\ (m.type = "session-deleted" => m.session \in used \ stored')
    <2>1. RunStatus(host.active, "cancelled").type = "run-status" /\ RunStatus(host.active, "cancelled").req = host.active
      BY DEF RunStatus, Message
    <2> QED BY <2>1, Few DEF Decides, Concludes
  <1>8. MutationMoves(ms)
    <2>1. AtMostOne(ms, Answers)
      BY <1>7 DEF AtMostOne
    <2>2. Deciding' => Deciding \/ Took(Mutations)
      BY DEF Decides
    <2>3. \A m \in ToSet(ms) : m.req \in 1 .. issued /\ AnswerFits(m)
      BY <1>3, <1>7 DEF AnswerFits
    <2>4. \A m \in ToSet(ms) : m.type \in Answers =>
              (Deciding \/ Took(Mutations)) /\ ~Deciding' /\ Hushed(m)' /\ NoneOf(ms, Words)
      BY <1>7 DEF Answers, Words, NoneOf
    <2> QED BY <2>1, <2>2, <2>3, <2>4 DEF MutationMoves
  <1>9. RunMoves(ms)
    <2>1. ActiveMoves
      BY <1>3 DEF Decides, ActiveMoves
    <2>2. \A m \in ToSet(ms) : m.type \notin Words
      BY <1>7 DEF Answers, Words
    <2>3. \A m \in ToSet(ms) : m.type = "run-status" => host'.active = 0 /\ host.active # 0
      BY <1>7 DEF Answers
    <2> QED BY <2>1, <2>2, <2>3 DEF RunMoves
  <1>10. StoreMoves(ms)
    <2>1. \A m \in ToSet(ms) : m.type # "session-list" /\ (m.type = "session-deleted" => m.session \in used \ stored')
      BY <1>7 DEF Answers
    <2> QED BY <2>1 DEF Decides, StoreMoves
  <1>11. TextMoves(ms)
    <2>1. \A k \in DOMAIN ms : ms[k].type # "text-delta"
      BY <1>7 DEF Answers
    <2>2. host'.active # 0 /\ runs'[host'.active].started => host'.active = host.active /\ runs[host.active].started
      BY <1>3 DEF Decides
    <2> QED BY <2>1, <2>2 DEF TextMoves
  <1>12. HostFits' /\ HostHushed'
    BY DEF Decides
  <1> QED BY <1>2, <1>4, <1>5, <1>6, <1>8, <1>9, <1>10, <1>11, <1>12 DEF HostMoves

\* The active Run is cancelled; the rest of the Host is as h says.
LEMMA CancelledIs ==
    ASSUME ViewInv, host.active = 0 \/ host.active \in Requests,
           NEW h \in Hosts(Told), h.active = host.active, h.settling = host.settling, CancelActive(h)
    PROVE  /\ host'.active = 0 /\ host'.settling \subseteq host.settling \cup ({host.active} \ {0})
           /\ host'.list = h.list /\ host'.lock = h.lock /\ host'.reset = h.reset /\ host'.job = h.job
           /\ host'.known = h.known /\ host'.owned = h.owned
           /\ \A r \in Requests : /\ runs'[r].session = runs[r].session /\ runs'[r].started = runs[r].started
                                  /\ runs'[r].left = runs[r].left /\ runs'[r].phase = runs[r].phase
                                  /\ runs'[r].on = runs[r].on
           /\ \E ms : /\ ms = <<>> \/ (ms = <<RunStatus(host.active, "cancelled")>> /\ host.active # 0)
                      /\ toView' = toView \o ms /\ ms \in Seq(Messages(AnySession))
  <1>1. runs \in [Requests -> RunRecords(Told)] /\ NoSession \in AnySession
    BY ToldIs DEF AnySession
  <1> DEFINE a == host.active
  <1>2. CASE a = 0
    <2>1. host' = h /\ runs' = runs /\ PostNothing
      BY <1>2 DEF CancelActive, NoRequest
    <2> QED BY <1>2, <2>1, NothingPosted
  <1>3. CASE a \in Requests
    <2>1. a # 0 /\ a \in Nat
      BY <1>3 DEF Requests
    <2>2. /\ host' = Finished(h, a) /\ runs' = CancelledRun(a) /\ toView' = toView \o <<RunStatus(a, "cancelled")>>
      BY <2>1 DEF CancelActive, Post, NoRequest
    <2>3. <<RunStatus(a, "cancelled")>> \in Seq(Messages(AnySession))
      <3>1. RunStatus(a, "cancelled") \in Messages(AnySession)
        <4> DEFINE A == AnySession
        <4>1. NoSession \in A
          BY <1>1
        <4> HIDE DEF A
        <4>2. RunStatus(a, "cancelled") \in Messages(A)
          BY <2>1, <4>1 DEF RunStatus, Message, Messages, MessageTypes, Statuses
        <4> QED BY <4>2 DEF A
      <3> QED BY <2>1, <3>1, PostedAre
    <2> HIDE DEF Told
    <2>4. /\ host'.active = 0 /\ host'.settling = host.settling \cup {a}
          /\ host'.list = h.list /\ host'.lock = h.lock /\ host'.reset = h.reset /\ host'.job = h.job
          /\ host'.known = h.known /\ host'.owned = h.owned
      BY <2>2 DEF Finished, Hosts, NoRequest
    <2> DEFINE x == [runs[a] EXCEPT !.aborted = TRUE, !.terminalSent = TRUE]
    <2>5. runs' = [runs EXCEPT ![a] = x]
      BY <1>1, <1>3, <2>2 DEF CancelledRun
    <2>6. /\ x.phase = runs[a].phase /\ x.on = runs[a].on /\ x.session = runs[a].session
          /\ x.started = runs[a].started /\ x.left = runs[a].left
      BY <1>1, <1>3 DEF RunRecords
    <2> HIDE DEF x
    <2>7. \A r \in Requests : runs'[r] = IF r = a THEN x ELSE runs[r]
      BY <1>1, <2>5
    <2>8. host'.settling \subseteq host.settling \cup ({host.active} \ {0})
      BY <2>1, <2>4
    <2> QED BY <2>1, <2>2, <2>3, <2>4, <2>6, <2>7, <2>8
  <1> QED BY <1>2, <1>3

LEMMA ActiveIs ==
    ASSUME TalkInv
    PROVE  /\ host.active = 0 \/ (host.active \in Requests /\ host.active \in 1 .. issued)
           /\ host.list.req \in 0 .. issued /\ host.job.req \in 0 .. issued /\ host.reset.req \in 0 .. issued
           /\ host \in Hosts(Told) /\ issued \in Nat /\ 1 .. issued \subseteq Requests
           /\ HostNumbered /\ HostTypes /\ HostFits /\ HostHushed /\ OneMutation
  <1>1. Numbered /\ HostTypes /\ Awaited /\ HostHushed /\ OneMutation
    BY DEF TalkInv, AskInv, FollowInv
  <1>2. host \in Hosts(Told)
    BY ToldIs DEF TalkInv
  <1> QED BY <1>1, <1>2, RequestsAssumption DEF Numbered, HostNumbered, Requests, Awaited

\* The question the view waits for is launched.
LEMMA LaunchMoves ==
    ASSUME TalkInv, Took(Launches), UNCHANGED <<chat, issued, stored, used>>,
           Launch(Head(toHost).req, Head(toHost).session)
    PROVE  HostMoves(<<RunStatus(Head(toHost).req, "preparing")>>)
  <1> DEFINE m == Head(toHost)
             p == RunStatus(m.req, "preparing")
             x == [NoRun EXCEPT !.phase = "opening", !.session = m.session, !.left = MaxEvents]
  <1>1. /\ toHost # <<>> /\ toHost' = Tail(toHost) /\ m.type \in Launches
    BY DEF Took
  <1>2. m \in ToSet(toHost) /\ m.req \in 1 .. issued /\ m.req \in Requests /\ m.session \in Told
    BY <1>1, HeadIs DEF Launches
  <1>3. host.active = 0 /\ ~Deciding
    BY <1>1, <1>2 DEF TalkInv, FollowInv, Submitted
  <1>4. /\ runs' = [runs EXCEPT ![m.req] = x] /\ toView' = toView \o <<p>>
        /\ host' = [host EXCEPT !.active = m.req, !.settling = host.settling \cup {m.req}]
    BY DEF Launch, Post
  <1>5. /\ host \in Hosts(Told) /\ HostNumbered /\ HostTypes /\ HostFits /\ HostHushed
        /\ runs \in [Requests -> RunRecords(Told)]
    BY ActiveIs, ToldIs DEF TalkInv
  <1>6. x.session = m.session /\ x.started = FALSE /\ x.left = MaxEvents /\ x.phase = "opening"
    BY DEF NoRun
  <1>7. p.type = "run-status" /\ p.req = m.req /\ p.status = "preparing"
    BY DEF RunStatus, Message
  <1>8. Travels(<<p>>)
    <2>1. p \in Messages(AnySession)
      <3> DEFINE A == AnySession
      <3>1. NoSession \in A /\ m.req \in Nat
        BY <1>2 DEF AnySession, Requests
      <3> HIDE DEF A, m
      <3>2. p \in Messages(A)
        BY <3>1 DEF RunStatus, Message, Messages, MessageTypes, Statuses
      <3> QED BY <3>2 DEF A
    <2> HIDE DEF p, m
    <2>2. <<p>> \in Seq(Messages(AnySession))
      BY <2>1
    <2> QED BY <1>1, <1>4, <2>2 DEF Travels
  <1> HIDE DEF x, p, m
  <1>9. \A r \in Requests : runs'[r] = IF r = m.req THEN x ELSE runs[r]
    BY <1>4, <1>5
  <1>10. Told \subseteq Told'
    BY <1>6, <1>9, Grows DEF Hidden
  <1>11. /\ host'.active = m.req /\ host'.settling = host.settling \cup {m.req} /\ host'.owned = host.owned
         /\ host'.lock = host.lock /\ host'.list = host.list /\ host'.job = host.job /\ host'.known = host.known
         /\ host'.reset = host.reset
    BY <1>4, <1>5 DEF Hosts
  <1>12. HostNumbered' /\ HostTypes' /\ HostFits' /\ HostHushed'
    <2>1. HostNumbered'
      BY <1>2, <1>5, <1>11 DEF HostNumbered
    <2>2. HostTypes'
      BY <1>5, <1>6, <1>9, <1>11, EventsAssumption DEF HostTypes
    <2>3. HostFits'
      BY <1>5, <1>11 DEF HostFits
    <2>4. HostHushed'
      BY <1>3, <1>5, <1>11 DEF HostHushed, Deciding
    <2> QED BY <2>1, <2>2, <2>3, <2>4
  <1>13. ToSet(<<p>>) = {p} /\ DOMAIN <<p>> = {1} /\ <<p>>[1] = p
    BY Few
  <1>14. MutationMoves(<<p>>)
    <2>1. AtMostOne(<<p>>, Answers)
      BY <1>13 DEF AtMostOne
    <2>2. ~Deciding'
      BY <1>3, <1>11 DEF Deciding
    <2>3. AnswerFits(p) /\ p.req \in 1 .. issued /\ p.type \notin Answers
      BY <1>2, <1>7 DEF AnswerFits, Answers
    <2> QED BY <1>13, <2>1, <2>2, <2>3 DEF MutationMoves
  <1>15. RunMoves(<<p>>)
    <2>1. ActiveMoves
      BY <1>2, <1>6, <1>9, <1>11 DEF ActiveMoves, m
    <2> QED BY <1>7, <1>13, <2>1 DEF RunMoves, Words, Terminal
  <1>16. StoreMoves(<<p>>)
    BY <1>7, <1>11, <1>13 DEF StoreMoves
  <1>17. TextMoves(<<p>>)
    BY <1>2, <1>6, <1>7, <1>9, <1>11, <1>13 DEF TextMoves
  <1>18. HostMoves(<<p>>)
    BY <1>8, <1>10, <1>12, <1>14, <1>15, <1>16, <1>17 DEF HostMoves
  <1> QED BY <1>18 DEF p, m

LEMMA RunIntentsMove ==
    ASSUME TalkInv, HandleSubmit \/ HandleReplace \/ HandleCancel, UNCHANGED <<chat, issued>>
    PROVE  \E ms : HostMoves(ms)
  <1> DEFINE m == Head(toHost)
  <1>1. toHost # <<>> /\ toHost' = Tail(toHost) /\ UNCHANGED <<stored, used>> /\ m.type # "select-session"
        /\ ~IsResetting
    BY DEF HandleSubmit, HandleReplace, HandleCancel, Handles
  <1>2. m.req \in 1 .. issued /\ m.req \in Nat /\ ViewInv
    BY <1>1, HeadIs DEF TalkInv
  <1>3. CASE UNCHANGED <<host, runs>> /\ PostNothing
    <2>1. Travels(<<>>) /\ ToSet(<<>>) = {}
      BY <1>1, <1>2, <1>3, NothingPosted DEF Travels
    <2> QED BY <1>1, <1>3, <2>1, SameMoves
  <1>4. CASE ~HandleCancel /\ Launch(m.req, m.session)
    <2>1. Took(Launches)
      BY <1>1, <1>4 DEF Took, HandleSubmit, HandleReplace, Handles, Launches
    <2> QED BY <1>1, <2>1, <1>4, LaunchMoves
  <1>5. CASE HandleReplace /\ CanStart /\ UNCHANGED <<host, runs>>
             /\ Post(<<Notice("run-error", m.req), RunStatus(m.req, "failed")>>)
    <2> DEFINE a == Notice("run-error", m.req)
               b == RunStatus(m.req, "failed")
    <2>1. a \in Messages(AnySession) /\ b \in Messages(AnySession) /\ <<a, b>> \in Seq(Messages(AnySession))
      BY <1>2, PostedAre DEF MessageTypes
    <2>2. a.type = "run-error" /\ a.req = m.req /\ b.type = "run-status" /\ b.req = m.req
      BY DEF Notice, RunStatus, Message
    <2>3. host.active = 0 /\ Took(Launches)
      BY <1>1, <1>5 DEF Took, HandleReplace, Handles, Launches, CanStart, NoRequest
    <2>4. toView' = toView \o <<a, b>>
      BY <1>5 DEF Post
    <2> HIDE DEF a, b, m
    <2>5. Travels(<<a, b>>) /\ ToSet(<<a, b>>) = {a, b}
      BY <1>1, <2>1, <2>4, Few DEF Travels
    <2> QED BY <1>1, <1>2, <1>5, <2>2, <2>3, <2>5, SameMoves
  <1>6. CASE HandleCancel /\ CancelActive(host)
    <2>1. /\ host'.active = 0 /\ host'.settling \subseteq host.settling \cup ({host.active} \ {0})
          /\ host'.list = host.list /\ host'.lock = host.lock /\ host'.reset = host.reset /\ host'.job = host.job
          /\ host'.known = host.known /\ host'.owned = host.owned
          /\ \A r \in Requests : /\ runs'[r].session = runs[r].session /\ runs'[r].started = runs[r].started
                                 /\ runs'[r].left = runs[r].left /\ runs'[r].phase = runs[r].phase
                                 /\ runs'[r].on = runs[r].on
          /\ \E ms : /\ ms = <<>> \/ (ms = <<RunStatus(host.active, "cancelled")>> /\ host.active # 0)
                     /\ toView' = toView \o ms /\ ms \in Seq(Messages(AnySession))
      BY <1>2, <1>6, ActiveIs, CancelledIs
    <2>2. PICK ms : /\ ms = <<>> \/ (ms = <<RunStatus(host.active, "cancelled")>> /\ host.active # 0)
                    /\ toView' = toView \o ms /\ ms \in Seq(Messages(AnySession))
      BY <2>1
    <2>3. Travels(ms)
      BY <1>1, <2>2 DEF Travels
    <2>4. HostFits' /\ HostHushed' /\ (Deciding' => Deciding)
      BY <1>1, <2>1, ActiveIs DEF HostFits, HostHushed, Quieted, Deciding
    <2>5. Decides(ms)
      BY <1>1, <2>1, <2>2, <2>3, <2>4, ActiveIs DEF Decides, HostTypes
    <2> QED BY <2>5, DecidesMoves
  <1> QED BY <1>3, <1>4, <1>5, <1>6 DEF HandleSubmit, HandleReplace, HandleCancel

LEMMA NoJobIs == NoJob.kind = "none" /\ NoJob.req = 0 /\ NoJob.step = "" /\ NoReset.step = "none" /\ NoReset.req = 0
  BY DEF NoJob, NoReset, NoRequest

LEMMA SessionIntentsMove ==
    ASSUME TalkInv, HandleNewChat \/ HandleList \/ HandleSelect \/ HandleRestore \/ DropIntent,
           UNCHANGED <<chat, issued>>
    PROVE  \E ms : HostMoves(ms)
  <1> DEFINE m == Head(toHost)
  <1>1. toHost # <<>> /\ toHost' = Tail(toHost) /\ UNCHANGED <<runs, stored, used>>
    BY DEF HandleNewChat, HandleList, HandleSelect, HandleRestore, DropIntent, Handles, hostVars
  <1>2. /\ m.req \in 0 .. issued /\ (m.type # "select-session" => m.req \in 1 .. issued)
        /\ ViewInv /\ issued \in Nat
    BY <1>1, HeadIs DEF TalkInv
  <1>3. /\ host \in Hosts(Told) /\ HostTypes /\ HostHushed
        /\ (host.active = 0 \/ (host.active \in Requests /\ host.active \in 1 .. issued))
    BY ActiveIs
  <1>4. Told' = Told
    BY <1>1 DEF Told, HiddenRuns
  <1>5. PostNothing => Travels(<<>>) /\ ToSet(<<>>) = {}
    BY <1>1, <1>2, NothingPosted DEF Travels
  <1>6. CASE HandleNewChat
    <2>1. host' = host \/ (~IsRestoring /\ host' = [host EXCEPT !.owned = NoSession])
      BY <1>6 DEF HandleNewChat
    <2>2. CASE host' = host
      BY <1>1, <1>5, <1>6, <2>2, SameMoves DEF HandleNewChat
    <2>3. CASE ~IsRestoring /\ host' = [host EXCEPT !.owned = NoSession]
      <3>1. host.job.kind = "none"
        BY <2>3, NoJobIs DEF IsRestoring
      <3> HIDE DEF Told
      <3>2. /\ host'.active = host.active /\ host'.settling = host.settling /\ host'.reset = host.reset
            /\ host'.job = host.job /\ host'.list = host.list /\ host'.lock = host.lock /\ host'.known = host.known
        BY <1>3, <2>3 DEF Hosts
      <3>3. StoreMoves(<<>>)
        BY <1>1, <3>2, Few DEF StoreMoves
      <3>4. Aside(<<>>)
        BY <1>1, <1>3, <1>4, <1>5, <1>6, <3>1, <3>2, <3>3 DEF Aside, HandleNewChat, HostTypes
      <3> QED BY <3>4, AsideMoves
    <2> QED BY <2>1, <2>2, <2>3
  <1>7. CASE HandleList
    <2> DEFINE l == [NoList EXCEPT !.req = m.req, !.latest = TRUE]
    <2>1. host' = host \/ (CanListSessions /\ host' = [host EXCEPT !.lock = TRUE, !.list = l])
      BY <1>7 DEF HandleList
    <2>2. CASE host' = host
      BY <1>1, <1>5, <1>7, <2>2, SameMoves DEF HandleList
    <2>3. CASE CanListSessions /\ host' = [host EXCEPT !.lock = TRUE, !.list = l]
      <3>1. l.req = m.req /\ l.read = FALSE /\ l.found = {}
        BY DEF NoList
      <3>2. m.req \in 1 .. issued /\ ~host.lock
        BY <1>2, <1>7, <2>3 DEF HandleList, Handles, CanListSessions, CanStart
      <3> HIDE DEF Told, l
      <3>3. /\ host'.active = host.active /\ host'.settling = host.settling /\ host'.reset = host.reset
            /\ host'.job = host.job /\ host'.list = l /\ host'.lock = TRUE /\ host'.known = host.known
            /\ host'.owned = host.owned
        BY <1>3, <2>3 DEF Hosts
      <3>4. StoreMoves(<<>>)
        BY <1>1, <3>1, <3>3, Few DEF StoreMoves
      <3>5. host.reset.step # "settling"
        BY <1>3, <3>2 DEF HostHushed
      <3>6. NoSession \notin host'.known \cup host'.list.found
        BY <1>3, <3>1, <3>3 DEF HostTypes
      <3>7. host'.list.req \in 0 .. issued /\ (host'.lock <=> host'.list.req # 0)
        BY <1>2, <3>1, <3>2, <3>3
      <3>8. Aside(<<>>)
        BY <1>1, <1>3, <1>4, <1>5, <1>7, <3>3, <3>4, <3>5, <3>6, <3>7 DEF Aside, HandleList, HostTypes
      <3> QED BY <3>8, AsideMoves
    <2> QED BY <2>1, <2>2, <2>3
  <1>8. CASE HandleSelect
    <2>1. host' = host \/ host' = [host EXCEPT !.selected = m.session]
      BY <1>8 DEF HandleSelect
    <2> HIDE DEF Told, m
    <2>2. /\ host'.active = host.active /\ host'.settling = host.settling /\ host'.reset = host.reset
          /\ host'.job = host.job /\ host'.list = host.list /\ host'.lock = host.lock /\ host'.known = host.known
          /\ host'.owned = host.owned
      BY <1>3, <2>1 DEF Hosts
    <2>3. StoreMoves(<<>>)
      BY <1>1, <2>2, Few DEF StoreMoves
    <2>4. Aside(<<>>)
      BY <1>1, <1>3, <1>4, <1>5, <1>8, <2>2, <2>3 DEF Aside, HandleSelect, HostTypes
    <2> QED BY <2>4, AsideMoves
  <1>9. CASE HandleRestore
    <2> DEFINE j == [kind |-> "restore", req |-> m.req, session |-> m.session, step |-> "reading"]
    <2>0. m.req \in 1 .. issued /\ m.req \in Nat
      BY <1>2, <1>9 DEF HandleRestore, Handles
    <2>1. \/ host' = host /\ PostNothing
          \/ host' = host /\ Post(<<Notice("session-error", m.req)>>)
          \/ ~IsRestoring /\ host' = [host EXCEPT !.job = j] /\ PostNothing
      BY <1>9 DEF HandleRestore
    <2>2. CASE host' = host /\ PostNothing
      BY <1>1, <1>5, <2>2, SameMoves
    <2>3. CASE host' = host /\ Post(<<Notice("session-error", m.req)>>)
      <3> DEFINE a == Notice("session-error", m.req)
      <3>1. a \in Messages(AnySession) /\ <<a>> \in Seq(Messages(AnySession))
        BY <2>0, PostedAre DEF MessageTypes
      <3>2. a.type = "session-error" /\ a.req = m.req /\ toView' = toView \o <<a>>
        BY <2>3 DEF Notice, Message, Post
      <3> HIDE DEF a, m
      <3>3. Travels(<<a>>) /\ ToSet(<<a>>) = {a}
        BY <1>1, <3>1, <3>2, Few DEF Travels
      <3> QED BY <1>1, <2>0, <2>3, <3>2, <3>3, SameMoves
    <2>4. CASE ~IsRestoring /\ host' = [host EXCEPT !.job = j] /\ PostNothing
      <3>1. host.job.kind = "none"
        BY <2>4, NoJobIs DEF IsRestoring
      <3> HIDE DEF Told
      <3>2. /\ host'.active = host.active /\ host'.settling = host.settling /\ host'.reset = host.reset
            /\ host'.job = j /\ host'.list = host.list /\ host'.lock = host.lock /\ host'.known = host.known
            /\ host'.owned = host.owned
        BY <1>3, <2>4 DEF Hosts
      <3>3. StoreMoves(<<>>)
        BY <1>1, <3>2, Few DEF StoreMoves
      <3>4. j.kind = "restore" /\ j.req \in 0 .. issued /\ j.req # 0 /\ j.step = "reading"
        BY <2>0
      <3> HIDE DEF j
      <3>5. Aside(<<>>)
        BY <1>1, <1>3, <1>4, <1>5, <2>4, <3>1, <3>2, <3>3, <3>4 DEF Aside, HostTypes
      <3> QED BY <3>5, AsideMoves
    <2> QED BY <2>1, <2>2, <2>3, <2>4
  <1>10. CASE DropIntent
    <2>1. UNCHANGED host /\ PostNothing
      BY <1>10 DEF DropIntent, hostVars
    <2> QED BY <1>1, <1>5, <2>1, SameMoves
  <1> QED BY <1>6, <1>7, <1>8, <1>9, <1>10

\* A deletion, a clearing or the clearing of all local data begins, or is refused.
LEMMA DeletionIntentsMove ==
    ASSUME TalkInv, HandleDelete \/ HandleClear, UNCHANGED <<chat, issued>>
    PROVE  \E ms : HostMoves(ms)
  <1> DEFINE m == Head(toHost)
             a == [kind |-> "delete", req |-> m.req, session |-> m.session, step |-> "settling"]
             b == [kind |-> "clear", req |-> m.req, session |-> NoSession, step |-> "settling"]
             l == [host.list EXCEPT !.latest = FALSE]
             H(j) == [host EXCEPT !.list = l, !.job = j]
  <1>1. toHost # <<>> /\ toHost' = Tail(toHost) /\ UNCHANGED <<stored, used>> /\ m.type \in Mutations
        /\ Took(Mutations)
    BY DEF HandleDelete, HandleClear, Handles, Mutations, Took
  <1>2. /\ m.req \in 1 .. issued /\ m \in ToSet(toHost) /\ ViewInv /\ m.req \in Nat
    BY <1>1, HeadIs DEF TalkInv, Mutations
  <1>3. /\ host \in Hosts(Told) /\ HostTypes /\ HostHushed /\ HostFits /\ OneMutation
        /\ (host.active = 0 \/ (host.active \in Requests /\ host.active \in 1 .. issued))
        /\ host.reset.req \in 0 .. issued
    BY ActiveIs
  <1>4. ~Deciding /\ host.reset.step = "none" /\ IntentFits(m)
    <2>1. ~Deciding
      BY <1>1, <1>2 DEF TalkInv, AskInv, OnePlace, NoneOf
    <2> QED BY <1>2, <2>1 DEF TalkInv, AskInv, Awaited, Deciding
  <1>5. /\ HandleDelete => m.req = chat.delete /\ m.session = chat.deleteTarget /\ m.session # NoSession
        /\ HandleClear => m.req = chat.clear
    BY <1>2, <1>3, <1>4 DEF IntentFits, HandleDelete, HandleClear, Handles, OneMutation
  <1> HIDE DEF m
  <1>6. \/ UNCHANGED <<host, runs>> /\ PostNothing
        \/ UNCHANGED <<host, runs>> /\ HandleDelete /\ host.active # 0 /\ Post(<<DeletionError(m.req, "unavailable")>>)
           /\ ~OwnsSession(m.session)
        \/ UNCHANGED <<host, runs>> /\ HandleDelete /\ host.active = 0 /\ Post(<<DeletionError(m.req, "unavailable")>>)
        \/ /\ HandleDelete /\ host' = H(a) /\ UNCHANGED runs /\ PostNothing
           /\ ~(host.active # 0 /\ RunOwns(host.active, m.session))
        \/ HandleDelete /\ CancelActive(H(a))
        \/ HandleClear /\ CancelActive(H(b))
    <2>1. /\ H(a) = [host EXCEPT !.list.latest = FALSE, !.job = a]
          /\ H(b) = [host EXCEPT !.list.latest = FALSE, !.job = b]
      <3> HIDE DEF Told, a, b
      <3> QED BY <1>3 DEF Hosts
    <2>2. CASE HandleDelete
      BY <2>1, <2>2 DEF HandleDelete, m, NoRequest
    <2>3. CASE HandleClear
      BY <2>1, <2>3 DEF HandleClear, m
    <2> QED BY <2>2, <2>3
  <1>7. /\ a.kind = "delete" /\ a.req = m.req /\ a.session = m.session /\ a.step = "settling"
        /\ b.kind = "clear" /\ b.req = m.req /\ b.step = "settling"
    OBVIOUS
  <1>8. l.req = host.list.req /\ l.read = host.list.read /\ l.found = host.list.found
    <2> HIDE DEF Told
    <2> QED BY <1>3 DEF Hosts, Lists
  <1>9. a \in Jobs(Told) /\ b \in Jobs(Told) /\ l \in Lists(Told)
    <2>1. m.session \in Told /\ NoSession \in Told
      BY <1>1, HeadIs, ToldIs DEF m, TalkInv
    <2> HIDE DEF Told
    <2> QED BY <1>2, <1>3, <2>1 DEF Jobs, Hosts, Lists
  <1> HIDE DEF a, b, l
  <1>10. \A j \in {a, b} : /\ H(j) \in Hosts(Told) /\ H(j).active = host.active /\ H(j).settling = host.settling
                           /\ H(j).list = l /\ H(j).lock = host.lock /\ H(j).job = j /\ H(j).known = host.known
                           /\ H(j).owned = host.owned /\ H(j).reset = host.reset
    <2> HIDE DEF Told
    <2> QED BY <1>3, <1>9 DEF Hosts
  <1> HIDE DEF H
  <1>11. CASE UNCHANGED <<host, runs>> /\ PostNothing
    <2>1. Travels(<<>>) /\ ToSet(<<>>) = {}
      BY <1>1, <1>2, <1>11, NothingPosted DEF Travels
    <2> QED BY <1>1, <1>11, <2>1, SameMoves
  <1>12. CASE /\ UNCHANGED <<host, runs>> /\ HandleDelete /\ Post(<<DeletionError(m.req, "unavailable")>>)
              /\ host.active = 0 \/ ~OwnsSession(m.session)
    <2>0. PICK d : d = DeletionError(m.req, "unavailable")
      OBVIOUS
    <2>1. d \in Messages(AnySession) /\ <<d>> \in Seq(Messages(AnySession)) /\ toView' = toView \o <<d>>
      BY <1>2, <1>12, <2>0, PostedAre DEF Post
    <2>2. d.type = "session-deletion-error" /\ d.req = m.req
      BY <2>0 DEF DeletionError, Message
    <2>3. Travels(<<d>>)
      BY <1>1, <1>2, <2>1 DEF Travels
    <2>4. AnswerFits(d) /\ d.type \in Answers
      BY <1>5, <1>12, <2>2 DEF AnswerFits, Answers
    <2>5. ~Deciding' /\ HostFits' /\ HostHushed'
      BY <1>2, <1>3, <1>4, <1>12 DEF Deciding, HostFits, HostHushed, Quieted
    <2>6. Hushed(d)'
      BY <1>2, <1>5, <1>12 DEF Hushed, Quieted, OwnsSession, NoRequest
    <2>7. Concludes(d)
      BY <1>1, <1>2, <2>2, <2>4, <2>5, <2>6 DEF Concludes
    <2>8. Decides(<<d>>)
      BY <1>1, <1>3, <1>12, <2>3, <2>5, <2>7, ActiveIs DEF Decides, HostTypes
    <2> QED BY <2>8, DecidesMoves
  <1>13. CASE /\ HandleDelete /\ host' = H(a) /\ UNCHANGED runs /\ PostNothing
              /\ ~(host.active # 0 /\ RunOwns(host.active, m.session))
    <2>1. /\ host'.active = host.active /\ host'.settling = host.settling /\ host'.list = l
          /\ host'.lock = host.lock /\ host'.job = a /\ host'.known = host.known
          /\ host'.owned = host.owned /\ host'.reset = host.reset
      BY <1>10, <1>13
    <2>2. Travels(<<>>)
      BY <1>1, <1>2, <1>13, NothingPosted DEF Travels
    <2>3. HostFits'
      BY <1>2, <1>3, <1>4, <1>5, <1>7, <1>13, <2>1 DEF HostFits
    <2>4. HostHushed'
      <3>1. host'.active # 0 =>
              /\ runs'[host'.active].session # m.session
              /\ runs'[host'.active].session = NoSession => host'.owned # m.session
        BY <1>5, <1>13, <2>1 DEF RunOwns
      <3>2. host'.lock <=> host'.list.req # 0 \/ host'.reset.step = "settling"
        BY <1>3, <1>8, <2>1 DEF HostHushed
      <3>3. host'.reset.step # "settling" /\ host'.job.kind = "delete" /\ host'.job.session = m.session
        BY <1>4, <1>7, <2>1
      <3> QED BY <3>1, <3>2, <3>3 DEF HostHushed, Quieted
    <2>5. Decides(<<>>)
      BY <1>1, <1>2, <1>3, <1>7, <1>8, <1>13, <2>1, <2>2, <2>3, <2>4, ActiveIs DEF Decides, HostTypes
    <2> QED BY <2>5, DecidesMoves
  <1>14. ASSUME NEW j \in {a, b}, j = a => HandleDelete, j = b => HandleClear, CancelActive(H(j))
         PROVE  \E ms : HostMoves(ms)
    <2>1. /\ host'.active = 0 /\ host'.settling \subseteq host.settling \cup ({host.active} \ {0})
          /\ host'.list = l /\ host'.lock = host.lock /\ host'.reset = host.reset /\ host'.job = j
          /\ host'.known = host.known /\ host'.owned = host.owned
          /\ \A r \in Requests : /\ runs'[r].session = runs[r].session /\ runs'[r].started = runs[r].started
                                 /\ runs'[r].left = runs[r].left /\ runs'[r].phase = runs[r].phase
                                 /\ runs'[r].on = runs[r].on
          /\ \E ms : /\ ms = <<>> \/ (ms = <<RunStatus(host.active, "cancelled")>> /\ host.active # 0)
                     /\ toView' = toView \o ms /\ ms \in Seq(Messages(AnySession))
      <3> DEFINE h == H(j)
      <3>1. /\ h \in Hosts(Told) /\ h.active = host.active /\ h.settling = host.settling
            /\ h.list = l /\ h.lock = host.lock /\ h.job = j /\ h.known = host.known
            /\ h.owned = host.owned /\ h.reset = host.reset /\ CancelActive(h)
        BY <1>10, <1>14
      <3> HIDE DEF h
      <3>2. /\ host'.active = 0 /\ host'.settling \subseteq host.settling \cup ({host.active} \ {0})
            /\ host'.list = h.list /\ host'.lock = h.lock /\ host'.reset = h.reset /\ host'.job = h.job
            /\ host'.known = h.known /\ host'.owned = h.owned
            /\ \A r \in Requests : /\ runs'[r].session = runs[r].session /\ runs'[r].started = runs[r].started
                                   /\ runs'[r].left = runs[r].left /\ runs'[r].phase = runs[r].phase
                                   /\ runs'[r].on = runs[r].on
            /\ \E ms : /\ ms = <<>> \/ (ms = <<RunStatus(host.active, "cancelled")>> /\ host.active # 0)
                       /\ toView' = toView \o ms /\ ms \in Seq(Messages(AnySession))
        BY <1>2, <1>3, <3>1, CancelledIs
      <3> QED BY <3>1, <3>2
    <2>2. PICK ms : /\ ms = <<>> \/ (ms = <<RunStatus(host.active, "cancelled")>> /\ host.active # 0)
                    /\ toView' = toView \o ms /\ ms \in Seq(Messages(AnySession))
      BY <2>1
    <2>3. Travels(ms)
      BY <1>1, <1>2, <2>2 DEF Travels
    <2>4. HostFits'
      BY <1>2, <1>3, <1>4, <1>5, <1>7, <1>14, <2>1 DEF HostFits
    <2>5. HostHushed'
      BY <1>3, <1>4, <1>8, <2>1 DEF HostHushed, Quieted
    <2>6. Decides(ms)
      BY <1>1, <1>2, <1>3, <1>7, <1>8, <2>1, <2>2, <2>3, <2>4, <2>5, ActiveIs DEF Decides, HostTypes
    <2> QED BY <2>6, DecidesMoves
  <1>15. a # b
    BY <1>7
  <1> QED BY <1>6, <1>11, <1>12, <1>13, <1>14, <1>15

\* There is one thing at a time that the Host decides.
LEMMA OneDecision ==
    ASSUME TalkInv
    PROVE  /\ host.reset.step # "none" => host.job.kind \notin {"delete", "clear"} /\ chat.delete = 0
           /\ host.job.kind \in {"delete", "clear"} => host.reset.step = "none"
           /\ host.job.kind = "clear" => chat.delete = 0
           /\ host.job.kind = "delete" => chat.delete # 0 /\ chat.deleteTarget \in used
  <1>1. HostFits /\ OneMutation
    BY ActiveIs
  <1> QED BY <1>1 DEF HostFits, OneMutation, Told

\* What the Host concludes is posted, and nothing else changes that the view knows of.
LEMMA ConcludesMoves ==
    ASSUME TalkInv, NEW m \in Messages(AnySession), Concludes(m), toView' = toView \o <<m>>, toHost' = toHost,
           UNCHANGED <<chat, issued, used, runs>>, stored' \subseteq stored,
           host'.active = host.active, host'.settling = host.settling, host'.list = host.list,
           NoSession \notin host'.known, host'.job = host.job \/ host'.job = NoJob,
           host'.reset.step = "none", host'.reset.req \in 0 .. issued,
           host'.job.kind \notin {"delete", "clear"}, host'.lock <=> host'.list.req # 0
    PROVE  HostMoves(<<m>>)
  <1>1. Travels(<<m>>)
    <2>1. <<m>> \in Seq(Messages(AnySession))
      OBVIOUS
    <2> QED BY <2>1 DEF Travels
  <1>2. HostFits'
    BY NoJobIs, ActiveIs DEF HostFits
  <1>3. HostHushed'
    BY NoJobIs DEF HostHushed
  <1>4. ~Deciding'
    BY NoJobIs DEF Deciding
  <1>5. host'.job.step = "read" => host'.job.session # NoSession
    BY NoJobIs, ActiveIs DEF HostTypes
  <1>6. host'.job.req \in 0 .. issued /\ host'.reset.req \in 0 .. issued
    <2>1. host.job.req \in 0 .. issued /\ 0 \in 0 .. issued
      BY ActiveIs
    <2>2. host'.job.req = host.job.req \/ host'.job.req = 0
      BY NoJobIs
    <2> QED BY <2>1, <2>2
  <1>7. Decides(<<m>>)
    BY <1>1, <1>2, <1>3, <1>4, <1>5, <1>6 DEF Decides
  <1> QED BY <1>7, DecidesMoves

LEMMA ResetMoves ==
    ASSUME TalkInv, HandleReset \/ ResetDismissed \/ ResetConfirmed \/ ResetSettles, UNCHANGED <<chat, issued>>
    PROVE  \E ms : HostMoves(ms)
  <1>1. /\ host \in Hosts(Told) /\ HostTypes /\ HostHushed /\ HostFits /\ OneMutation /\ ListAlone /\ ViewInv
        /\ (host.active = 0 \/ (host.active \in Requests /\ host.active \in 1 .. issued))
        /\ host.reset.req \in 0 .. issued /\ issued \in Nat
    BY ActiveIs DEF TalkInv, ViewInv
  <1>2. UNCHANGED <<runs, used>> /\ stored' \subseteq stored
    BY DEF HandleReset, ResetDismissed, ResetConfirmed, ResetSettles
  <1> HIDE DEF Told
  <1>3. CASE HandleReset \/ ResetConfirmed
    <2> DEFINE x == IF HandleReset THEN [step |-> "confirming", req |-> Head(toHost).req]
                    ELSE [host.reset EXCEPT !.step = "locking"]
    <2>1. host' = [host EXCEPT !.reset = x] /\ PostNothing /\ stored' = stored
      <3>1. CASE HandleReset
        BY <1>1, <3>1 DEF HandleReset, Hosts
      <3>2. CASE ~HandleReset
        BY <1>1, <1>3, <3>2 DEF ResetConfirmed, Hosts
      <3> QED BY <3>1, <3>2
    <2>2. /\ x.req = chat.reset /\ x.req # 0 /\ x.req \in 1 .. issued /\ x.step \in {"confirming", "locking"}
          /\ host.reset.step # "settling" /\ (Deciding \/ Took(Mutations))
          /\ host.job.kind \notin {"delete", "clear"} /\ Travels(<<>>)
      <3>1. CASE HandleReset
        <4>1. toHost # <<>> /\ toHost' = Tail(toHost) /\ Head(toHost).type = "clear-local-data" /\ host.reset.step = "none"
          BY <3>1, NoJobIs DEF HandleReset
        <4>2. Head(toHost) \in ToSet(toHost) /\ Head(toHost).req \in 1 .. issued
          BY <4>1, HeadIs
        <4>3. ~Deciding /\ Head(toHost).req = chat.reset
          BY <4>1, <4>2 DEF TalkInv, AskInv, OnePlace, NoneOf, Mutations, Awaited, IntentFits
        <4>4. Travels(<<>>)
          BY <1>1, <2>1, <4>1, NothingPosted DEF Travels
        <4>5. x = [step |-> "confirming", req |-> Head(toHost).req]
          BY <3>1
        <4> QED BY <4>1, <4>2, <4>3, <4>4, <4>5 DEF Took, Mutations, Deciding
      <3>2. CASE ~HandleReset
        <4>1. host.reset.step = "confirming" /\ toHost' = toHost
          BY <1>3, <3>2 DEF ResetConfirmed
        <4>2. x.req = host.reset.req /\ x.step = "locking"
          BY <1>1, <3>2 DEF Hosts, Resets
        <4>3. Travels(<<>>)
          BY <1>1, <2>1, <4>1, NothingPosted DEF Travels
        <4>4. host.reset.req # 0 /\ host.reset.req = chat.reset /\ host.reset.req \in 1 .. issued
          BY <1>1, <4>1 DEF HostFits
        <4> QED BY <4>1, <4>2, <4>3, <4>4, OneDecision DEF Deciding
      <3> QED BY <3>1, <3>2
    <2> HIDE DEF x
    <2>3. /\ host'.active = host.active /\ host'.settling = host.settling /\ host'.list = host.list
          /\ host'.lock = host.lock /\ host'.job = host.job /\ host'.known = host.known
          /\ host'.owned = host.owned /\ host'.reset = x
      BY <1>1, <2>1 DEF Hosts
    <2>4. HostFits' /\ HostHushed'
      BY <1>1, <1>2, <2>2, <2>3, NoJobIs DEF HostFits, HostHushed, Quieted, Deciding
    <2>5. Decides(<<>>)
      BY <1>1, <1>2, <2>2, <2>3, <2>4, ActiveIs DEF Decides, HostTypes
    <2> QED BY <2>5, DecidesMoves
  <1>4. CASE ResetDismissed \/ ResetSettles
    <2>1. PICK o \in {"cancelled", "partial", "completed"} :
             /\ toView' = toView \o <<Message("local-data-clear-result", host.reset.req, NoSession, o, {})>>
             /\ host.reset.step = "settling" \/ (host.reset.step = "confirming" /\ o = "cancelled")
      BY <1>4 DEF ResetDismissed, ResetSettles, ResetResult, Post
    <2>2. PICK m : m = Message("local-data-clear-result", host.reset.req, NoSession, o, {})
      OBVIOUS
    <2>3. m.type = "local-data-clear-result" /\ m.req = host.reset.req /\ m.status = o
      BY <2>2 DEF Message
    <2>4. m \in Messages(AnySession) /\ host.reset.req # 0 /\ host.reset.req = chat.reset
      <3>1. host.reset.req \in Nat
        BY <1>1
      <3> QED BY <1>1, <2>1, <2>2, <3>1, PostedAre DEF HostFits
    <2>5. /\ host'.active = host.active /\ host'.settling = host.settling /\ host'.list = host.list
          /\ host'.job = host.job /\ host'.known = host.known /\ host'.reset = NoReset
          /\ (host'.lock <=> host'.list.req # 0) /\ toHost' = toHost
      <3>1. CASE ResetDismissed
        BY <1>1, <2>1, <3>1 DEF ResetDismissed, Hosts, HostHushed
      <3>2. CASE ResetSettles
        <4>1. host.list.req = 0
          BY <1>1, <3>2 DEF ResetSettles, ListAlone, NoRequest
        <4> QED BY <1>1, <3>2, <4>1 DEF ResetSettles, Hosts
      <3> QED BY <1>4, <3>1, <3>2
    <2>6. Deciding /\ host'.job.kind \notin {"delete", "clear"} /\ chat.delete = 0
      BY <2>1, <2>5, OneDecision DEF Deciding
    <2>7. Hushed(m)'
      BY <1>1, <2>1, <2>3, <2>5, <2>6 DEF Hushed, HostHushed
    <2>8. AnswerFits(m) /\ m.type \in Answers /\ m.type # "session-deleted" /\ m.req \in 1 .. issued
      BY <1>1, <2>3, <2>4 DEF Answers, AnswerFits
    <2>9. ~Deciding' /\ host'.reset.step = "none" /\ host'.reset.req \in 0 .. issued
      <3>1. host'.reset.step = "none" /\ host'.reset.req = 0
        BY <2>5, NoJobIs
      <3>2. 0 \in 0 .. issued
        BY ActiveIs
      <3> QED BY <2>6, <3>1, <3>2 DEF Deciding
    <2>10. Concludes(m)
      BY <2>6, <2>7, <2>8, <2>9 DEF Concludes
    <2>11. NoSession \notin host'.known
      BY <1>1, <2>5 DEF HostTypes
    <2>12. HostMoves(<<m>>)
      BY <1>2, <2>1, <2>2, <2>4, <2>5, <2>6, <2>9, <2>10, <2>11, ConcludesMoves
    <2> QED BY <2>12
  <1> QED BY <1>3, <1>4

LEMMA ResetLocksMoves ==
    ASSUME TalkInv, ResetLocks, UNCHANGED <<chat, issued>>
    PROVE  \E ms : HostMoves(ms)
  <1>1. /\ host \in Hosts(Told) /\ HostTypes /\ HostHushed /\ HostFits /\ OneMutation /\ ListAlone /\ ViewInv
        /\ (host.active = 0 \/ (host.active \in Requests /\ host.active \in 1 .. issued))
        /\ host.reset.req \in 0 .. issued /\ issued \in Nat
    BY ActiveIs DEF TalkInv, ViewInv
  <1>2. UNCHANGED <<used, stored, toHost>> /\ host.reset.step = "locking"
    BY DEF ResetLocks
  <1>3. host.reset.req # 0 /\ host.reset.req = chat.reset /\ host.reset.req \in Nat /\ Deciding
    BY <1>1, <1>2 DEF HostFits, Deciding
  <1>4. CASE host.lock
    <2>1. PICK m : m = Message("local-data-clear-result", host.reset.req, NoSession, "partial", {})
      OBVIOUS
    <2>2. m.type = "local-data-clear-result" /\ m.req = host.reset.req /\ m \in Messages(AnySession)
      BY <1>3, <2>1, PostedAre DEF Message
    <2>3. host' = [host EXCEPT !.reset = NoReset] /\ runs' = runs /\ toView' = toView \o <<m>>
      BY <1>4, <2>1 DEF ResetLocks, ResetResult, Post
    <2>4. host.list.req # 0 /\ host.active = 0
      BY <1>1, <1>2, <1>4 DEF HostHushed, ListAlone, NoRequest
    <2> HIDE DEF Told
    <2>5. /\ host'.active = host.active /\ host'.settling = host.settling /\ host'.list = host.list
          /\ host'.job = host.job /\ host'.known = host.known /\ host'.reset = NoReset /\ host'.lock
      BY <1>1, <1>4, <2>3 DEF Hosts
    <2>6. host'.job.kind \notin {"delete", "clear"} /\ chat.delete = 0
      BY <1>2, <2>5, OneDecision
    <2>7. Hushed(m)'
      BY <1>1, <2>4, <2>5, <2>6 DEF Hushed
    <2>8. AnswerFits(m) /\ m.type \in Answers /\ m.type # "session-deleted" /\ m.req \in 1 .. issued
      BY <1>1, <1>3, <2>2 DEF Answers, AnswerFits
    <2>9. ~Deciding' /\ host'.reset.step = "none" /\ host'.reset.req \in 0 .. issued
      <3>1. host'.reset.step = "none" /\ host'.reset.req = 0
        BY <2>5, NoJobIs
      <3>2. 0 \in 0 .. issued
        BY ActiveIs
      <3> QED BY <2>6, <3>1, <3>2 DEF Deciding
    <2>10. Concludes(m)
      BY <1>3, <2>7, <2>8, <2>9 DEF Concludes
    <2>11. NoSession \notin host'.known /\ (host'.lock <=> host'.list.req # 0)
      BY <1>1, <2>4, <2>5 DEF HostTypes
    <2>12. HostMoves(<<m>>)
      BY <1>2, <2>2, <2>3, <2>5, <2>6, <2>9, <2>10, <2>11, ConcludesMoves
    <2> QED BY <2>12
  <1>5. CASE ~host.lock
    <2> DEFINE x == [host.reset EXCEPT !.step = "settling"]
               h == [host EXCEPT !.lock = TRUE, !.reset = x]
    <2>1. x \in Resets /\ x.step = "settling" /\ x.req = host.reset.req
      BY <1>1 DEF Hosts, Resets
    <2> HIDE DEF Told
    <2>2. CancelActive(h)
      <3>1. h = [host EXCEPT !.lock = TRUE, !.reset.step = "settling"]
        BY <1>1 DEF Hosts
      <3> QED BY <1>5, <3>1 DEF ResetLocks
    <2> HIDE DEF x
    <2>3. /\ h \in Hosts(Told) /\ h.active = host.active /\ h.settling = host.settling
          /\ h.list = host.list /\ h.lock = TRUE /\ h.job = host.job /\ h.known = host.known
          /\ h.owned = host.owned /\ h.reset = x
      BY <1>1, <2>1 DEF Hosts
    <2> HIDE DEF h
    <2>4. /\ host'.active = 0 /\ host'.settling \subseteq host.settling \cup ({host.active} \ {0})
          /\ host'.list = h.list /\ host'.lock = h.lock /\ host'.reset = h.reset /\ host'.job = h.job
          /\ host'.known = h.known /\ host'.owned = h.owned
          /\ \A r \in Requests : /\ runs'[r].session = runs[r].session /\ runs'[r].started = runs[r].started
                                 /\ runs'[r].left = runs[r].left /\ runs'[r].phase = runs[r].phase
                                 /\ runs'[r].on = runs[r].on
          /\ \E ms : /\ ms = <<>> \/ (ms = <<RunStatus(host.active, "cancelled")>> /\ host.active # 0)
                     /\ toView' = toView \o ms /\ ms \in Seq(Messages(AnySession))
      BY <1>1, <2>2, <2>3, CancelledIs
    <2>5. PICK ms : /\ ms = <<>> \/ (ms = <<RunStatus(host.active, "cancelled")>> /\ host.active # 0)
                    /\ toView' = toView \o ms /\ ms \in Seq(Messages(AnySession))
      BY <2>4
    <2>6. Travels(ms)
      BY <1>2, <2>5 DEF Travels
    <2>7. HostFits' /\ HostHushed'
      BY <1>1, <1>2, <1>3, <2>1, <2>3, <2>4, OneDecision DEF HostFits, HostHushed
    <2>8. Decides(ms)
      BY <1>1, <1>2, <1>3, <2>1, <2>3, <2>4, <2>5, <2>6, <2>7, ActiveIs DEF Decides, HostTypes
    <2> QED BY <2>8, DecidesMoves
  <1> QED BY <1>4, <1>5

LEMMA DeletionSettlesMoves ==
    ASSUME TalkInv, DeleteSettles \/ ClearSettles, UNCHANGED <<chat, issued>>
    PROVE  \E ms : HostMoves(ms)
  <1>1. /\ host \in Hosts(Told) /\ HostTypes /\ HostHushed /\ HostFits /\ OneMutation /\ ViewInv
        /\ (host.active = 0 \/ (host.active \in Requests /\ host.active \in 1 .. issued))
        /\ host.reset.req \in 0 .. issued /\ issued \in Nat /\ host.job.req \in 0 .. issued
    BY ActiveIs DEF TalkInv, ViewInv
  <1>2. UNCHANGED <<runs, used, toHost>> /\ host.job.kind \in {"delete", "clear"}
    BY DEF DeleteSettles, ClearSettles
  <1>3. /\ stored' \subseteq stored /\ Deciding /\ host.reset.step = "none"
    BY <1>2, OneDecision DEF DeleteSettles, ClearSettles, Deciding
  <1>4. host.job.session \in Told
    <2> HIDE DEF Told
    <2> QED BY <1>1 DEF Hosts, Jobs
  <1> HIDE DEF Told
  <1>5. /\ host'.active = host.active /\ host'.settling = host.settling /\ host'.list = host.list
        /\ host'.job = NoJob /\ host'.known \subseteq host.known /\ host'.reset = host.reset
        /\ host'.lock = host.lock
    <2>1. PICK k, s, o : host' = [host EXCEPT !.job = NoJob, !.known = k, !.selected = s, !.owned = o]
                         /\ k \subseteq host.known
      <3> DEFINE F(k, s, o) == [host EXCEPT !.job = NoJob, !.known = k, !.selected = s, !.owned = o]
      <3>1. CASE host' = [host EXCEPT !.job = NoJob]
        <4>1. [host EXCEPT !.job = NoJob] = F(host.known, host.selected, host.owned)
          BY <1>1 DEF Hosts
        <4> QED BY <3>1, <4>1
      <3>2. CASE DeleteSettles /\ host' # [host EXCEPT !.job = NoJob]
        <4>1. host' = [host EXCEPT !.job = NoJob, !.known = @ \ {host.job.session},
                 !.selected = IF @ = host.job.session THEN NoSession ELSE @,
                 !.owned = IF host.active = NoRequest /\ @ = host.job.session THEN NoSession ELSE @]
          BY <3>2 DEF DeleteSettles, DeleteFails
        <4>2. PICK s, o : host' = F(host.known \ {host.job.session}, s, o)
          BY <4>1
        <4>3. host.known \ {host.job.session} \subseteq host.known
          OBVIOUS
        <4> QED BY <4>2, <4>3
      <3>3. CASE ClearSettles /\ host' # [host EXCEPT !.job = NoJob]
        <4>1. PICK k : k = {}
          OBVIOUS
        <4>2. PICK o : host' = F(k, NoSession, o)
          BY <3>3, <4>1 DEF ClearSettles, DeleteFails
        <4>3. k \subseteq host.known
          BY <4>1
        <4> QED BY <4>2, <4>3
      <3> QED BY <3>1, <3>2, <3>3
    <2> QED BY <1>1, <2>1 DEF Hosts
  <1>6. PICK m : /\ toView' = toView \o <<m>> /\ m \in Messages(AnySession)
                 /\ m.req = host.job.req
                 /\ \/ m.type = "session-deleted" /\ m.session = host.job.session /\ DeleteSettles
                       /\ host.job.session \notin stored'
                    \/ m.type = "sessions-cleared" /\ ClearSettles
                    \/ m.type = "session-deletion-error"
    <2>1. host.job.req \in Nat /\ Told \subseteq AnySession
      BY <1>1, ToldIs
    <2>2. /\ \A type \in MessageTypes : Notice(type, host.job.req) \in Messages(AnySession)
          /\ \A code \in {"unavailable", "partial"} : DeletionError(host.job.req, code) \in Messages(AnySession)
          /\ \A s \in AnySession, type \in MessageTypes : Message(type, host.job.req, s, "", {}) \in Messages(AnySession)
      BY <2>1, PostedAre
    <2>3. CASE \E code \in {"unavailable", "partial"} : DeleteFails(code)
      <3>1. PICK code \in {"unavailable", "partial"} : toView' = toView \o <<DeletionError(host.job.req, code)>>
        BY <2>3 DEF DeleteFails, Post
      <3>2. PICK d : d = DeletionError(host.job.req, code)
        OBVIOUS
      <3>3. d \in Messages(AnySession) /\ d.type = "session-deletion-error" /\ d.req = host.job.req
        BY <2>2, <3>2 DEF DeletionError, Message
      <3> QED BY <3>1, <3>2, <3>3
    <2>4. CASE DeleteSettles /\ ~\E code \in {"unavailable", "partial"} : DeleteFails(code)
      <3>1. toView' = toView \o <<Message("session-deleted", host.job.req, host.job.session, "", {})>>
            /\ host.job.session \notin stored'
        BY <2>4 DEF DeleteSettles, Post
      <3>2. PICK d : d = Message("session-deleted", host.job.req, host.job.session, "", {})
        OBVIOUS
      <3>3. d \in Messages(AnySession)
        BY <1>4, <2>1, <2>2, <3>2 DEF MessageTypes
      <3>4. d.type = "session-deleted" /\ d.req = host.job.req /\ d.session = host.job.session
        BY <3>2 DEF Message
      <3> QED BY <2>4, <3>1, <3>2, <3>3, <3>4
    <2>5. CASE ClearSettles /\ ~\E code \in {"unavailable", "partial"} : DeleteFails(code)
      <3>1. toView' = toView \o <<Notice("sessions-cleared", host.job.req)>>
        BY <2>5 DEF ClearSettles, Post
      <3>2. PICK d : d = Notice("sessions-cleared", host.job.req)
        OBVIOUS
      <3>3. d \in Messages(AnySession) /\ d.type = "sessions-cleared" /\ d.req = host.job.req
        BY <2>2, <3>2 DEF MessageTypes, Notice, Message
      <3> QED BY <2>5, <3>1, <3>2, <3>3
    <2> QED BY <2>3, <2>4, <2>5
  <1>7. /\ DeleteSettles => host.job.kind = "delete"
        /\ ClearSettles => host.job.kind = "clear"
    BY DEF DeleteSettles, ClearSettles
  <1>8. AnswerFits(m) /\ m.type \in Answers /\ m.req \in 1 .. issued
    BY <1>1, <1>2, <1>6, <1>7 DEF HostFits, AnswerFits, Answers
  <1>9. Hushed(m)'
    BY <1>1, <1>2, <1>5, OneDecision DEF Hushed, Quieted, HostHushed, HostFits
  <1>10. m.type = "session-deleted" => m.session \in used \ stored'
    BY <1>1, <1>2, <1>6, <1>7, OneDecision DEF HostFits
  <1>11. NoSession \notin host'.known /\ (host'.lock <=> host'.list.req # 0)
    BY <1>1, <1>3, <1>5 DEF HostTypes, HostHushed
  <1>12. Concludes(m)
    BY <1>3, <1>5, <1>8, <1>9, <1>10, NoJobIs DEF Concludes, Deciding
  <1>13. HostMoves(<<m>>)
    BY <1>1, <1>2, <1>3, <1>5, <1>6, <1>11, <1>12, NoJobIs, ConcludesMoves
  <1> QED BY <1>13

LEMMA ReadsMove ==
    ASSUME TalkInv, ListReads \/ ListSettles \/ RestoreReads \/ RestoreSettles, UNCHANGED <<chat, issued>>
    PROVE  \E ms : HostMoves(ms)
  <1>1. /\ host \in Hosts(Told) /\ HostTypes /\ HostHushed /\ HostFits /\ ViewInv /\ ListAlone
        /\ (host.active = 0 \/ (host.active \in Requests /\ host.active \in 1 .. issued))
        /\ issued \in Nat /\ host.job.req \in 0 .. issued /\ host.list.req \in 0 .. issued /\ 0 \in 0 .. issued
        /\ stored \subseteq used /\ used \subseteq Sessions /\ NoSession \notin used
    BY ActiveIs, SessionAssumption DEF TalkInv, ViewInv
  <1>2. UNCHANGED <<runs, used, toHost>>
    BY DEF ListReads, ListSettles, RestoreReads, RestoreSettles
  <1>3. Told' = Told
    BY <1>2 DEF Told, HiddenRuns
  <1>4. /\ NoSession \notin host.known \cup host.list.found
        /\ \A r \in Requests : /\ runs'[r].session = runs[r].session /\ runs'[r].started = runs[r].started
                               /\ runs'[r].left \in 0 .. MaxEvents
    BY <1>1, <1>2 DEF HostTypes
  <1>5. /\ host.list.req \in Nat /\ host.job.req \in Nat /\ host.job.session \in AnySession
        /\ host.list.found \subseteq AnySession
    <2>1. Told \subseteq AnySession
      BY <1>1, ToldIs
    <2> HIDE DEF Told
    <2> QED BY <1>1, <2>1 DEF Hosts, Lists, Jobs
  <1> HIDE DEF Told
  <1>6. CASE ListReads
    <2>1. PICK expired \in SUBSET stored : stored' = stored \ expired
             /\ host' = [host EXCEPT !.list.read = TRUE, !.list.found = stored \ expired]
      BY <1>6 DEF ListReads
    <2>2. /\ host'.active = host.active /\ host'.settling = host.settling /\ host'.reset = host.reset
          /\ host'.job = host.job /\ host'.lock = host.lock /\ host'.known = host.known
          /\ host'.owned = host.owned
          /\ host'.list.req = host.list.req /\ host'.list.found = stored' /\ host.list.req # 0
      BY <1>1, <1>6, <2>1 DEF Hosts, Lists, ListReads, NoRequest
    <2>3. Travels(<<>>) /\ ToSet(<<>>) = {}
      BY <1>1, <1>2, <1>6, NothingPosted DEF Travels, ListReads
    <2>4. StoreMoves(<<>>)
      BY <1>2, <2>1, <2>2, Few DEF StoreMoves
    <2>5. host.reset.step # "settling" /\ (host'.lock <=> host'.list.req # 0)
      BY <1>1, <2>2 DEF ListAlone, NoRequest
    <2>6. NoSession \notin host'.known \cup host'.list.found
      BY <1>1, <1>4, <2>1, <2>2
    <2>7. Aside(<<>>)
      BY <1>1, <1>3, <1>4, <2>2, <2>3, <2>4, <2>5, <2>6 DEF Aside
    <2> QED BY <2>7, AsideMoves
  <1>7. CASE ListSettles
    <2>1. host.list.req # 0 /\ host.reset.step # "settling" /\ host.list.req \in 1 .. issued
      <3>1. host.list.req # 0
        BY <1>7 DEF ListSettles, NoRequest
      <3>2. host.reset.step # "settling"
        BY <1>1, <3>1 DEF ListAlone, NoRequest
      <3>3. \A n \in 0 .. issued : n # 0 => n \in 1 .. issued
        BY <1>1
      <3> QED BY <1>1, <3>1, <3>2, <3>3
    <2>2. /\ host'.active = host.active /\ host'.settling = host.settling /\ host'.reset = host.reset
          /\ host'.job = host.job /\ host'.lock = FALSE /\ host'.known \in {host.known, host.list.found}
          /\ host'.owned = host.owned /\ host'.list = NoList
      <3> DEFINE e == [host EXCEPT !.lock = FALSE, !.list = NoList]
      <3>1. host' = e \/ \E s : host' = [e EXCEPT !.known = host.list.found, !.selected = s]
        <4>1. e.selected = host.selected
          BY <1>1 DEF Hosts
        <4> QED BY <1>7, <4>1 DEF ListSettles
      <3>2. /\ e.active = host.active /\ e.settling = host.settling /\ e.reset = host.reset
            /\ e.job = host.job /\ e.lock = FALSE /\ e.known = host.known
            /\ e.owned = host.owned /\ e.list = NoList /\ DOMAIN e = DOMAIN host
        BY <1>1 DEF Hosts
      <3>3. DOMAIN host = {"active", "settling", "owned", "lock", "list", "job", "known", "selected", "reset"}
        BY <1>1 DEF Hosts
      <3> HIDE DEF e
      <3>4. CASE host' = e
        BY <3>2, <3>4
      <3>5. ASSUME NEW s, host' = [e EXCEPT !.known = host.list.found, !.selected = s]
            PROVE  /\ host'.active = e.active /\ host'.settling = e.settling /\ host'.reset = e.reset
                   /\ host'.job = e.job /\ host'.lock = e.lock /\ host'.known = host.list.found
                   /\ host'.owned = e.owned /\ host'.list = e.list
        BY <3>2, <3>3, <3>5
      <3> QED BY <3>1, <3>2, <3>4, <3>5
    <2>3. PICK m : /\ toView' = toView \o <<m>> /\ m \in Messages(AnySession) /\ m.req = host.list.req
                   /\ \/ m.type = "session-error"
                      \/ m.type = "session-list" /\ m.sessions = host.list.found /\ host.list.read
      <3>1. CASE host.list.read /\ Post(<<Message("session-list", host.list.req, NoSession, "", host.list.found)>>)
        <4>1. PICK d : d = Message("session-list", host.list.req, NoSession, "", host.list.found)
          OBVIOUS
        <4>2. d \in Messages(AnySession)
          BY <1>5, <4>1, PostedAre
        <4>3. d.type = "session-list" /\ d.req = host.list.req /\ d.sessions = host.list.found
          BY <4>1 DEF Message
        <4> QED BY <3>1, <4>1, <4>2, <4>3 DEF Post
      <3>2. CASE Post(<<Notice("session-error", host.list.req)>>)
        <4>1. PICK d : d = Notice("session-error", host.list.req)
          OBVIOUS
        <4>2. d \in Messages(AnySession) /\ d.type = "session-error" /\ d.req = host.list.req
          BY <1>5, <4>1, PostedAre DEF MessageTypes, Notice, Message
        <4> QED BY <3>2, <4>1, <4>2 DEF Post
      <3> QED BY <1>7, <3>1, <3>2 DEF ListSettles
    <2>4. Travels(<<m>>) /\ ToSet(<<m>>) = {m}
      <3>1. <<m>> \in Seq(Messages(AnySession))
        BY <2>3
      <3> QED BY <1>2, <2>3, <3>1, Few DEF Travels
    <2>5. NoList.req = 0 /\ NoList.read = FALSE /\ NoList.found = {}
      BY DEF NoList, NoRequest
    <2>6. StoreMoves(<<m>>)
      BY <1>2, <1>7, <2>2, <2>3, <2>4, <2>5 DEF StoreMoves, ListSettles
    <2>7. NoSession \notin host'.known \cup host'.list.found
      BY <1>4, <2>2, <2>5
    <2>8. m.req \in 1 .. issued /\ m.type \notin Answers \cup Words /\ m.type # "run-status"
      BY <2>1, <2>3 DEF Answers, Words
    <2>9. Aside(<<m>>)
      BY <1>1, <1>3, <1>4, <2>1, <2>2, <2>4, <2>5, <2>6, <2>7, <2>8 DEF Aside
    <2> QED BY <2>9, AsideMoves
  <1>8. CASE RestoreReads
    <2>1. host' = [host EXCEPT !.job.step = "read"] /\ host.job.session \in stored /\ host.job.kind = "restore"
      BY <1>8 DEF RestoreReads
    <2>2. /\ host'.active = host.active /\ host'.settling = host.settling /\ host'.reset = host.reset
          /\ host'.list = host.list /\ host'.lock = host.lock /\ host'.known = host.known
          /\ host'.owned = host.owned
          /\ host'.job.kind = "restore" /\ host'.job.req = host.job.req /\ host'.job.session = host.job.session
      BY <1>1, <2>1 DEF Hosts, Jobs
    <2>3. Travels(<<>>) /\ ToSet(<<>>) = {}
      BY <1>1, <1>2, <1>8, NothingPosted DEF Travels, RestoreReads
    <2>4. StoreMoves(<<>>)
      BY <1>2, <1>8, <2>2, Few DEF StoreMoves, RestoreReads
    <2>5. host'.job.session # NoSession /\ host'.job.req # 0 /\ host'.job.req \in 0 .. issued
      BY <1>1, <2>1, <2>2 DEF HostFits
    <2>6. Aside(<<>>)
      BY <1>1, <1>3, <1>4, <2>1, <2>2, <2>3, <2>4, <2>5 DEF Aside
    <2> QED BY <2>6, AsideMoves
  <1>9. CASE RestoreSettles
    <2>1. host.job.kind = "restore" /\ host.job.req # 0 /\ host.job.req \in 1 .. issued
      <3>1. host.job.kind = "restore"
        BY <1>9 DEF RestoreSettles
      <3>2. host.job.req # 0
        BY <1>1, <3>1 DEF HostFits
      <3>3. \A n \in 0 .. issued : n # 0 => n \in 1 .. issued
        BY <1>1
      <3> QED BY <1>1, <3>1, <3>2, <3>3
    <2>2. PICK k, s, o : /\ host' = [host EXCEPT !.job = NoJob, !.known = k, !.selected = s, !.owned = o]
                         /\ NoSession \notin k
      <3> DEFINE F(k, s, o) == [host EXCEPT !.job = NoJob, !.known = k, !.selected = s, !.owned = o]
      <3>1. CASE host' = [host EXCEPT !.job = NoJob]
        <4>1. [host EXCEPT !.job = NoJob] = F(host.known, host.selected, host.owned)
          BY <1>1 DEF Hosts
        <4>2. NoSession \notin host.known
          BY <1>4
        <4> QED BY <3>1, <4>1, <4>2
      <3>2. CASE host' # [host EXCEPT !.job = NoJob]
        <4>1. host.job.step = "read"
              /\ host' = [host EXCEPT !.job = NoJob, !.selected = host.job.session, !.known = @ \cup {host.job.session},
                             !.owned = IF host.active = NoRequest THEN host.job.session ELSE @]
          BY <1>9, <3>2 DEF RestoreSettles
        <4>2. PICK o : host' = F(host.known \cup {host.job.session}, host.job.session, o)
          BY <1>1, <4>1 DEF Hosts
        <4>3. NoSession \notin host.known \cup {host.job.session}
          BY <1>1, <1>4, <4>1 DEF HostTypes
        <4> QED BY <4>2, <4>3
      <3> QED BY <3>1, <3>2
    <2>3. /\ host'.active = host.active /\ host'.settling = host.settling /\ host'.reset = host.reset
          /\ host'.list = host.list /\ host'.lock = host.lock /\ host'.known = k /\ host'.job = NoJob
      BY <1>1, <2>2 DEF Hosts
    <2>4. PICK m : /\ toView' = toView \o <<m>> /\ m \in Messages(AnySession) /\ m.req = host.job.req
                   /\ m.type \in {"session-error", "session-restored"}
      <3>1. CASE Post(<<Message("session-restored", host.job.req, host.job.session, "", {})>>)
        <4>1. PICK d : d = Message("session-restored", host.job.req, host.job.session, "", {})
          OBVIOUS
        <4>2. d \in Messages(AnySession) /\ d.type = "session-restored" /\ d.req = host.job.req
          <5>1. d \in Messages(AnySession)
            BY <1>5, <4>1, PostedAre DEF MessageTypes
          <5> QED BY <4>1, <5>1 DEF Message
        <4> QED BY <3>1, <4>1, <4>2 DEF Post
      <3>2. CASE Post(<<Notice("session-error", host.job.req)>>)
        <4>1. PICK d : d = Notice("session-error", host.job.req)
          OBVIOUS
        <4>2. d \in Messages(AnySession) /\ d.type = "session-error" /\ d.req = host.job.req
          BY <1>5, <4>1, PostedAre DEF MessageTypes, Notice, Message
        <4> QED BY <3>2, <4>1, <4>2 DEF Post
      <3> QED BY <1>9, <3>1, <3>2 DEF RestoreSettles
    <2>5. Travels(<<m>>) /\ ToSet(<<m>>) = {m}
      <3>1. <<m>> \in Seq(Messages(AnySession))
        BY <2>4
      <3> QED BY <1>2, <2>4, <3>1, Few DEF Travels
    <2>6. StoreMoves(<<m>>)
      BY <1>2, <1>9, <2>3, <2>4, <2>5 DEF StoreMoves, RestoreSettles
    <2>7. m.req \in 1 .. issued /\ m.type \notin Answers \cup Words /\ m.type # "run-status"
      BY <2>1, <2>4 DEF Answers, Words
    <2>8. host'.job.kind = "none" /\ host'.job.req \in 0 .. issued /\ host'.job.step = ""
      BY <1>1, <2>3, NoJobIs
    <2>9. NoSession \notin host'.known \cup host'.list.found
      BY <1>4, <2>2, <2>3
    <2>10. Aside(<<m>>)
      BY <1>1, <1>3, <1>4, <2>1, <2>3, <2>5, <2>6, <2>7, <2>8, <2>9 DEF Aside
    <2> QED BY <2>10, AsideMoves
  <1> QED BY <1>6, <1>7, <1>8, <1>9

\* A step of the Run r.
Works(r, ms) ==
    /\ Travels(ms) /\ Told \subseteq Told' /\ UNCHANGED <<stored, used>>
    /\ r \in 1 .. issued
    /\ host'.job = host.job /\ host'.list = host.list /\ host'.lock = host.lock /\ host'.known = host.known
    /\ host'.reset = host.reset /\ host'.settling \subseteq host.settling \cup {r}
    /\ host'.active \in {0, host.active}
    /\ \A q \in Requests \ {r} : runs'[q] = runs[q]
    /\ runs'[r].left \in 0 .. MaxEvents
    /\ host'.active = r => \/ runs'[r].session = runs[r].session
                           \/ runs[r].session = NoSession /\ runs'[r].session \notin Told
    /\ host'.owned = host.owned \/ host'.active = 0 \/ (host'.active = r /\ runs'[r].session # NoSession)
    /\ \A m \in ToSet(ms) : /\ m.req = r /\ m.type \in Words \cup {"run-status", "run-error"}
                            /\ m.type \in Words => Tells(m)
                            /\ m.type = "run-status" => host'.active = 0 /\ host.active # 0
    /\ TextMoves(ms)

LEMMA WorksMoves ==
    ASSUME TalkInv, NEW r \in Requests, NEW ms, Works(r, ms)
    PROVE  HostMoves(ms)
  <1>1. /\ host \in Hosts(Told) /\ HostTypes /\ HostHushed /\ HostFits /\ HostNumbered
        /\ (host.active = 0 \/ (host.active \in Requests /\ host.active \in 1 .. issued))
        /\ issued \in Nat
    BY ActiveIs
  <1>2. UNCHANGED <<chat, issued>> /\ Travels(ms) /\ Told \subseteq Told' /\ TextMoves(ms)
    BY DEF Works, Travels
  <1>3. HostNumbered'
    BY <1>1, <1>2 DEF Works, HostNumbered
  <1>4. HostTypes'
    BY <1>1 DEF Works, HostTypes
  <1>5. HostFits'
    BY <1>1, <1>2 DEF Works, HostFits
  <1>6. HostHushed'
    <2>1. host'.job.kind = "clear" \/ host'.reset.step = "settling" => host'.active = 0
      BY <1>1 DEF Works, HostHushed
    <2>2. host'.lock <=> host'.list.req # 0 \/ host'.reset.step = "settling"
      BY <1>1 DEF Works, HostHushed
    <2>3. host.job.session \in Told /\ NoSession \in Told
      <3>1. NoSession \in Told
        BY DEF Told
      <3> HIDE DEF Told
      <3> QED BY <1>1, <3>1 DEF Hosts, Jobs
    <2>4. ASSUME host'.job.kind = "delete", host'.active # 0
          PROVE  /\ runs'[host'.active].session # host'.job.session
                 /\ runs'[host'.active].session = NoSession => host'.owned # host'.job.session
      <3>1. /\ host'.active = host.active /\ host.active \in Requests /\ host'.job = host.job
            /\ runs[host.active].session # host.job.session
            /\ runs[host.active].session = NoSession => host.owned # host.job.session
        BY <1>1, <2>4 DEF Works, HostHushed, Quieted
      <3>2. CASE host.active = r
        BY <2>3, <3>1, <3>2 DEF Works
      <3>3. CASE host.active # r
        <4>1. runs'[host.active] = runs[host.active] /\ host'.owned = host.owned
          BY <2>4, <3>1, <3>3 DEF Works
        <4> QED BY <3>1, <4>1
      <3> QED BY <3>2, <3>3
    <2> QED BY <2>1, <2>2, <2>4 DEF HostHushed, Quieted
  <1>7. MutationMoves(ms)
    <2>1. Deciding' => Deciding
      BY DEF Works, Deciding
    <2>2. \A m \in ToSet(ms) : m.req \in 1 .. issued /\ AnswerFits(m) /\ m.type \notin Answers
      BY DEF Works, AnswerFits, Answers, Words
    <2>3. \A i \in DOMAIN ms : ms[i] \in ToSet(ms)
      BY DEF ToSet
    <2>4. AtMostOne(ms, Answers)
      BY <2>2, <2>3 DEF AtMostOne
    <2> QED BY <2>1, <2>2, <2>4 DEF MutationMoves
  <1>8. RunMoves(ms)
    <2>1. ActiveMoves
      <3>1. host'.active \in {0, host.active}
        BY DEF Works
      <3>2. host'.active # 0 /\ host'.active # r => runs'[host.active] = runs[host.active]
        BY <1>1, <3>1 DEF Works
      <3>3. host'.active # 0 /\ host'.active = r => host.active = r
        BY <3>1
      <3> QED BY <3>1, <3>2, <3>3 DEF Works, ActiveMoves
    <2> QED BY <2>1 DEF Works, RunMoves
  <1>9. StoreMoves(ms)
    BY DEF Works, StoreMoves, Words
  <1> QED BY <1>2, <1>3, <1>4, <1>5, <1>6, <1>7, <1>8, <1>9 DEF HostMoves

LEMMA OpensMoves ==
    ASSUME TalkInv, NEW r \in Requests, RunOpens(r), UNCHANGED <<chat, issued>>
    PROVE  \E ms : HostMoves(ms)
  <1>1. /\ HostTypes /\ HostHushed /\ ViewInv /\ runs \in [Requests -> RunRecords(Told)]
        /\ stored \subseteq used
    BY ActiveIs, ToldIs DEF TalkInv, ViewInv
  <1>2. UNCHANGED <<host, toHost>> /\ PostNothing /\ runs[r].phase = "opening"
    BY DEF RunOpens
  <1>3. PICK s \in Sessions :
          /\ IF runs[r].session = NoSession THEN s \notin used ELSE s = runs[r].session /\ s \in stored
          /\ runs' = [runs EXCEPT ![r].phase = "reporting", ![r].on = s]
          /\ stored' = stored \cup {s} /\ used' = used \cup {s}
    BY DEF RunOpens
  <1> DEFINE x == [runs[r] EXCEPT !.phase = "reporting", !.on = s]
  <1>4. /\ runs' = [runs EXCEPT ![r] = x]
        /\ x.session = runs[r].session /\ x.on = s /\ x.started = runs[r].started /\ x.left = runs[r].left
    <2> HIDE DEF Told
    <2> QED BY <1>1, <1>3 DEF RunRecords
  <1> HIDE DEF x
  <1>5. \A q \in Requests : runs'[q] = IF q = r THEN x ELSE runs[q]
    BY <1>1, <1>4
  <1>6. Told \subseteq Told'
    BY <1>3, <1>4, <1>5, Grows DEF Hidden
  <1>7. Travels(<<>>) /\ ToSet(<<>>) = {}
    BY <1>1, <1>2, NothingPosted DEF Travels
  <1>8. StoreMoves(<<>>)
    <2>1. used \ stored \subseteq used' \ stored'
      BY <1>1, <1>3
    <2> QED BY <1>2, <1>7, <2>1 DEF StoreMoves
  <1>9. Aside(<<>>)
    BY <1>1, <1>2, <1>4, <1>5, <1>6, <1>7, <1>8 DEF Aside, HostTypes
  <1> QED BY <1>9, AsideMoves

\* A Run that settles is the active one, or its end has been told.
LEMMA SettlesMoves ==
    ASSUME TalkInv, NEW r \in Requests, NEW phase \in {"settled", "rejected"}, AtWork(runs[r]),
           NEW ms \in Seq(Messages(AnySession)), Settles(r, phase, ms), UNCHANGED <<chat, issued>>,
           \A m \in ToSet(ms) : m.req = r /\ (m.type = "run-error" \/ (m.type = "run-status" /\ host.active = r))
    PROVE  HostMoves(ms)
  <1>1. /\ HostTypes /\ HostNumbered /\ ViewInv /\ runs \in [Requests -> RunRecords(Told)] /\ host \in Hosts(Told)
    BY ActiveIs, ToldIs DEF TalkInv
  <1> DEFINE x == [NoRun EXCEPT !.phase = phase, !.aborted = runs[r].aborted, !.started = runs[r].started]
  <1>2. /\ runs' = [runs EXCEPT ![r] = x] /\ host' = SettledHost(host, r) /\ toView' = toView \o ms
        /\ UNCHANGED <<stored, used, toHost>>
    BY DEF Settles, Post
  <1>3. x.phase = phase /\ x.left = 0
    BY DEF NoRun
  <1> HIDE DEF x
  <1>4. \A q \in Requests : runs'[q] = IF q = r THEN x ELSE runs[q]
    BY <1>1, <1>2
  <1>5. Told \subseteq Told'
    BY <1>2, <1>3, <1>4, Grows DEF Hidden
  <1>6. r \in host.settling /\ r \in 1 .. issued /\ r # 0
    BY <1>1 DEF ViewInv, Places, HostNumbered, Requests
  <1>7. /\ host'.active = (IF host.active = r THEN 0 ELSE host.active) /\ host'.settling = host.settling \ {r}
        /\ host'.job = host.job /\ host'.list = host.list /\ host'.lock = host.lock /\ host'.known = host.known
        /\ host'.reset = host.reset /\ host'.owned = host.owned
    <2> HIDE DEF Told
    <2> QED BY <1>1, <1>2 DEF SettledHost, Hosts, NoRequest
  <1>8. Travels(ms)
    BY <1>2 DEF Travels
  <1>9. TextMoves(ms)
    <2>1. \A k \in DOMAIN ms : ms[k] \in ToSet(ms)
      BY DEF ToSet
    <2>2. \A k \in DOMAIN ms : ms[k].type # "text-delta"
      BY <2>1
    <2>3. host'.active # 0 => host'.active = host.active /\ host.active # r
      BY <1>6, <1>7
    <2>4. host.active # 0 /\ host.active # r => runs'[host.active] = runs[host.active]
      BY <1>4, ActiveIs
    <2> QED BY <2>2, <2>3, <2>4 DEF TextMoves
  <1>10. 0 \in 0 .. MaxEvents /\ runs'[r].left = 0
    BY <1>3, <1>4, EventsAssumption
  <1>11. \A m \in ToSet(ms) : m.type \notin Words
    BY DEF Words
  <1>12. Works(r, ms)
    BY <1>2, <1>4, <1>5, <1>6, <1>7, <1>8, <1>9, <1>10, <1>11 DEF Works
  <1> QED BY <1>12, WorksMoves

\* What a Run reports is told in its Session, after the start of it has been told.
LEMMA ReportsMove ==
    ASSUME TalkInv, NEW r \in Requests, runs[r].phase = "reporting", NEW h \in {host, Finished(host, r)},
           NEW report \in RunRecords(AnySession), report.on = runs[r].on, report.session = runs[r].on,
           report.left \in 0 .. MaxEvents, NEW ms \in Seq(Messages(AnySession)),
           \/ ms = <<>>
           \/ \E y : /\ ms = <<y>> /\ y.req = r
                     /\ \/ y.type = "text-delta" /\ y.session = runs[r].on
                        \/ y.type = "run-status" /\ h = Finished(host, r),
           Reports(r, h, report, ms), UNCHANGED <<chat, issued, stored, used, toHost>>
    PROVE  \E w : HostMoves(w)
  <1>1. /\ HostTypes /\ HostHushed /\ ViewInv /\ runs \in [Requests -> RunRecords(Told)] /\ host \in Hosts(Told)
        /\ HostNumbered
    BY ActiveIs, ToldIs DEF TalkInv
  <1>2. /\ runs[r].on \in stored /\ runs[r].on # NoSession /\ runs[r].on \in AnySession
        /\ runs[r].session = NoSession => runs[r].on \notin Told
        /\ runs[r].session \in {NoSession, runs[r].on}
        /\ r \in host.settling /\ r \in 1 .. issued /\ r # 0 /\ r \in Nat
    BY <1>1, HiddenIs DEF AnySession, HostNumbered, Requests
  <1>3. CASE ~Accepted(r)
    <2>1. /\ \A q \in Requests : /\ runs'[q].session = runs[q].session /\ runs'[q].started = runs[q].started
                                 /\ runs'[q].left \in 0 .. MaxEvents /\ runs'[q].on = runs[q].on
                                 /\ q = r \/ runs'[q] = runs[q]
          /\ host' = host /\ PostNothing
      <3>1. CASE runs' = runs
        BY <1>1, <1>3, <3>1 DEF Reports, HostTypes
      <3>2. CASE runs' = [runs EXCEPT ![r].phase = report.phase, ![r].left = report.left]
        <4> DEFINE x == [runs[r] EXCEPT !.phase = report.phase, !.left = report.left]
        <4>1. runs' = [runs EXCEPT ![r] = x]
          BY <1>1, <3>2
        <4>2. /\ x.session = runs[r].session /\ x.on = runs[r].on /\ x.started = runs[r].started
              /\ x.left = report.left
          <5> HIDE DEF Told
          <5> QED BY <1>1 DEF RunRecords
        <4> HIDE DEF x
        <4>3. \A q \in Requests : runs'[q] = IF q = r THEN x ELSE runs[q]
          BY <1>1, <4>1
        <4> QED BY <1>1, <1>3, <4>2, <4>3 DEF Reports, HostTypes
      <3> QED BY <1>3, <3>1, <3>2 DEF Reports
    <2>2. Told \subseteq Told'
      BY <2>1, Grows DEF Hidden
    <2>3. Travels(<<>>) /\ ToSet(<<>>) = {}
      BY <1>1, <2>1, NothingPosted DEF Travels
    <2>4. StoreMoves(<<>>)
      BY <2>1, <2>3 DEF StoreMoves
    <2>5. Aside(<<>>)
      BY <1>1, <2>1, <2>2, <2>3, <2>4 DEF Aside, HostTypes
    <2> QED BY <2>5, AsideMoves
  <1>4. CASE Accepted(r) /\ Misplaced(r)
    <2> DEFINE x == [report EXCEPT !.started = FALSE, !.closed = TRUE, !.terminalSent = FALSE]
    <2>1. runs' = [runs EXCEPT ![r] = x] /\ host' = host /\ PostNothing
      BY <1>4 DEF Reports
    <2>2. x.started = FALSE /\ x.left = report.left /\ x.session = runs[r].on /\ x.on = runs[r].on
      BY DEF RunRecords
    <2> HIDE DEF x
    <2>3. \A q \in Requests : runs'[q] = IF q = r THEN x ELSE runs[q]
      BY <1>1, <2>1
    <2>4. Told \subseteq Told'
      BY <1>1, <2>1, <2>2, BoundIsTold
    <2>5. Travels(<<>>) /\ ToSet(<<>>) = {} /\ DOMAIN <<>> = {}
      BY <1>1, <2>1, NothingPosted, Few DEF Travels
    <2>6. TextMoves(<<>>)
      <3>1. host'.active = host.active /\ host.active = r /\ ~runs'[r].started
        BY <1>4, <2>1, <2>2, <2>3 DEF Accepted
      <3> QED BY <2>5, <3>1 DEF TextMoves
    <2>7. runs[r].session = NoSession /\ runs'[r].session = runs[r].on
      BY <1>4, <2>2, <2>3 DEF Misplaced
    <2>8. Works(r, <<>>)
      BY <1>1, <1>2, <2>1, <2>2, <2>3, <2>4, <2>5, <2>6, <2>7 DEF Works
    <2> QED BY <2>8, WorksMoves
  <1>5. CASE Accepted(r) /\ ~Misplaced(r)
    <2> DEFINE w == Started(r) \o ms
    <2>1. /\ runs' = [runs EXCEPT ![r] = report] /\ toView' = toView \o w /\ host.active = r
          /\ host' = [h EXCEPT !.owned = IF runs[r].session = NoSession THEN runs[r].on ELSE h.owned]
      BY <1>5 DEF Reports, Post, Accepted
    <2>2. \A q \in Requests : runs'[q] = IF q = r THEN report ELSE runs[q]
      BY <1>1, <2>1
    <2>3. Told \subseteq Told'
      BY <1>1, <2>1, BoundIsTold
    <2>4. /\ host'.job = host.job /\ host'.list = host.list /\ host'.lock = host.lock /\ host'.known = host.known
          /\ host'.reset = host.reset /\ host'.settling \subseteq host.settling \cup {r}
          /\ host'.owned = (IF runs[r].session = NoSession THEN runs[r].on ELSE host.owned)
          /\ host'.active = (IF h = host THEN r ELSE 0)
      <3> HIDE DEF Told
      <3>1. h \in Hosts(Told) \/ h = Finished(host, r)
        BY <1>1
      <3>2. /\ h.job = host.job /\ h.list = host.list /\ h.lock = host.lock /\ h.known = host.known
            /\ h.reset = host.reset /\ h.settling \subseteq host.settling \cup {r} /\ h.owned = host.owned
            /\ h.active = (IF h = host THEN r ELSE 0) /\ DOMAIN h = DOMAIN host
        <4>1. CASE h = host
          BY <2>1, <4>1
        <4>2. CASE h # host
          BY <1>1, <4>2 DEF Finished, Hosts, NoRequest
        <4> QED BY <4>1, <4>2
      <3>3. DOMAIN host = {"active", "settling", "owned", "lock", "list", "job", "known", "selected", "reset"}
        BY <1>1 DEF Hosts
      <3> QED BY <2>1, <3>2, <3>3
    <2>5. PICK z : z = Message("session-started", r, runs[r].on, "", {})
      OBVIOUS
    <2>6. z.type = "session-started" /\ z.req = r /\ z.session = runs[r].on
          /\ z \in Messages(AnySession)
      <3>1. z \in Messages(AnySession)
        BY <1>2, <2>5, PostedAre DEF MessageTypes
      <3> QED BY <2>5, <3>1 DEF Message
    <2>7. Started(r) = IF runs[r].started THEN <<>> ELSE <<z>>
      BY <2>5 DEF Started
    <2>8. Started(r) \in Seq(Messages(AnySession))
      <3>1. <<z>> \in Seq(Messages(AnySession)) /\ <<>> \in Seq(Messages(AnySession))
        BY <2>6
      <3> QED BY <2>7, <3>1
    <2>9. w \in Seq(Messages(AnySession)) /\ ToSet(w) = ToSet(Started(r)) \cup ToSet(ms)
      BY <2>8, Appended
    <2>10. /\ ToSet(Started(r)) = (IF runs[r].started THEN {} ELSE {z})
           /\ \/ ms = <<>> /\ ToSet(ms) = {}
              \/ \E y : ToSet(ms) = {y} /\ ms = <<y>> /\ y.req = r
                        /\ \/ y.type = "text-delta" /\ y.session = runs[r].on
                           \/ y.type = "run-status" /\ h = Finished(host, r)
      BY <2>7, Few
    <2>11. host'.active = 0 \/ h # Finished(host, r)
      <3>1. h = Finished(host, r) => h.active = 0
        BY <1>1 DEF Finished, Hosts, NoRequest
      <3>2. h = host => h.active = r
        BY <2>1
      <3> QED BY <1>2, <2>4, <3>1, <3>2
    <2>12. Tells(z)
      BY <1>2, <2>1, <2>2, <2>6 DEF Tells
    <2>13. ASSUME NEW m \in ToSet(w)
           PROVE  /\ m.req = r /\ m.type \in Words \cup {"run-status", "run-error"}
                  /\ m.type \in Words => Tells(m)
                  /\ m.type = "run-status" => host'.active = 0 /\ host.active # 0
      <3>1. CASE m = z
        BY <2>6, <2>12, <3>1 DEF Words
      <3>2. CASE m \in ToSet(ms)
        <4>1. /\ m.req = r
              /\ \/ m.type = "text-delta" /\ m.session = runs[r].on
                 \/ m.type = "run-status" /\ h = Finished(host, r)
          BY <2>10, <3>2
        <4>2. m.type = "text-delta" => Tells(m)
          BY <2>6, <2>12, <4>1 DEF Tells
        <4> QED BY <1>2, <2>1, <2>11, <4>1, <4>2 DEF Words
      <3> QED BY <2>9, <2>10, <2>13, <3>1, <3>2
    <2>14. TextMoves(w)
      <3>1. CASE runs[r].started
        BY <1>2, <2>1, <2>4, <3>1 DEF TextMoves
      <3>2. CASE ~runs[r].started
        <4>1. z \in ToSet(w)
          BY <2>9, <2>10, <3>2
        <4>2. 1 \in DOMAIN w /\ w[1] = z /\ \A k \in DOMAIN w : k \in Nat /\ k >= 1 /\ w[k] \in ToSet(w)
          <5>1. w = <<z>> \o ms
            BY <2>7, <3>2
          <5>2. 1 \in DOMAIN (<<z>> \o ms) /\ (<<z>> \o ms)[1] = z
            BY <2>6
          <5>3. \A k \in DOMAIN w : k \in Nat /\ k >= 1
            BY <2>9
          <5> QED BY <5>1, <5>2, <5>3 DEF ToSet
        <4>3. \A k \in DOMAIN w : w[k].type = "text-delta" => 1 < k /\ w[k].req = r
          <5> SUFFICES ASSUME NEW k \in DOMAIN w, w[k].type = "text-delta" PROVE 1 < k /\ w[k].req = r
            OBVIOUS
          <5>1. k # 1
            BY <2>6, <4>2
          <5>2. w[k].req = r
            BY <2>13, <4>2
          <5> QED BY <4>2, <5>1, <5>2
        <4>4. \A k \in DOMAIN w : w[k].type = "text-delta" =>
                 \E j \in DOMAIN w : j < k /\ w[j].type = "session-started" /\ w[j].req = w[k].req
          BY <2>6, <4>2, <4>3
        <4>5. host'.active # 0 => z \in ToSet(w) /\ z.type = "session-started" /\ z.req = host'.active
          BY <2>4, <2>6, <4>1
        <4> HIDE DEF w
        <4> QED BY <4>4, <4>5 DEF TextMoves
      <3> QED BY <3>1, <3>2
    <2> HIDE DEF w
    <2>15. Travels(w)
      BY <2>1, <2>9 DEF Travels
    <2>16. runs'[r].session = runs[r].on /\ runs'[r].left \in 0 .. MaxEvents
      BY <2>2
    <2>17. host'.owned = host.owned \/ host'.active = 0 \/ (host'.active = r /\ runs'[r].session # NoSession)
      BY <1>2, <2>4, <2>16
    <2>18. Works(r, w)
      BY <1>2, <2>1, <2>2, <2>3, <2>4, <2>13, <2>14, <2>15, <2>16, <2>17 DEF Works
    <2> QED BY <2>18, WorksMoves
  <1> QED BY <1>3, <1>4, <1>5

LEMMA RunsMove ==
    ASSUME TalkInv, NEW r \in Requests, RunStep(r), UNCHANGED <<chat, issued>>
    PROVE  \E ms : HostMoves(ms)
  <1>1. /\ runs \in [Requests -> RunRecords(Told)] /\ NoSession \in AnySession /\ r \in Nat
        /\ runs[r].left \in 0 .. MaxEvents /\ Told \subseteq AnySession
    BY ToldIs, ActiveIs DEF TalkInv, Requests, AnySession, HostTypes
  <1>2. runs[r] \in RunRecords(AnySession) /\ runs[r].on \in AnySession
    <2>1. RunRecords(Told) \subseteq RunRecords(AnySession)
      <3> DEFINE A == AnySession
      <3>1. Told \subseteq A
        BY <1>1
      <3> HIDE DEF A
      <3> QED BY <3>1, Wider DEF A
    <2> QED BY <1>1, <2>1 DEF RunRecords
  <1>3. CASE RunOpens(r)
    BY <1>3, OpensMoves
  <1>4. CASE RunReportsText(r)
    <2> DEFINE b == Bound(r)
               x == [b EXCEPT !.left = b.left - 1]
    <2>1. PICK y : y = Message("text-delta", r, runs[r].on, "", {})
      OBVIOUS
    <2>2. y.type = "text-delta" /\ y.req = r /\ y.session = runs[r].on /\ <<y>> \in Seq(Messages(AnySession))
      <3>1. y \in Messages(AnySession)
        BY <1>1, <1>2, <2>1, PostedAre DEF MessageTypes
      <3>2. <<y>> \in Seq(Messages(AnySession))
        BY <3>1
      <3>3. y.type = "text-delta" /\ y.req = r /\ y.session = runs[r].on
        BY <2>1 DEF Message
      <3> QED BY <3>2, <3>3
    <2>3. /\ runs[r].phase = "reporting" /\ runs[r].left > 0
          /\ Reports(r, host, x, <<y>>)
          /\ UNCHANGED <<stored, used, toHost>>
      BY <1>4, <2>1 DEF RunReportsText
    <2>4. b \in RunRecords(AnySession) /\ b.on = runs[r].on /\ b.session = runs[r].on
          /\ b.left = runs[r].left /\ b.phase = runs[r].phase
      BY <1>2 DEF Bound, RunRecords
    <2> HIDE DEF b
    <2>5. b.left - 1 \in Nat /\ b.left - 1 \in 0 .. MaxEvents
      BY <1>1, <2>3, <2>4, EventsAssumption
    <2>6. x \in RunRecords(AnySession) /\ x.on = runs[r].on /\ x.session = runs[r].on /\ x.left \in 0 .. MaxEvents
      BY <2>4, <2>5 DEF RunRecords
    <2> HIDE DEF x
    <2> QED BY <2>2, <2>3, <2>6, ReportsMove
  <1>5. ASSUME NEW status \in RunEnds, RunReportsEnd(r, status) PROVE \E ms : HostMoves(ms)
    <2> DEFINE b == Bound(r)
               x == [b EXCEPT !.phase = "failing", !.closed = TRUE]
               u == [b EXCEPT !.phase = "ending", !.terminalSent = TRUE]
    <2>1. PICK y : y = RunStatus(r, status)
      OBVIOUS
    <2>2. y.type = "run-status" /\ y.req = r /\ <<y>> \in Seq(Messages(AnySession))
      <3> DEFINE A == AnySession
      <3>1. NoSession \in A
        BY <1>1
      <3> HIDE DEF A
      <3>2. y \in Messages(A)
        BY <1>1, <2>1, <3>1 DEF RunStatus, Message, Messages, MessageTypes, Statuses
      <3>3. y.type = "run-status" /\ y.req = r
        BY <2>1 DEF RunStatus, Message
      <3> QED BY <3>2, <3>3 DEF A
    <2>3. /\ runs[r].phase = "reporting" /\ UNCHANGED <<stored, used, toHost>>
          /\ \/ Reports(r, host, x, <<>>)
             \/ Reports(r, Finished(host, r), u, <<y>>)
      BY <1>5, <2>1 DEF RunReportsEnd
    <2>4. b \in RunRecords(AnySession) /\ b.on = runs[r].on /\ b.session = runs[r].on /\ b.left = runs[r].left
      BY <1>2 DEF Bound, RunRecords
    <2> HIDE DEF b
    <2>5. x \in RunRecords(AnySession) /\ x.on = runs[r].on /\ x.session = runs[r].on /\ x.left = runs[r].left
      BY <2>4 DEF RunRecords
    <2>6. u \in RunRecords(AnySession) /\ u.on = runs[r].on /\ u.session = runs[r].on /\ u.left = runs[r].left
      BY <2>4 DEF RunRecords
    <2> HIDE DEF x, u
    <2>7. CASE Reports(r, host, x, <<>>)
      <3>1. PICK e \in Seq(Messages(AnySession)) : e = <<>>
        BY <1>1, PostedAre
      <3>2. Reports(r, host, x, e)
        BY <2>7, <3>1
      <3> QED BY <1>1, <2>3, <2>5, <3>1, <3>2, ReportsMove
    <2>8. CASE Reports(r, Finished(host, r), u, <<y>>)
      BY <1>1, <2>2, <2>3, <2>6, <2>8, ReportsMove
    <2> QED BY <2>3, <2>7, <2>8
  <1>6. CASE RunResolves(r) \/ RunRejects(r)
    <2>1. PICK a, f : a = Notice("run-error", r) /\ f = RunStatus(r, "failed")
      OBVIOUS
    <2>2. PICK c, d : c = RunStatus(r, "cancelled") /\ d = RunStatus(r, "completed")
      OBVIOUS
    <2>3. /\ a.type = "run-error" /\ f.type = "run-status" /\ c.type = "run-status" /\ d.type = "run-status"
          /\ a.req = r /\ f.req = r /\ c.req = r /\ d.req = r
      BY <2>1, <2>2 DEF Notice, RunStatus, Message
    <2>4. {a, f, c, d} \subseteq Messages(AnySession)
      <3> DEFINE A == AnySession
      <3>1. NoSession \in A
        BY <1>1
      <3> HIDE DEF A
      <3>2. a \in Messages(A)
        BY <1>1, <2>1, <3>1 DEF Notice, Message, Messages, MessageTypes, Statuses
      <3>3. f \in Messages(A)
        BY <1>1, <2>1, <3>1 DEF RunStatus, Message, Messages, MessageTypes, Statuses
      <3>4. c \in Messages(A)
        BY <1>1, <2>2, <3>1 DEF RunStatus, Message, Messages, MessageTypes, Statuses
      <3>5. d \in Messages(A)
        BY <1>1, <2>2, <3>1 DEF RunStatus, Message, Messages, MessageTypes, Statuses
      <3> QED BY <3>2, <3>3, <3>4, <3>5 DEF A
    <2>5. <<a>> \o <<>> = <<a>>
      <3> DEFINE M == Messages(AnySession)
      <3>1. a \in M
        BY <2>4
      <3> HIDE DEF M
      <3> QED BY <3>1
    <2>6. \E phase \in {"settled", "rejected"} :
             \/ Settles(r, phase, <<>>) \/ Settles(r, phase, <<a>>)
             \/ host.active = r /\ \E m \in {c, d} : Settles(r, phase, <<m>>)
             \/ host.active = r /\ Settles(r, phase, <<a>> \o <<f>>)
      <3>1. CASE RunResolves(r)
        <4>1. Settles(r, "settled", IF Finishing(r) THEN <<IF runs[r].aborted THEN c ELSE d>> ELSE <<>>)
          BY <2>2, <3>1 DEF RunResolves
        <4>2. Finishing(r) => host.active = r
          BY DEF Finishing
        <4> QED BY <4>1, <4>2
      <3>2. CASE RunRejects(r)
        <4>1. Settles(r, "rejected", IF runs[r].aborted THEN <<>>
                                     ELSE <<a>> \o IF Finishing(r) THEN <<f>> ELSE <<>>)
          BY <2>1, <3>2 DEF RunRejects
        <4>2. Finishing(r) => host.active = r
          BY DEF Finishing
        <4> QED BY <2>5, <4>1, <4>2
      <3> QED BY <1>6, <3>1, <3>2
    <2>7. PICK phase \in {"settled", "rejected"}, ms \in Seq(Messages(AnySession)) : /\ Settles(r, phase, ms)
             /\ \A m \in ToSet(ms) : m.req = r /\ (m.type = "run-error" \/ (m.type = "run-status" /\ host.active = r))
      <3>1. /\ <<>> \in Seq(Messages(AnySession))
            /\ \A m \in {a, f, c, d} : <<m>> \in Seq(Messages(AnySession))
            /\ <<a>> \o <<f>> \in Seq(Messages(AnySession)) /\ ToSet(<<a>> \o <<f>>) = ToSet(<<a>>) \cup ToSet(<<f>>)
        <4>1. <<>> \in Seq(Messages(AnySession)) /\ \A m \in {a, f, c, d} : <<m>> \in Seq(Messages(AnySession))
          BY <1>1, <2>4, PostedAre
        <4> QED BY <4>1, Appended
      <3> DEFINE Ends(ms) == /\ ms \in Seq(Messages(AnySession))
                             /\ \A m \in ToSet(ms) : m.req = r /\ (m.type = "run-error" \/ (m.type = "run-status" /\ host.active = r))
      <3>6. ToSet(<<a>>) = {a} /\ ToSet(<<c>>) = {c} /\ ToSet(<<d>>) = {d} /\ ToSet(<<f>>) = {f} /\ ToSet(<<>>) = {}
        BY Few
      <3>7. /\ <<a>> \in Seq(Messages(AnySession)) /\ <<c>> \in Seq(Messages(AnySession))
            /\ <<d>> \in Seq(Messages(AnySession)) /\ <<>> \in Seq(Messages(AnySession))
        BY <3>1
      <3>2. Ends(<<>>) /\ Ends(<<a>>)
        BY <2>3, <3>6, <3>7
      <3>3. host.active = r => Ends(<<c>>) /\ Ends(<<d>>)
        BY <2>3, <3>6, <3>7
      <3>4. host.active = r => Ends(<<a>> \o <<f>>)
        BY <2>3, <3>1, <3>6
      <3> HIDE DEF Ends
      <3>8. \E phase \in {"settled", "rejected"} : \E ms : Settles(r, phase, ms) /\ Ends(ms)
        BY <2>6, <3>2, <3>3, <3>4
      <3>9. \A ms : Ends(ms) => ms \in Seq(Messages(AnySession))
        BY DEF Ends
      <3>5. \E phase \in {"settled", "rejected"}, ms \in Seq(Messages(AnySession)) : Settles(r, phase, ms) /\ Ends(ms)
        BY <3>8, <3>9
      <3> QED BY <3>5 DEF Ends
    <2>8. AtWork(runs[r])
      BY <1>6 DEF RunResolves, RunRejects, AtWork
    <2> QED BY <2>7, <2>8, SettlesMoves
  <1> QED BY <1>3, <1>4, <1>5, <1>6 DEF RunStep

LEMMA HostMovesOn ==
    ASSUME TalkInv, HostNext, UNCHANGED chatVars
    PROVE  \E ms : HostMoves(ms)
  <1>1. UNCHANGED <<chat, issued>>
    BY DEF chatVars
  <1>2. CASE HandleIntent
    BY <1>1, <1>2, RunIntentsMove, SessionIntentsMove, DeletionIntentsMove, ResetMoves DEF HandleIntent
  <1>3. CASE \E r \in Requests : RunStep(r)
    BY <1>1, <1>3, RunsMove
  <1>4. CASE HostJob \/ ResetDismissed
    BY <1>1, <1>4, ReadsMove, DeletionSettlesMoves, ResetMoves, ResetLocksMoves DEF HostJob
  <1> QED BY <1>2, <1>3, <1>4 DEF HostNext

\* Whatever the Host does, the two sides stay agreed.
LEMMA HostKeepsTalk == TalkInv /\ HostNext /\ UNCHANGED chatVars => TalkInv'
  <1> SUFFICES ASSUME TalkInv, HostNext, UNCHANGED chatVars PROVE TalkInv'
    OBVIOUS
  <1>1. ViewInv'
    BY HostNextKeepsInv DEF TalkInv
  <1> QED BY <1>1, HostMovesOn, MovesKeep

-----------------------------------------------------------------------------
(* What every step of the view does to this, with the intents it sends.    *)

\* Nothing is asked for, when the message at hand is taken.
Unasked == NoneOf(toHost, Mutations) /\ ~Deciding /\ NoneOf(toView', Answers)
Asks(sent) ==
    \/ /\ chat'.delete = chat.delete /\ chat'.deleteTarget = chat.deleteTarget
       /\ chat'.clear = chat.clear /\ chat'.reset = chat.reset
       /\ NoneOf(sent, Mutations)
    \/ /\ Unasked /\ AtMostOne(sent, Mutations)
       /\ \A m \in ToSet(sent) : IntentFits(m)'

\* Nothing is under way for the Run that was followed.
Unled == host.active = 0 /\ NoneOf(toHost, Launches)
Follows(sent) ==
    \/ /\ chat'.active = chat.active /\ chat'.selected = chat.selected /\ NoneOf(sent, Launches)
    \/ /\ chat'.active = issued' /\ issued' = issued + 1 /\ chat'.selected = chat.selected
       /\ Unled /\ Unasked /\ AtMostOne(sent, Launches) /\ NoneOf(sent, Mutations)
       /\ \A m \in ToSet(sent) : m.type \in Launches => m.req = chat'.active /\ m.session = chat'.selected
    \/ chat'.active = 0 /\ Unled /\ NoneOf(sent, Launches)
    \/ /\ chat'.active = chat.active /\ chat.selected \in {NoSession, chat'.selected} /\ NoneOf(sent, Launches)
       /\ \E m \in ToSet(toView) : IsWord(m) /\ m.session = chat'.selected

ChatMoves(sent) ==
    /\ UNCHANGED hostVars
    /\ sent \in Seq(Intents(AnySession)) /\ toHost' = toHost \o sent
    /\ toView' = toView \/ (toView # <<>> /\ toView' = Tail(toView))
    /\ issued' \in 0 .. MaxRequests /\ issued <= issued'
    /\ {chat'.active, chat'.list, chat'.restore, chat'.delete, chat'.clear, chat'.reset} \subseteq 0 .. issued'
    /\ \A m \in ToSet(sent) : m.req \in 0 .. issued' /\ (m.req = 0 => m.type = "select-session")
    /\ OneMutation' /\ Asks(sent) /\ Follows(sent)

LEMMA ChatLeaves ==
    ASSUME TalkInv, NEW sent, ChatMoves(sent)
    PROVE  /\ ToSet(toHost') = ToSet(toHost) \cup ToSet(sent) /\ ToSet(toView') \subseteq ToSet(toView)
           /\ host' = host /\ runs' = runs /\ stored' = stored /\ used' = used /\ Told' = Told
           /\ \A A : AtMostOne(toHost, A) /\ NoneOf(sent, A) => AtMostOne(toHost', A)
           /\ \A A : NoneOf(toHost, A) /\ AtMostOne(sent, A) => AtMostOne(toHost', A)
           /\ \A A, B : Before(toHost, A, B) /\ NoneOf(sent, A) => Before(toHost', A, B)
           /\ \A A, B : NoneOf(toHost, B) /\ Before(sent, A, B) => Before(toHost', A, B)
           /\ \A A : AtMostOne(toView, A) => AtMostOne(toView', A)
           /\ \A A : Later(toView', A) \subseteq Later(toView, A)
  <1>1. toHost \in Seq(Intents(AnySession)) /\ toView \in Seq(Messages(AnySession))
    BY Channels DEF TalkInv
  <1>2. /\ sent \in Seq(Intents(AnySession)) /\ toHost' = toHost \o sent
        /\ toView' = toView \/ (toView # <<>> /\ toView' = Tail(toView))
    BY DEF ChatMoves
  <1>3. host' = host /\ runs' = runs /\ stored' = stored /\ used' = used /\ Told' = Told
    BY DEF ChatMoves, hostVars, Told, HiddenRuns
  <1>4. /\ ToSet(toHost') = ToSet(toHost) \cup ToSet(sent)
        /\ \A A : AtMostOne(toHost, A) /\ NoneOf(sent, A) => AtMostOne(toHost', A)
        /\ \A A : NoneOf(toHost, A) /\ AtMostOne(sent, A) => AtMostOne(toHost', A)
        /\ \A A, B : Before(toHost, A, B) /\ NoneOf(sent, A) => Before(toHost', A, B)
        /\ \A A, B : NoneOf(toHost, B) /\ Before(sent, A, B) => Before(toHost', A, B)
    BY <1>1, <1>2, Appended
  <1>5. /\ ToSet(toView') \subseteq ToSet(toView)
        /\ \A A : AtMostOne(toView, A) => AtMostOne(toView', A)
        /\ \A A : Later(toView', A) \subseteq Later(toView, A)
    <2>1. CASE toView' = toView
      BY <2>1
    <2>2. CASE toView # <<>> /\ toView' = Tail(toView)
      <3>1. /\ ToSet(toView) = {Head(toView)} \cup ToSet(Tail(toView))
            /\ \A A : AtMostOne(toView, A) => AtMostOne(Tail(toView), A)
            /\ \A A : Later(Tail(toView), A) \subseteq Later(toView, A)
        BY <1>1, <2>2, Taken
      <3> QED BY <2>2, <3>1
    <2> QED BY <1>2, <2>1, <2>2
  <1> QED BY <1>3, <1>4, <1>5

LEMMA ChatKeepsAsk ==
    ASSUME TalkInv, NEW sent, ChatMoves(sent)
    PROVE  AskInv'
  <1>1. AskInv
    BY DEF TalkInv
  <1>2. /\ ToSet(toHost') = ToSet(toHost) \cup ToSet(sent) /\ ToSet(toView') \subseteq ToSet(toView)
        /\ host' = host /\ runs' = runs
    BY ChatLeaves
  <1>3. Numbered'
    <2>1. /\ issued \in Nat /\ issued' \in 0 .. MaxRequests /\ issued <= issued'
          /\ {chat'.active, chat'.list, chat'.restore, chat'.delete, chat'.clear, chat'.reset} \subseteq 0 .. issued'
          /\ \A m \in ToSet(sent) : m.req \in 0 .. issued' /\ (m.req = 0 => m.type = "select-session")
      BY <1>1 DEF ChatMoves, AskInv, Numbered
    <2>2. \A i : (i \in 0 .. issued => i \in 0 .. issued') /\ (i \in 1 .. issued => i \in 1 .. issued')
      BY <2>1, RequestsAssumption
    <2>3. HostNumbered'
      BY <1>1, <1>2, <2>2 DEF AskInv, Numbered, HostNumbered
    <2> QED BY <1>1, <1>2, <2>1, <2>2, <2>3 DEF AskInv, Numbered
  <1>4. HostTypes'
    BY <1>1, <1>2 DEF AskInv, HostTypes
  <1>5. OneMutation'
    BY DEF ChatMoves
  <1>6. Awaited' /\ OnePlace'
    <2>1. CASE /\ chat'.delete = chat.delete /\ chat'.deleteTarget = chat.deleteTarget
               /\ chat'.clear = chat.clear /\ chat'.reset = chat.reset /\ NoneOf(sent, Mutations)
      <3>1. Awaited'
        <4>1. \A m \in ToSet(sent) : IntentFits(m)'
          BY <2>1 DEF NoneOf, IntentFits, Mutations
        <4>2. \A m : (IntentFits(m) => IntentFits(m)') /\ (AnswerFits(m) => AnswerFits(m)')
          BY <2>1 DEF IntentFits, AnswerFits
        <4>3. HostFits'
          BY <1>1, <1>2, <2>1 DEF AskInv, Awaited, HostFits
        <4> QED BY <1>1, <1>2, <4>1, <4>2, <4>3 DEF AskInv, Awaited
      <3>2. OnePlace'
        <4>1. AtMostOne(toHost', Mutations) /\ AtMostOne(toView', Answers)
          BY <1>1, <2>1, ChatLeaves DEF AskInv, OnePlace
        <4>2. /\ NoneOf(toHost, Mutations) => NoneOf(toHost', Mutations)
              /\ NoneOf(toView, Answers) => NoneOf(toView', Answers)
          BY <1>2, <2>1 DEF NoneOf
        <4>3. Deciding' = Deciding
          BY <1>2 DEF Deciding
        <4> QED BY <1>1, <4>1, <4>2, <4>3 DEF AskInv, OnePlace
      <3> QED BY <3>1, <3>2
    <2>2. CASE Unasked /\ AtMostOne(sent, Mutations) /\ \A m \in ToSet(sent) : IntentFits(m)'
      <3>1. ~Deciding' /\ NoneOf(toView', Answers) /\ NoneOf(toHost, Mutations)
        BY <1>2, <2>2 DEF Unasked, Deciding
      <3>2. HostFits'
        BY <1>1, <1>2, <3>1 DEF AskInv, Awaited, HostFits, Deciding
      <3>3. \A m \in ToSet(toView') : AnswerFits(m)'
        BY <3>1 DEF NoneOf, AnswerFits, Answers
      <3>4. \A m \in ToSet(toHost) : IntentFits(m)'
        BY <3>1 DEF NoneOf, IntentFits, Mutations
      <3>5. Awaited'
        BY <1>2, <2>2, <3>2, <3>3, <3>4 DEF Awaited
      <3>6. AtMostOne(toHost', Mutations) /\ AtMostOne(toView', Answers)
        BY <1>1, <2>2, <3>1, ChatLeaves DEF AskInv, OnePlace
      <3> QED BY <3>1, <3>5, <3>6 DEF OnePlace
    <2> QED BY <2>1, <2>2 DEF ChatMoves, Asks
  <1> QED BY <1>3, <1>4, <1>5, <1>6 DEF AskInv

LEMMA ChatKeepsFollow ==
    ASSUME TalkInv, NEW sent, ChatMoves(sent)
    PROVE  FollowInv'
  <1>1. AskInv /\ FollowInv
    BY DEF TalkInv
  <1>2. /\ ToSet(toHost') = ToSet(toHost) \cup ToSet(sent) /\ ToSet(toView') \subseteq ToSet(toView)
        /\ host' = host /\ runs' = runs
    BY ChatLeaves
  <1>3. HostHushed'
    <2>1. \A s : Quieted(s)' = Quieted(s)
      BY <1>2 DEF Quieted
    <2> QED BY <1>1, <1>2, <2>1 DEF FollowInv, HostHushed
  <1>4. AnswersHushed'
    <2>1. CASE NoneOf(toView', Answers)
      BY <2>1 DEF AnswersHushed, NoneOf
    <2>2. CASE chat'.delete = chat.delete /\ chat'.deleteTarget = chat.deleteTarget
      <3>1. \A m : Hushed(m)' = Hushed(m)
        BY <1>2, <2>2 DEF Hushed, Quieted
      <3> QED BY <1>1, <1>2, <3>1 DEF FollowInv, AnswersHushed
    <2> QED BY <2>1, <2>2 DEF ChatMoves, Asks, Unasked
  <1>5. \A m \in ToSet(toView) : m.req \in Nat /\ m.req >= 1 /\ m.req # issued + 1
    <2>1. issued \in Nat /\ \A m \in ToSet(toView) : m.req \in 1 .. issued
      BY <1>1 DEF AskInv, Numbered
    <2> QED BY <2>1
  <1>6. Deciding' = Deciding
    BY <1>2 DEF Deciding
  <1>7. NoneOf(toView, Answers) => NoneOf(toView', Answers)
    BY <1>2 DEF NoneOf
  <1>8. CASE chat'.active = chat.active /\ chat.selected \in {NoSession, chat'.selected} /\ NoneOf(sent, Launches)
             /\ (chat'.selected = chat.selected \/ \E m \in ToSet(toView) : IsWord(m) /\ m.session = chat'.selected)
    <2>1. \A n : IsWord(n)' = IsWord(n) /\ EndsIt(n)' = EndsIt(n)
      BY <1>8 DEF IsWord, EndsIt
    <2>2. Submitted'
      <3>1. AtMostOne(toHost', Launches) /\ Before(toHost', Launches, Mutations)
        BY <1>1, <1>8, ChatLeaves DEF FollowInv, Submitted
      <3>2. \A m \in ToSet(toHost') : m.type \in Launches => m \in ToSet(toHost)
        BY <1>2, <1>8 DEF NoneOf
      <3>3. \A m \in ToSet(toHost) : m.type \in Launches => chat'.selected = chat.selected
        BY <1>1, <1>8 DEF FollowInv, Submitted
      <3>4. ASSUME NEW m \in ToSet(toHost'), m.type \in Launches
            PROVE  /\ m.req = chat'.active /\ m.session = chat'.selected /\ host'.active = 0 /\ ~Deciding'
                   /\ NoneOf(toView', Answers)
                   /\ \A n \in ToSet(toView') : ~IsWord(n)' /\ ~EndsIt(n)'
        <4>1. m \in ToSet(toHost) /\ chat'.selected = chat.selected
          BY <3>2, <3>3, <3>4
        <4>2. /\ m.req = chat.active /\ m.session = chat.selected /\ host.active = 0 /\ ~Deciding
              /\ NoneOf(toView, Answers)
              /\ \A n \in ToSet(toView) : ~IsWord(n) /\ ~EndsIt(n)
          BY <1>1, <3>4, <4>1 DEF FollowInv, Submitted
        <4> QED BY <1>2, <1>6, <1>7, <1>8, <2>1, <4>1, <4>2
      <3> QED BY <3>1, <3>4 DEF Submitted
    <2>3. ActiveFollowed'
      BY <1>1, <1>2, <1>8, <2>1 DEF FollowInv, ActiveFollowed
    <2>4. WordsAgree'
      <3> SUFFICES ASSUME NEW m \in ToSet(toView'), m.type \in Words
                   PROVE  /\ m.session # NoSession
                          /\ IsWord(m)' /\ chat'.selected # NoSession => m.session = chat'.selected
                          /\ \A n \in ToSet(toView') : IsWord(m)' /\ IsWord(n)' => m.session = n.session
        BY DEF WordsAgree
      <3>1. /\ m.session # NoSession
            /\ IsWord(m) /\ chat.selected # NoSession => m.session = chat.selected
            /\ \A n \in ToSet(toView) : IsWord(m) /\ IsWord(n) => m.session = n.session
        BY <1>1, <1>2 DEF FollowInv, WordsAgree
      <3> QED BY <1>2, <1>8, <2>1, <3>1
    <2> QED BY <1>3, <1>4, <2>2, <2>3, <2>4 DEF FollowInv
  <1>9. CASE /\ chat'.active \in {0, issued + 1} /\ Unled
             /\ NoneOf(sent, Launches) \/ (Unasked /\ AtMostOne(sent, Launches) /\ NoneOf(sent, Mutations)
                  /\ \A m \in ToSet(sent) : m.type \in Launches => m.req = chat'.active /\ m.session = chat'.selected)
    <2>1. \A n \in ToSet(toView) : ~IsWord(n)' /\ ~EndsIt(n)'
      <3>1. \A n \in ToSet(toView) : n.req # chat'.active
        BY <1>5, <1>9
      <3> QED BY <3>1 DEF IsWord, EndsIt
    <2>2. host'.active = 0 /\ NoneOf(toHost, Launches)
      BY <1>2, <1>9 DEF Unled
    <2>3. ActiveFollowed'
      BY <2>2 DEF ActiveFollowed
    <2>4. WordsAgree'
      BY <1>1, <1>2, <2>1 DEF FollowInv, WordsAgree
    <2>5. Submitted'
      <3>1. CASE NoneOf(sent, Launches)
        <4>1. NoneOf(toHost', Launches)
          BY <1>2, <2>2, <3>1 DEF NoneOf
        <4>2. AtMostOne(toHost', Launches) /\ Before(toHost', Launches, Mutations)
          BY <1>1, <3>1, ChatLeaves DEF FollowInv, Submitted
        <4> QED BY <4>1, <4>2 DEF Submitted, NoneOf
      <3>2. CASE Unasked /\ AtMostOne(sent, Launches) /\ NoneOf(sent, Mutations)
                  /\ \A m \in ToSet(sent) : m.type \in Launches => m.req = chat'.active /\ m.session = chat'.selected
        <4>1. Before(sent, Launches, Mutations)
          BY <3>2 DEF Before, NoneOf, ToSet
        <4>2. AtMostOne(toHost', Launches) /\ Before(toHost', Launches, Mutations)
          BY <2>2, <3>2, <4>1, ChatLeaves DEF Unasked
        <4>3. ~Deciding' /\ NoneOf(toView', Answers)
          BY <1>6, <3>2 DEF Unasked
        <4>4. \A m \in ToSet(toHost') : m.type \in Launches => m.req = chat'.active /\ m.session = chat'.selected
          BY <1>2, <2>2, <3>2 DEF NoneOf
        <4>5. \A n \in ToSet(toView') : ~IsWord(n)' /\ ~EndsIt(n)'
          BY <1>2, <2>1
        <4> QED BY <2>2, <4>2, <4>3, <4>4, <4>5 DEF Submitted
      <3> QED BY <1>9, <3>1, <3>2
    <2> QED BY <1>3, <1>4, <2>3, <2>4, <2>5 DEF FollowInv
  <1> QED BY <1>8, <1>9 DEF ChatMoves, Follows

LEMMA ChatKeepsTalk ==
    ASSUME TalkInv, ViewInv', NEW sent, ChatMoves(sent)
    PROVE  TalkInv'
  BY ChatKeepsAsk, ChatKeepsFollow DEF TalkInv

\* The view that is at no deletion or clearing waits for none.
LEMMA NoTokens ==
    ASSUME TalkInv, ~chat.mutating
    PROVE  /\ NoneOf(toHost, Mutations) /\ ~Deciding /\ NoneOf(toView, Answers)
           /\ chat.delete = 0 /\ chat.clear = 0 /\ chat.reset = 0
  <1>1. Numbered /\ OneMutation /\ Awaited
    BY DEF TalkInv, AskInv
  <1>2. chat.delete = 0 /\ chat.clear = 0 /\ chat.reset = 0
    BY <1>1 DEF OneMutation
  <1>3. NoneOf(toHost, Mutations)
    BY <1>1, <1>2 DEF Numbered, Awaited, IntentFits, NoneOf, Mutations
  <1>4. ~Deciding
    BY <1>1, <1>2 DEF Awaited, HostFits, Deciding
  <1>5. \A m \in ToSet(toView) : m.req # 0
    <2>1. \A i \in 1 .. issued : i # 0
      OBVIOUS
    <2> QED BY <1>1, <2>1 DEF Numbered
  <1>6. NoneOf(toView, Answers)
    BY <1>1, <1>2, <1>5 DEF Awaited, AnswerFits, NoneOf, Answers
  <1> QED BY <1>2, <1>3, <1>4, <1>6

\* Nothing is under way for a view that follows no Run.
LEMMA NotLed ==
    ASSUME TalkInv, chat.active = 0
    PROVE  Unled
  <1>1. host.active = 0
    BY DEF TalkInv, FollowInv, ActiveFollowed
  <1>2. NoneOf(toHost, Launches)
    BY DEF TalkInv, AskInv, Numbered, FollowInv, Submitted, NoneOf, Launches
  <1> QED BY <1>1, <1>2 DEF Unled

LEMMA Counted ==
    ASSUME TalkInv, issued' = issued \/ Create
    PROVE  /\ issued' \in 0 .. MaxRequests /\ issued <= issued' /\ 0 \in 0 .. issued' /\ issued' \in 0 .. issued'
           /\ \A i \in 0 .. issued : i \in 0 .. issued'
           /\ issued' # 0 \/ issued' = issued
  <1>1. issued \in 0 .. MaxRequests
    BY DEF TalkInv, AskInv, Numbered
  <1>2. issued' = issued \/ (issued < MaxRequests /\ issued' = issued + 1)
    BY DEF Create, Next1
  <1> QED BY <1>1, <1>2, RequestsAssumption

Lone(m, type, req, session) ==
    /\ m = Intent(type, req, session) /\ m.type = type /\ m.req = req /\ m.session = session
    /\ <<m>> \in Seq(Intents(AnySession)) /\ ToSet(<<m>>) = {m} /\ \A A : AtMostOne(<<m>>, A)

LEMMA OneIntent ==
    ASSUME NEW type \in IntentTypes, NEW req \in Nat, NEW session \in AnySession
    PROVE  \E m : Lone(m, type, req, session)
  <1>1. PICK m : m = Intent(type, req, session)
    OBVIOUS
  <1>2. m \in Intents(AnySession)
    BY <1>1 DEF Intent, Intents
  <1>3. <<m>> \in Seq(Intents(AnySession))
    BY <1>2
  <1>4. m.type = type /\ m.req = req /\ m.session = session
    BY <1>1 DEF Intent
  <1>5. ToSet(<<m>>) = {m} /\ \A A : AtMostOne(<<m>>, A)
    BY Few DEF AtMostOne
  <1> QED BY <1>1, <1>3, <1>4, <1>5 DEF Lone

\* What the view keeps of what it waits for, and of the Run it follows.
KeepsAsk(c) ==
    /\ c.delete = chat.delete /\ c.deleteTarget = chat.deleteTarget /\ c.clear = chat.clear
    /\ c.reset = chat.reset /\ c.mutating = chat.mutating
Keeps(c) == KeepsAsk(c) /\ c.active = chat.active /\ c.selected = chat.selected

LEMMA ChatIs ==
    ASSUME TalkInv
    PROVE  /\ DOMAIN chat = ChatFields /\ Chats(chat, Told) /\ NoSession \in Told /\ Told \subseteq AnySession
           /\ chat.selected \in AnySession /\ chat.selection \in Told /\ chat.active \in Nat /\ issued \in Nat /\ Next1 \in Nat
           /\ {chat.active, chat.list, chat.restore, chat.delete, chat.clear, chat.reset} \subseteq 0 .. issued
           /\ OneMutation
  <1>1. Chats(chat, Told) /\ NoSession \in Told /\ Told \subseteq AnySession /\ issued \in Nat
    BY Channels DEF TalkInv, ViewInv, Named
  <1> HIDE DEF Told
  <1>2. DOMAIN chat = ChatFields /\ chat.selected \in Told /\ chat.selection \in Told /\ chat.active \in Nat
    BY <1>1 DEF Chats
  <1> QED BY <1>1, <1>2 DEF TalkInv, AskInv, Numbered, Next1

\* A question is sent.
LEMMA LaunchSent ==
    ASSUME TalkInv, UNCHANGED hostVars, MayRun, Create, NEW type \in Launches, NEW c,
           KeepsAsk(c), c.active = Next1, c.selected = chat.selected, c.list = chat.list,
           c.restore = chat.restore, c.restoreTarget = chat.restoreTarget,
           Send(c, <<Intent(type, Next1, chat.selected)>>)
    PROVE  \E sent : ChatMoves(sent)
  <1>1. /\ chat' = c /\ toHost' = toHost \o <<Intent(type, Next1, chat.selected)>> /\ toView' = toView
        /\ chat.active = 0 /\ chat.restore = 0 /\ ~chat.mutating /\ issued' = Next1 /\ issued' = issued + 1
    BY DEF Send, MayRun, Unoccupied, Create, NoRequest, Next1
  <1>0. PICK m : Lone(m, type, Next1, chat.selected)
    <2>1. type \in IntentTypes /\ Next1 \in Nat /\ chat.selected \in AnySession
      BY ChatIs DEF Launches, IntentTypes
    <2> QED BY <2>1, OneIntent
  <1>2. /\ m = Intent(type, Next1, chat.selected) /\ m.type = type /\ m.req = Next1 /\ m.session = chat.selected
        /\ <<m>> \in Seq(Intents(AnySession)) /\ ToSet(<<m>>) = {m} /\ \A A : AtMostOne(<<m>>, A)
    BY <1>0 DEF Lone
  <1>3. /\ NoneOf(toHost, Mutations) /\ ~Deciding /\ NoneOf(toView, Answers) /\ Unled
        /\ chat.delete = 0 /\ chat.clear = 0 /\ chat.reset = 0
    BY <1>1, NoTokens, NotLed
  <1>4. Unasked
    BY <1>1, <1>3 DEF Unasked
  <1>5. NoneOf(<<m>>, Mutations)
    BY <1>2 DEF NoneOf, Launches, Mutations
  <1>6. Told' = Told
    BY DEF hostVars, Told, HiddenRuns
  <1>7. OneMutation'
    BY <1>1, <1>3, <1>6, ChatIs DEF OneMutation, KeepsAsk
  <1>8. Asks(<<m>>)
    BY <1>1, <1>5 DEF Asks, KeepsAsk
  <1>9. Follows(<<m>>)
    BY <1>1, <1>2, <1>3, <1>4, <1>5 DEF Follows
  <1>10. {chat'.active, chat'.list, chat'.restore, chat'.delete, chat'.clear, chat'.reset} \subseteq 0 .. issued'
    BY <1>1, ChatIs, Counted DEF KeepsAsk
  <1>11. m.req \in 0 .. issued' /\ m.req # 0
    <2>1. issued + 1 # 0
      BY ChatIs
    <2> QED BY <1>1, <1>2, <2>1, Counted
  <1>12. ChatMoves(<<m>>)
    BY <1>1, <1>2, <1>7, <1>8, <1>9, <1>10, <1>11, Counted DEF ChatMoves
  <1> QED BY <1>12

\* A deletion or a clearing is asked for.
LEMMA MutationSent ==
    ASSUME TalkInv, UNCHANGED hostVars, ~chat.mutating, Create, NEW type \in Mutations, NEW session \in AnySession, NEW c,
           c.active = chat.active, c.selected = chat.selected,
           {c.active, c.list, c.restore, c.delete, c.clear, c.reset} \subseteq 0 .. issued', OneMutation',
           type = "delete-session" => c.delete = Next1 /\ c.deleteTarget = session,
           type = "clear-sessions" => c.clear = Next1,
           type = "clear-local-data" => c.reset = Next1,
           Send(c, <<Intent(type, Next1, session)>>)
    PROVE  \E sent : ChatMoves(sent)
  <1>1. /\ chat' = c /\ toHost' = toHost \o <<Intent(type, Next1, session)>> /\ toView' = toView
        /\ issued' = Next1 /\ issued' = issued + 1
    BY DEF Send, Create, Next1
  <1>0. PICK m : Lone(m, type, Next1, session)
    <2>1. type \in IntentTypes /\ Next1 \in Nat
      BY ChatIs DEF Mutations, IntentTypes
    <2> QED BY <2>1, OneIntent
  <1>2. /\ m = Intent(type, Next1, session) /\ m.type = type /\ m.req = Next1 /\ m.session = session
        /\ <<m>> \in Seq(Intents(AnySession)) /\ ToSet(<<m>>) = {m} /\ \A A : AtMostOne(<<m>>, A)
    BY <1>0 DEF Lone
  <1>3. Unasked
    BY <1>1, NoTokens DEF Unasked
  <1>4. NoneOf(<<m>>, Launches)
    BY <1>2 DEF NoneOf, Launches, Mutations
  <1>5. IntentFits(m)'
    BY <1>1, <1>2 DEF IntentFits
  <1>6. Asks(<<m>>)
    BY <1>2, <1>3, <1>5 DEF Asks
  <1>7. Follows(<<m>>)
    BY <1>1, <1>4 DEF Follows
  <1>8. m.req \in 0 .. issued' /\ m.req # 0
    <2>1. issued + 1 # 0
      BY ChatIs
    <2> QED BY <1>1, <1>2, <2>1, Counted
  <1>9. ChatMoves(<<m>>)
    BY <1>1, <1>2, <1>6, <1>7, <1>8, Counted DEF ChatMoves
  <1> QED BY <1>9

\* Anything else is sent.
LEMMA OtherSent ==
    ASSUME TalkInv, UNCHANGED hostVars, issued' = issued \/ Create, NEW c, Keeps(c),
           NEW type \in IntentTypes \ (Launches \cup Mutations), NEW req \in 0 .. issued', NEW session \in AnySession,
           req = 0 => type = "select-session",
           {c.list, c.restore} \subseteq 0 .. issued', OneMutation',
           Send(c, <<Intent(type, req, session)>>)
    PROVE  \E sent : ChatMoves(sent)
  <1>1. /\ chat' = c /\ toHost' = toHost \o <<Intent(type, req, session)>> /\ toView' = toView
    BY DEF Send
  <1>0. PICK m : Lone(m, type, req, session)
    <2>1. req \in Nat
      OBVIOUS
    <2> QED BY <2>1, OneIntent
  <1>2. /\ m = Intent(type, req, session) /\ m.type = type /\ m.req = req /\ m.session = session
        /\ <<m>> \in Seq(Intents(AnySession)) /\ ToSet(<<m>>) = {m} /\ \A A : AtMostOne(<<m>>, A)
    BY <1>0 DEF Lone
  <1>3. NoneOf(<<m>>, Launches) /\ NoneOf(<<m>>, Mutations)
    BY <1>2 DEF NoneOf
  <1>4. Asks(<<m>>) /\ Follows(<<m>>)
    BY <1>1, <1>3 DEF Asks, Follows, Keeps, KeepsAsk
  <1>5. {chat'.active, chat'.list, chat'.restore, chat'.delete, chat'.clear, chat'.reset} \subseteq 0 .. issued'
    BY <1>1, ChatIs, Counted DEF Keeps, KeepsAsk
  <1>6. ChatMoves(<<m>>)
    BY <1>1, <1>2, <1>4, <1>5, Counted DEF ChatMoves
  <1> QED BY <1>6

LEMMA UserActsMove ==
    ASSUME TalkInv, UserActs, UNCHANGED hostVars
    PROVE  \E sent : ChatMoves(sent)
  <1>1. /\ DOMAIN chat = ChatFields /\ chat.selected \in AnySession /\ chat.selection \in AnySession
        /\ chat.selection \in Told /\ issued \in Nat /\ Next1 \in Nat /\ NoSession \in AnySession
        /\ {chat.active, chat.list, chat.restore, chat.delete, chat.clear, chat.reset} \subseteq 0 .. issued
        /\ OneMutation
    <2> DEFINE T == Told
    <2>1. chat.selection \in T /\ T \subseteq AnySession /\ NoSession \in T
      BY ChatIs
    <2> HIDE DEF T
    <2>2. chat.selection \in AnySession /\ NoSession \in AnySession
      BY <2>1
    <2> QED BY <2>1, <2>2, ChatIs DEF T
  <1>2. Told' = Told
    BY DEF hostVars, Told, HiddenRuns
  <1> HIDE DEF Told
  <1>3. Create => /\ issued' = Next1 /\ issued' = issued + 1 /\ Next1 \in 0 .. issued' /\ Next1 # 0 /\ 0 \in 0 .. issued'
                  /\ \A i \in 0 .. issued : i \in 0 .. issued'
    <2>1. issued + 1 # 0
      BY <1>1
    <2> QED BY <2>1, Counted DEF Create, Next1
  <1>4. ASSUME MayRun, Create, NEW c, KeepsAsk(c), c.active = Next1, c.selected = chat.selected, c.list = chat.list,
               c.restore = chat.restore, c.restoreTarget = chat.restoreTarget,
               \E type \in Launches : Send(c, <<Intent(type, Next1, chat.selected)>>)
        PROVE  \E sent : ChatMoves(sent)
    BY <1>4, LaunchSent
  <1>5. CASE Submit
    <2> DEFINE c == [Following(chat) EXCEPT !.transcript = Append(Following(chat).transcript, Exchange(Next1)),
                                            !.target = Next1]
    <2>1. Send(c, <<Intent("submit", Next1, chat.selected)>>) /\ MayRun /\ Create
      BY <1>5 DEF Submit
    <2>2. KeepsAsk(c) /\ c.active = Next1 /\ c.selected = chat.selected /\ c.list = chat.list
          /\ c.restore = chat.restore /\ c.restoreTarget = chat.restoreTarget
      BY <1>1 DEF Following, ChatFields, KeepsAsk
    <2> HIDE DEF c
    <2> QED BY <1>4, <2>1, <2>2 DEF Launches
  <1>6. CASE Regenerate
    <2> DEFINE old == Last(chat.transcript)
               c == [Following(chat) EXCEPT !.target = old.id,
                        !.regeneration = [id |-> old.id, kept |-> <<old>>, begun |-> FALSE]]
    <2>1. Send(c, <<Intent("regenerate", Next1, chat.selected)>>) /\ MayRun /\ Create
      BY <1>6 DEF Regenerate
    <2> HIDE DEF old
    <2>2. KeepsAsk(c) /\ c.active = Next1 /\ c.selected = chat.selected /\ c.list = chat.list
          /\ c.restore = chat.restore /\ c.restoreTarget = chat.restoreTarget
      BY <1>1 DEF Following, ChatFields, KeepsAsk
    <2> HIDE DEF c
    <2> QED BY <1>4, <2>1, <2>2 DEF Launches
  <1>7. CASE EditMessage
    <2>1. PICK b, c : /\ c = [Following(chat) EXCEPT !.target = NoRequest, !.edit = b]
                      /\ Send(c, <<Intent("edit-message", Next1, chat.selected)>>) /\ MayRun /\ Create
      BY <1>7 DEF EditMessage
    <2>2. KeepsAsk(c) /\ c.active = Next1 /\ c.selected = chat.selected /\ c.list = chat.list
          /\ c.restore = chat.restore /\ c.restoreTarget = chat.restoreTarget
      BY <1>1, <2>1 DEF Following, ChatFields, KeepsAsk
    <2> QED BY <1>4, <2>1, <2>2 DEF Launches
  <1>8. CASE Cancel
    <2>1. Send(chat, <<Intent("cancel", chat.active, NoSession)>>) /\ chat.active # 0 /\ issued' = issued /\ chat' = chat
      BY <1>8 DEF Cancel, Send, NoRequest
    <2>2. Keeps(chat) /\ OneMutation' /\ {chat.list, chat.restore} \subseteq 0 .. issued' /\ chat.active \in 0 .. issued'
      BY <1>1, <1>2, <2>1 DEF Keeps, KeepsAsk, OneMutation
    <2>3. "cancel" \in IntentTypes \ (Launches \cup Mutations)
      BY DEF IntentTypes, Launches, Mutations
    <2> QED BY <1>1, <2>1, <2>2, <2>3, OtherSent
  <1>9. CASE NewChat
    <2> DEFINE n == NoReplacement(chat)
    <2>1. PICK c : c = [n EXCEPT
                !.transcript = <<>>, !.status = "ended", !.pending = {},
                !.target = NoRequest, !.list = NoRequest,
                !.restoreTarget = NoSession, !.delete = NoRequest,
                !.deleteTarget = NoSession, !.clear = NoRequest, !.mismatched = {},
                !.selected = NoSession, !.selection = NoSession, !.readOnly = FALSE]
      OBVIOUS
    <2>2. /\ chat' = c /\ toHost' = toHost \o <<Intent("select-session", Next1, NoSession), Intent("new-chat", Next1, NoSession)>>
          /\ toView' = toView /\ Create /\ Unoccupied
      BY <1>9, <2>1 DEF NewChat, Send
    <2>3. DOMAIN n = ChatFields /\ n.active = chat.active /\ n.restore = chat.restore /\ n.reset = chat.reset /\ n.mutating = chat.mutating
      BY <1>1 DEF NoReplacement, ChatFields
    <2> HIDE DEF n
    <2>4. /\ c.active = 0 /\ c.restore = 0 /\ c.reset = chat.reset /\ c.mutating = chat.mutating /\ chat.mutating = FALSE
          /\ c.list = 0 /\ c.delete = 0 /\ c.clear = 0 /\ c.restoreTarget = NoSession
      BY <1>1, <2>1, <2>2, <2>3 DEF ChatFields, NoRequest, Unoccupied, OneMutation
    <2>5. /\ Unasked /\ Unled /\ chat.reset = 0
      BY <2>2, <2>4, NoTokens, NotLed DEF Unasked, Unoccupied, NoRequest
    <2>6. OneMutation'
      BY <1>1, <1>2, <2>2, <2>4, <2>5 DEF OneMutation
    <2>7. PICK m, k : /\ m = Intent("select-session", Next1, NoSession) /\ k = Intent("new-chat", Next1, NoSession)
      OBVIOUS
    <2>8. m.type = "select-session" /\ k.type = "new-chat" /\ m.req = Next1 /\ k.req = Next1
      BY <2>7 DEF Intent
    <2>9. m \in Intents(AnySession) /\ k \in Intents(AnySession)
      BY <1>1, <2>7 DEF Intent, Intents, IntentTypes
    <2>10. <<m, k>> \in Seq(Intents(AnySession)) /\ ToSet(<<m, k>>) = {m, k}
      <3>1. <<m, k>> \in Seq(Intents(AnySession))
        BY <2>9
      <3> QED BY <3>1, Few
    <2>11. NoneOf(<<m, k>>, Launches) /\ NoneOf(<<m, k>>, Mutations)
      BY <2>8, <2>10 DEF NoneOf, Launches, Mutations
    <2>12. AtMostOne(<<m, k>>, Mutations)
      BY <2>11 DEF NoneOf, AtMostOne, ToSet
    <2>13. \A x \in ToSet(<<m, k>>) : IntentFits(x)' /\ x.req \in 0 .. issued' /\ x.req # 0
      BY <1>3, <2>2, <2>8, <2>10 DEF IntentFits
    <2>14. Asks(<<m, k>>)
      BY <2>5, <2>12, <2>13 DEF Asks
    <2>15. Follows(<<m, k>>)
      BY <2>2, <2>4, <2>5, <2>11 DEF Follows
    <2>16. {chat'.active, chat'.list, chat'.restore, chat'.delete, chat'.clear, chat'.reset} \subseteq 0 .. issued'
      BY <1>3, <2>2, <2>4, <2>5
    <2>17. ChatMoves(<<m, k>>)
      BY <2>2, <2>6, <2>7, <2>10, <2>13, <2>14, <2>15, <2>16, Counted DEF ChatMoves
    <2> QED BY <2>17
  <1>10. CASE LoadSessions
    <2> DEFINE c == [chat EXCEPT !.list = Next1]
    <2>1. Send(c, <<Intent("list-sessions", Next1, NoSession)>>) /\ Create /\ chat' = c
      BY <1>10 DEF LoadSessions, Send
    <2>2. Keeps(c) /\ c.list = Next1 /\ c.restore = chat.restore /\ c.restoreTarget = chat.restoreTarget
      BY <1>1 DEF ChatFields, Keeps, KeepsAsk
    <2> HIDE DEF c
    <2>3. OneMutation'
      <3>1. ~chat.mutating
        BY <1>10 DEF LoadSessions, Unoccupied
      <3> QED BY <1>1, <1>2, <2>1, <2>2, <3>1 DEF OneMutation, Keeps, KeepsAsk
    <2>4. "list-sessions" \in IntentTypes \ (Launches \cup Mutations)
      BY DEF IntentTypes, Launches, Mutations
    <2> QED BY <1>1, <1>3, <2>1, <2>2, <2>3, <2>4, OtherSent
  <1>11. CASE SelectSession
    <2> DEFINE n == NoReplacement(chat)
    <2>1. PICK s \in chat.sessions \ {chat.selection} :
            Send([n EXCEPT !.selection = s, !.switching = s # chat.selected], <<Intent("select-session", NoRequest, s)>>)
      BY <1>11 DEF SelectSession
    <2>2. s \in AnySession /\ issued' = issued
      <3> DEFINE T == Told
      <3>1. s \in T /\ T \subseteq AnySession
        BY <2>1, ChatIs DEF Chats
      <3> HIDE DEF T
      <3> QED BY <1>11, <3>1 DEF SelectSession
    <2>3. PICK c : c = [n EXCEPT !.selection = s, !.switching = s # chat.selected]
      OBVIOUS
    <2>4. DOMAIN n = ChatFields /\ Keeps(n) /\ n.list = chat.list /\ n.restore = chat.restore /\ n.restoreTarget = chat.restoreTarget
      BY <1>1 DEF NoReplacement, ChatFields, Keeps, KeepsAsk
    <2> HIDE DEF n
    <2>5. Keeps(c) /\ c.list = chat.list /\ c.restore = chat.restore /\ c.restoreTarget = chat.restoreTarget
      BY <2>3, <2>4 DEF ChatFields, Keeps, KeepsAsk
    <2>6. Send(c, <<Intent("select-session", 0, s)>>) /\ chat' = c
      BY <2>1, <2>3 DEF Send, NoRequest
    <2>7. OneMutation'
      BY <1>1, <1>2, <2>2, <2>5, <2>6 DEF OneMutation, Keeps, KeepsAsk
    <2>8. "select-session" \in IntentTypes \ (Launches \cup Mutations)
      BY DEF IntentTypes, Launches, Mutations
    <2> QED BY <1>1, <2>2, <2>5, <2>6, <2>7, <2>8, OtherSent, Counted
  <1>12. CASE RestoreSelectedSession
    <2> DEFINE c == [chat EXCEPT !.list = NoRequest, !.restore = Next1, !.restoreTarget = chat.selection]
    <2>1. /\ Send(c, <<Intent("restore-session", Next1, chat.selection)>>) /\ Create /\ chat' = c
          /\ Unoccupied /\ chat.selection # NoSession
      BY <1>12 DEF RestoreSelectedSession, Send
    <2>2. Keeps(c) /\ c.list = 0 /\ c.restore = Next1 /\ c.restoreTarget = chat.selection
      BY <1>1 DEF ChatFields, Keeps, KeepsAsk, NoRequest
    <2> HIDE DEF c
    <2>3. OneMutation'
      BY <1>1, <1>2, <2>1, <2>2 DEF OneMutation, Keeps, KeepsAsk, Unoccupied, NoRequest
    <2>4. "restore-session" \in IntentTypes \ (Launches \cup Mutations)
      BY DEF IntentTypes, Launches, Mutations
    <2> QED BY <1>1, <1>3, <2>1, <2>2, <2>3, <2>4, OtherSent
  <1>13. RoomToReload /\ Create => issued' < MaxRequests
    BY <1>1, RequestsAssumption DEF RoomToReload, Create, Next1
  <1>14. CASE DeleteSession
    <2> DEFINE c == [chat EXCEPT !.list = NoRequest, !.delete = Next1, !.deleteTarget = chat.selection, !.mutating = TRUE]
    <2>1. /\ Send(c, <<Intent("delete-session", Next1, chat.selection)>>) /\ Create /\ chat' = c /\ issued' < MaxRequests
          /\ ~chat.mutating /\ chat.restore = 0 /\ chat.selection # NoSession
      BY <1>13, <1>14 DEF DeleteSession, Send, NoRequest
    <2>2. /\ c.list = 0 /\ c.delete = Next1 /\ c.deleteTarget = chat.selection /\ c.mutating = TRUE
          /\ c.active = chat.active /\ c.selected = chat.selected /\ c.restore = chat.restore
          /\ c.clear = chat.clear /\ c.reset = chat.reset
      BY <1>1 DEF ChatFields, NoRequest
    <2> HIDE DEF c
    <2>3. chat.delete = 0 /\ chat.clear = 0 /\ chat.reset = 0
      BY <2>1, NoTokens
    <2>4. OneMutation'
      BY <1>1, <1>2, <2>1, <2>2, <2>3 DEF OneMutation
    <2>5. {c.active, c.list, c.restore, c.delete, c.clear, c.reset} \subseteq 0 .. issued'
      BY <1>1, <1>3, <2>1, <2>2
    <2>6. "delete-session" \in Mutations
      BY DEF Mutations
    <2> QED BY <1>1, <2>1, <2>2, <2>4, <2>5, <2>6, MutationSent
  <1>15. CASE ClearSessions
    <2> DEFINE c == [chat EXCEPT !.list = NoRequest, !.clear = Next1, !.mutating = TRUE]
    <2>1. /\ Send(c, <<Intent("clear-sessions", Next1, NoSession)>>) /\ Create /\ chat' = c /\ issued' < MaxRequests
          /\ ~chat.mutating /\ chat.restore = 0
      BY <1>13, <1>15 DEF ClearSessions, Send, NoRequest
    <2>2. /\ c.list = 0 /\ c.clear = Next1 /\ c.mutating = TRUE /\ c.delete = chat.delete
          /\ c.active = chat.active /\ c.selected = chat.selected /\ c.restore = chat.restore /\ c.reset = chat.reset
      BY <1>1 DEF ChatFields, NoRequest
    <2> HIDE DEF c
    <2>3. chat.delete = 0 /\ chat.clear = 0 /\ chat.reset = 0
      BY <2>1, NoTokens
    <2>4. OneMutation'
      BY <1>1, <1>2, <2>1, <2>2, <2>3 DEF OneMutation
    <2>5. {c.active, c.list, c.restore, c.delete, c.clear, c.reset} \subseteq 0 .. issued'
      BY <1>1, <1>3, <2>1, <2>2
    <2>6. "clear-sessions" \in Mutations
      BY DEF Mutations
    <2> QED BY <1>1, <2>1, <2>2, <2>4, <2>5, <2>6, MutationSent
  <1>16. CASE ClearLocalData
    <2> DEFINE c == [chat EXCEPT !.list = NoRequest, !.reset = Next1, !.mutating = TRUE]
    <2>1. /\ Send(c, <<Intent("clear-local-data", Next1, NoSession)>>) /\ Create /\ chat' = c /\ ~chat.mutating
      BY <1>16 DEF ClearLocalData, Send, NoRequest
    <2>2. /\ c.list = 0 /\ c.reset = Next1 /\ c.mutating = TRUE /\ c.delete = chat.delete /\ c.clear = chat.clear
          /\ c.active = chat.active /\ c.selected = chat.selected
          /\ c.restore = chat.restore /\ c.restoreTarget = chat.restoreTarget
      BY <1>1 DEF ChatFields, NoRequest
    <2> HIDE DEF c
    <2>3. chat.delete = 0 /\ chat.clear = 0 /\ chat.reset = 0
      BY <2>1, NoTokens
    <2>4. OneMutation'
      BY <1>1, <1>2, <2>1, <2>2, <2>3 DEF OneMutation
    <2>5. {c.active, c.list, c.restore, c.delete, c.clear, c.reset} \subseteq 0 .. issued'
      BY <1>1, <1>3, <2>1, <2>2
    <2>6. "clear-local-data" \in Mutations
      BY DEF Mutations
    <2> QED BY <1>1, <2>1, <2>2, <2>4, <2>5, <2>6, MutationSent
  <1> QED BY <1>5, <1>6, <1>7, <1>8, <1>9, <1>10, <1>11, <1>12, <1>14, <1>15, <1>16 DEF UserActs

\* What showing text leaves alone: what is waited for, the list and the Run followed.
Beside(c, d) ==
    /\ DOMAIN d = ChatFields
    /\ d.active = c.active /\ d.list = c.list /\ d.restore = c.restore /\ d.restoreTarget = c.restoreTarget
    /\ d.delete = c.delete /\ d.deleteTarget = c.deleteTarget /\ d.clear = c.clear /\ d.reset = c.reset
    /\ d.mutating = c.mutating /\ d.selected = c.selected /\ d.selection = c.selection /\ d.sessions = c.sessions
    /\ d.mismatched = c.mismatched

LEMMA ShowsBeside ==
    ASSUME NEW c, DOMAIN c = ChatFields
    PROVE  /\ Beside(c, c) /\ Beside(c, Flushed(c)) /\ Beside(c, RegenerationBegun(c)) /\ Beside(c, EditBegun(c))
           /\ Beside(c, RegenerationRestored(c)) /\ Beside(c, EditRestored(c))
  <1>1. Beside(c, c)
    BY DEF Beside
  <1>2. Beside(c, Flushed(c))
    BY DEF Flushed, Beside, ChatFields
  <1>3. Beside(c, RegenerationBegun(c))
    BY DEF RegenerationBegun, Beside, ChatFields
  <1>4. Beside(c, EditBegun(c))
    BY DEF EditBegun, Beside, ChatFields
  <1>5. Beside(c, RegenerationRestored(c))
    BY DEF RegenerationRestored, Beside, ChatFields
  <1>6. Beside(c, EditRestored(c))
    BY DEF EditRestored, Beside, ChatFields
  <1> QED BY <1>1, <1>2, <1>3, <1>4, <1>5, <1>6

\* What clearing the view of a Session, or of all, leaves.
Clears(c, s) == s = NoSession \/ c.selected = s
Cleared(c, s, d) ==
    /\ DOMAIN d = ChatFields
    /\ d.delete = c.delete /\ d.deleteTarget = c.deleteTarget /\ d.clear = c.clear /\ d.reset = c.reset
    /\ d.mutating = c.mutating /\ d.list = c.list /\ d.mismatched = c.mismatched
    /\ d.sessions = (IF s = NoSession THEN {} ELSE c.sessions \ {s})
    /\ Clears(c, s) => /\ d.active = 0 /\ d.restore = 0 /\ d.restoreTarget = NoSession
                       /\ d.selected = NoSession /\ d.selection = NoSession
                       /\ d.transcript = <<>> /\ d.pending = {} /\ d.target = 0
                       /\ d.regeneration = NoBackup /\ d.edit = NoBackup
    /\ ~Clears(c, s) => /\ d.active = c.active /\ d.restore = c.restore /\ d.restoreTarget = c.restoreTarget
                        /\ d.selected = c.selected
                        /\ d.selection = (IF c.selection = s THEN c.selected ELSE c.selection)
                        /\ d.transcript = c.transcript /\ d.pending = c.pending /\ d.target = c.target
                        /\ d.regeneration = c.regeneration /\ d.edit = c.edit
LEMMA ResetLeaves ==
    ASSUME NEW c, DOMAIN c = ChatFields, NEW s
    PROVE  Cleared(c, s, Reset(c, s))
  <1> DEFINE l == [c EXCEPT !.sessions = IF s = NoSession THEN {} ELSE c.sessions \ {s}]
             n == NoReplacement(l)
  <1>0. PICK d : d = Reset(c, s)
    OBVIOUS
  <1>1. /\ DOMAIN l = ChatFields /\ l.sessions = (IF s = NoSession THEN {} ELSE c.sessions \ {s})
        /\ l.delete = c.delete /\ l.deleteTarget = c.deleteTarget /\ l.clear = c.clear /\ l.reset = c.reset
        /\ l.mutating = c.mutating /\ l.list = c.list /\ l.mismatched = c.mismatched
        /\ l.active = c.active /\ l.restore = c.restore /\ l.restoreTarget = c.restoreTarget
        /\ l.selected = c.selected /\ l.selection = c.selection
        /\ l.transcript = c.transcript /\ l.pending = c.pending /\ l.target = c.target
        /\ l.regeneration = c.regeneration /\ l.edit = c.edit
    BY DEF ChatFields
  <1>2. /\ Clears(c, s) => d = [n EXCEPT !.transcript = <<>>, !.pending = {}, !.target = NoRequest,
               !.restore = NoRequest, !.restoreTarget = NoSession,
               !.status = "ended", !.active = NoRequest, !.selected = NoSession,
               !.selection = NoSession, !.switching = FALSE, !.readOnly = FALSE]
        /\ ~Clears(c, s) /\ c.selection = s => d = [l EXCEPT !.selection = c.selected, !.switching = FALSE]
        /\ ~Clears(c, s) /\ c.selection # s => d = l
    BY <1>0 DEF Reset, Clears
  <1> HIDE DEF l
  <1>3. /\ DOMAIN n = ChatFields /\ n.sessions = l.sessions
        /\ n.delete = l.delete /\ n.deleteTarget = l.deleteTarget /\ n.clear = l.clear /\ n.reset = l.reset
        /\ n.mutating = l.mutating /\ n.list = l.list /\ n.mismatched = l.mismatched
        /\ n.regeneration = NoBackup /\ n.edit = NoBackup
    BY <1>1 DEF NoReplacement, ChatFields
  <1> HIDE DEF n
  <1>4. ASSUME Clears(c, s) PROVE Cleared(c, s, d)
    <2>1. d = [n EXCEPT !.transcript = <<>>, !.pending = {}, !.target = NoRequest,
               !.restore = NoRequest, !.restoreTarget = NoSession,
               !.status = "ended", !.active = NoRequest, !.selected = NoSession,
               !.selection = NoSession, !.switching = FALSE, !.readOnly = FALSE]
      BY <1>2, <1>4
    <2>2. /\ DOMAIN d = ChatFields /\ d.sessions = n.sessions
          /\ d.delete = n.delete /\ d.deleteTarget = n.deleteTarget /\ d.clear = n.clear /\ d.reset = n.reset
          /\ d.mutating = n.mutating /\ d.list = n.list /\ d.mismatched = n.mismatched
          /\ d.regeneration = n.regeneration /\ d.edit = n.edit
      BY <1>3, <2>1 DEF ChatFields
    <2>3. d.active = 0 /\ d.restore = 0 /\ d.restoreTarget = NoSession /\ d.target = 0
      BY <1>3, <2>1 DEF ChatFields, NoRequest
    <2>4. d.selected = NoSession /\ d.selection = NoSession /\ d.transcript = <<>> /\ d.pending = {}
      BY <1>3, <2>1 DEF ChatFields
    <2> QED BY <1>1, <1>3, <1>4, <2>2, <2>3, <2>4 DEF Cleared
  <1>5. ASSUME ~Clears(c, s), c.selection = s PROVE Cleared(c, s, d)
    <2>1. d = [l EXCEPT !.selection = c.selected, !.switching = FALSE]
      BY <1>2, <1>5
    <2>2. /\ DOMAIN d = ChatFields /\ d.sessions = l.sessions
          /\ d.delete = l.delete /\ d.deleteTarget = l.deleteTarget /\ d.clear = l.clear /\ d.reset = l.reset
          /\ d.mutating = l.mutating /\ d.list = l.list /\ d.mismatched = l.mismatched
          /\ d.regeneration = l.regeneration /\ d.edit = l.edit
      BY <1>1, <2>1 DEF ChatFields
    <2>3. /\ d.active = l.active /\ d.restore = l.restore /\ d.restoreTarget = l.restoreTarget /\ d.target = l.target
          /\ d.selected = l.selected /\ d.selection = c.selected /\ d.transcript = l.transcript /\ d.pending = l.pending
      BY <1>1, <2>1 DEF ChatFields
    <2> QED BY <1>1, <1>5, <2>2, <2>3 DEF Cleared
  <1>6. ASSUME ~Clears(c, s), c.selection # s PROVE Cleared(c, s, d)
    BY <1>1, <1>2, <1>6 DEF Cleared
  <1>7. Cleared(c, s, d)
    BY <1>4, <1>5, <1>6
  <1> QED BY <1>0, <1>7

\* The message at hand, and what is left.
LEMMA IncomingIs ==
    ASSUME TalkInv, toView # <<>>, toView' = Tail(toView), UNCHANGED hostVars
    PROVE  /\ Incoming \in ToSet(toView) /\ Incoming \in Messages(Told) /\ Incoming.req \in 1 .. issued /\ Incoming.req # 0
           /\ ToSet(toView') \subseteq ToSet(toView) /\ ToSet(toView) = {Incoming} \cup ToSet(toView')
           /\ Incoming.type \in Answers => Unasked /\ AnswerFits(Incoming) /\ Hushed(Incoming) /\ NoneOf(toHost, Launches)
           /\ \A A : Incoming.type \in A => ToSet(toView') \subseteq Later(toView, A)
           /\ \A A : Later(toView', A) \subseteq Later(toView, A)
           /\ Told' = Told /\ host' = host /\ runs' = runs /\ stored' = stored /\ used' = used
  <1>1. toView \in Seq(Messages(Told)) /\ Numbered /\ OnePlace /\ Awaited /\ Submitted /\ AnswersHushed
    BY DEF TalkInv, ViewInv, Named, AskInv, FollowInv
  <1>2. Told' = Told /\ host' = host /\ runs' = runs /\ stored' = stored /\ used' = used
    BY DEF hostVars, Told, HiddenRuns
  <1> HIDE DEF Told
  <1>3. /\ Incoming \in Messages(Told) /\ ToSet(toView) = {Incoming} \cup ToSet(toView')
        /\ \A A : AtMostOne(toView, A) => (Incoming.type \in A => NoneOf(toView', A))
        /\ \A A : Later(toView', A) \subseteq Later(toView, A) /\ (Incoming.type \in A => ToSet(toView') \subseteq Later(toView, A))
    BY <1>1, Taken DEF Incoming
  <1>4. Incoming \in ToSet(toView)
    BY <1>3
  <1>5. Incoming.req \in 1 .. issued /\ Incoming.req # 0
    <2>1. \A i \in 1 .. issued : i # 0
      OBVIOUS
    <2> QED BY <1>1, <1>4, <2>1 DEF Numbered
  <1>6. ASSUME Incoming.type \in Answers
        PROVE  Unasked /\ AnswerFits(Incoming) /\ Hushed(Incoming) /\ NoneOf(toHost, Launches)
    <2>1. ~NoneOf(toView, Answers)
      BY <1>4, <1>6 DEF NoneOf
    <2>2. NoneOf(toHost, Mutations) /\ ~Deciding /\ NoneOf(toView', Answers)
      BY <1>1, <1>3, <1>6, <2>1 DEF OnePlace
    <2>3. NoneOf(toHost, Launches)
      BY <1>1, <2>1 DEF Submitted, NoneOf
    <2>4. AnswerFits(Incoming) /\ Hushed(Incoming)
      BY <1>1, <1>4, <1>6 DEF Awaited, AnswersHushed
    <2> QED BY <2>2, <2>3, <2>4 DEF Unasked
  <1> QED BY <1>2, <1>3, <1>4, <1>5, <1>6

LEMMA ReceiveMoves ==
    ASSUME TalkInv, UNCHANGED hostVars, toView' = toView \/ (toView # <<>> /\ toView' = Tail(toView)), NEW c, Becomes(c),
           {c.active, c.list, c.restore, c.delete, c.clear, c.reset} \subseteq 0 .. issued,
           OneMutation', Asks(<<>>), Follows(<<>>)
    PROVE  \E sent : ChatMoves(sent)
  <1>1. chat' = c /\ toHost' = toHost /\ issued' = issued
    BY DEF Becomes
  <1>2. <<>> \in Seq(Intents(AnySession)) /\ ToSet(<<>>) = {} /\ toHost = toHost \o <<>>
    <2>1. toHost \in Seq(Intents(AnySession))
      BY Channels DEF TalkInv
    <2>2. <<>> \in Seq(Intents(AnySession)) /\ toHost = toHost \o <<>>
      BY <2>1
    <2> QED BY <2>2, Few
  <1>3. ChatMoves(<<>>)
    BY <1>1, <1>2, Counted DEF ChatMoves
  <1> QED BY <1>3

\* The followed Run and the current Session are left alone, and so is what is waited for.
LEMMA ReceiveAside ==
    ASSUME TalkInv, UNCHANGED hostVars, toView' = toView \/ (toView # <<>> /\ toView' = Tail(toView)), NEW c, Becomes(c), Keeps(c),
           c.list \in {0, chat.list}, (c.restore = chat.restore /\ c.restoreTarget = chat.restoreTarget) \/ c.restore = 0
    PROVE  \E sent : ChatMoves(sent)
  <1>1. chat' = c /\ Told' = Told /\ issued' = issued
    BY DEF Becomes, hostVars, Told, HiddenRuns
  <1> HIDE DEF Told
  <1>2. OneMutation'
    <2>1. OneMutation
      BY DEF TalkInv, AskInv
    <2> QED BY <1>1, <2>1 DEF OneMutation, Keeps, KeepsAsk
  <1>3. Asks(<<>>) /\ Follows(<<>>)
    BY <1>1, Few DEF Asks, Follows, Keeps, KeepsAsk, NoneOf
  <1>4. {c.active, c.list, c.restore, c.delete, c.clear, c.reset} \subseteq 0 .. issued
    <2>1. 0 \in 0 .. issued
      BY ChatIs
    <2> QED BY <2>1, ChatIs DEF Keeps, KeepsAsk
  <1> QED BY <1>2, <1>3, <1>4, ReceiveMoves

\* The followed Run is over, or nobody's any more.
LEMMA ReceiveOver ==
    ASSUME TalkInv, UNCHANGED hostVars, toView # <<>>, toView' = Tail(toView), NEW c, Becomes(c), KeepsAsk(c), Unled,
           c.active = 0, c.list = chat.list, (c.restore = chat.restore /\ c.restoreTarget = chat.restoreTarget) \/ c.restore = 0
    PROVE  \E sent : ChatMoves(sent)
  <1>1. chat' = c /\ Told' = Told /\ issued' = issued
    BY DEF Becomes, hostVars, Told, HiddenRuns
  <1> HIDE DEF Told
  <1>2. OneMutation'
    <2>1. OneMutation
      BY DEF TalkInv, AskInv
    <2> QED BY <1>1, <2>1 DEF OneMutation, KeepsAsk
  <1>3. Asks(<<>>) /\ Follows(<<>>)
    BY <1>1, Few DEF Asks, Follows, KeepsAsk, NoneOf
  <1>4. {c.active, c.list, c.restore, c.delete, c.clear, c.reset} \subseteq 0 .. issued
    <2>1. 0 \in 0 .. issued
      BY ChatIs
    <2> QED BY <2>1, ChatIs DEF KeepsAsk
  <1> QED BY <1>2, <1>3, <1>4, ReceiveMoves

\* What an answer takes from the view is no longer worked in.
LEMMA NothingLeft ==
    ASSUME TalkInv, toView # <<>>, toView' = Tail(toView), UNCHANGED hostVars, Incoming.type \in Answers,
           NEW s, Clears(chat, s), s = NoSession \/ (chat.delete # 0 /\ s = chat.deleteTarget),
           s = NoSession => chat.delete = 0 /\ (Incoming.type = "local-data-clear-result" => Incoming.status # "cancelled")
    PROVE  Unled
  <1>1. NoneOf(toHost, Launches) /\ Hushed(Incoming)
    BY IncomingIs
  <1>2. ActiveFollowed /\ OneMutation
    BY DEF TalkInv, AskInv, FollowInv
  <1>3. CASE s = NoSession
    BY <1>1, <1>3 DEF Hushed, Unled
  <1>4. CASE s # NoSession
    <2>1. Quieted(chat.deleteTarget) /\ chat.selected = chat.deleteTarget /\ chat.selected # NoSession
      BY <1>1, <1>4 DEF Hushed, Clears
    <2> QED BY <1>1, <1>2, <2>1 DEF Quieted, ActiveFollowed, Unled
  <1> QED BY <1>3, <1>4

\* An answer to a deletion or clearing is taken: nothing is waited for, and s is not shown.
Settled(d, s) ==
    /\ d.delete = 0 /\ d.clear = 0 /\ d.reset = 0 /\ d.mutating = FALSE
    /\ d.list \in {0, chat.list}
    /\ \/ Clears(chat, s) /\ d.active = 0 /\ d.restore = 0 /\ d.selected = NoSession
       \/ d.active = chat.active /\ d.restore = chat.restore /\ d.restoreTarget = chat.restoreTarget /\ d.selected = chat.selected

LEMMA SettledMoves ==
    ASSUME TalkInv, UNCHANGED hostVars, toView # <<>>, toView' = Tail(toView), Incoming.type \in Answers,
           NEW s, s = NoSession \/ (chat.delete # 0 /\ s = chat.deleteTarget),
           s = NoSession => chat.delete = 0 /\ (Incoming.type = "local-data-clear-result" => Incoming.status # "cancelled"),
           NEW d, Settled(d, s),
           NEW sent \in Seq(Intents(AnySession)), toHost' = toHost \o sent, issued' = issued \/ Create,
           chat'.list \in 0 .. issued', \A m \in ToSet(sent) : m.type = "list-sessions" /\ m.req \in 0 .. issued' /\ m.req # 0,
           \A f \in {"delete", "clear", "reset", "mutating", "active", "restore", "restoreTarget", "selected"} : chat'[f] = d[f]
    PROVE  \E e : ChatMoves(e)
  <1>1. OneMutation /\ Told' = Told /\ Unasked
    <2>1. Told' = Told
      BY DEF hostVars, Told, HiddenRuns
    <2> QED BY <2>1, IncomingIs DEF TalkInv, AskInv
  <1> HIDE DEF Told
  <1>2. /\ chat'.delete = 0 /\ chat'.clear = 0 /\ chat'.reset = 0 /\ chat'.mutating = FALSE
        /\ \/ Clears(chat, s) /\ chat'.active = 0 /\ chat'.restore = 0 /\ chat'.selected = NoSession
           \/ chat'.active = chat.active /\ chat'.restore = chat.restore /\ chat'.restoreTarget = chat.restoreTarget
              /\ chat'.selected = chat.selected
    BY DEF Settled
  <1>3. OneMutation'
    BY <1>1, <1>2 DEF OneMutation
  <1>4. NoneOf(sent, Mutations) /\ NoneOf(sent, Launches) /\ \A m \in ToSet(sent) : IntentFits(m)'
    BY DEF NoneOf, Mutations, Launches, IntentFits
  <1>5. AtMostOne(sent, Mutations)
    BY <1>4 DEF AtMostOne, NoneOf, ToSet
  <1>6. Asks(sent)
    BY <1>1, <1>4, <1>5 DEF Asks
  <1>7. Follows(sent)
    <2>1. CASE Clears(chat, s) /\ chat'.active = 0
      <3>1. Unled
        BY <2>1, NothingLeft
      <3> QED BY <1>4, <2>1, <3>1 DEF Follows
    <2>2. CASE chat'.active = chat.active /\ chat'.selected = chat.selected
      BY <1>4, <2>2 DEF Follows
    <2> QED BY <1>2, <2>1, <2>2
  <1>8. {chat'.active, chat'.list, chat'.restore, chat'.delete, chat'.clear, chat'.reset} \subseteq 0 .. issued'
    BY <1>2, ChatIs, Counted
  <1>9. ChatMoves(sent)
    BY <1>3, <1>6, <1>7, <1>8, Counted DEF ChatMoves
  <1> QED BY <1>9

\* What tells of the followed Run ends the waiting for it.
LEMMA ToldOfRun ==
    ASSUME TalkInv, NEW m \in ToSet(toView), IsWord(m) \/ EndsIt(m)
    PROVE  NoneOf(toHost, Launches) /\ (EndsIt(m) => Unled)
  <1>1. NoneOf(toHost, Launches)
    BY DEF TalkInv, FollowInv, Submitted, NoneOf
  <1>2. EndsIt(m) => host.active = 0
    BY DEF TalkInv, FollowInv, ActiveFollowed
  <1> QED BY <1>1, <1>2 DEF Unled

LEMMA DeletionErrorMoves ==
    ASSUME TalkInv, UNCHANGED hostVars, ReceiveDeletionError
    PROVE  \E sent : ChatMoves(sent)
  <1> DEFINE s == IF chat.clear # NoRequest THEN NoSession ELSE chat.deleteTarget
             after == IF Incoming.status # "partial" THEN chat ELSE Reset(chat, s)
             settled == [after EXCEPT !.delete = NoRequest, !.deleteTarget = NoSession,
                                      !.clear = NoRequest, !.mutating = FALSE]
  <1>1. /\ toView # <<>> /\ toView' = Tail(toView) /\ Incoming.type = "session-deletion-error"
        /\ Incoming.req \in {chat.delete, chat.clear}
        /\ \/ Becomes(settled)
           \/ /\ chat' = [settled EXCEPT !.list = Next1] /\ issued' = Next1
              /\ toHost' = Append(toHost, Intent("list-sessions", Next1, NoSession))
    BY DEF ReceiveDeletionError, Takes
  <1>2. Incoming.type \in Answers /\ Incoming.req # 0
    BY <1>1, IncomingIs DEF Answers
  <1>3. /\ chat.reset = 0 /\ issued < MaxRequests
        /\ s = NoSession \/ (chat.delete # 0 /\ s = chat.deleteTarget)
        /\ s = NoSession => chat.delete = 0
    BY <1>1, <1>2 DEF TalkInv, AskInv, OneMutation, NoRequest
  <1>4. DOMAIN chat = ChatFields
    BY ChatIs
  <1> HIDE DEF s
  <1>9. after = chat \/ after = Reset(chat, s)
    OBVIOUS
  <1> HIDE DEF after
  <1>5. /\ DOMAIN after = ChatFields /\ after.reset = 0 /\ after.list = chat.list
        /\ \/ Clears(chat, s) /\ after.active = 0 /\ after.restore = 0 /\ after.selected = NoSession
           \/ after.active = chat.active /\ after.restore = chat.restore /\ after.restoreTarget = chat.restoreTarget
              /\ after.selected = chat.selected
    <2>1. CASE after = chat
      BY <1>3, <1>4, <2>1
    <2>2. CASE after = Reset(chat, s)
      <3>1. Cleared(chat, s, after)
        BY <1>4, <2>2, ResetLeaves
      <3> QED BY <1>3, <3>1 DEF Cleared
    <2> QED BY <1>9, <2>1, <2>2
  <1>6. Settled(settled, s) /\ DOMAIN settled = ChatFields /\ settled.list = chat.list
    BY <1>5 DEF Settled, ChatFields, NoRequest
  <1> HIDE DEF settled
  <1>7. CASE Becomes(settled)
    <2>1. chat' = settled /\ toHost' = toHost /\ issued' = issued
      BY <1>7 DEF Becomes
    <2>2. <<>> \in Seq(Intents(AnySession)) /\ ToSet(<<>>) = {} /\ toHost = toHost \o <<>>
      <3>1. toHost \in Seq(Intents(AnySession))
        BY Channels DEF TalkInv
      <3>2. <<>> \in Seq(Intents(AnySession)) /\ toHost = toHost \o <<>>
        BY <3>1
      <3> QED BY <3>2, Few
    <2>3. chat'.list \in 0 .. issued'
      BY <1>6, <2>1, ChatIs
    <2> QED BY <1>1, <1>2, <1>3, <1>6, <2>1, <2>2, <2>3, SettledMoves
  <1>8. CASE chat' = [settled EXCEPT !.list = Next1] /\ issued' = Next1
             /\ toHost' = Append(toHost, Intent("list-sessions", Next1, NoSession))
    <2>1. Create /\ Next1 \in Nat /\ NoSession \in AnySession /\ Next1 \in 0 .. issued' /\ Next1 # 0
      <3>1. Create
        BY <1>3, <1>8 DEF Create
      <3>2. issued \in Nat
        BY ChatIs
      <3>3. issued + 1 # 0 /\ issued + 1 \in Nat
        BY <3>2
      <3> QED BY <1>8, <3>1, <3>3, Counted DEF Next1, AnySession
    <2>2. PICK m : Lone(m, "list-sessions", Next1, NoSession)
      BY <2>1, OneIntent DEF IntentTypes
    <2>3. /\ m = Intent("list-sessions", Next1, NoSession) /\ m.type = "list-sessions" /\ m.req = Next1
          /\ <<m>> \in Seq(Intents(AnySession)) /\ ToSet(<<m>>) = {m}
      BY <2>2 DEF Lone
    <2>4. toHost' = toHost \o <<m>>
      <3>1. toHost \in Seq(Intents(AnySession))
        BY Channels DEF TalkInv
      <3> QED BY <1>8, <2>3, <3>1
    <2>5. /\ \A f \in {"delete", "clear", "reset", "mutating", "active", "restore", "restoreTarget", "selected"} :
                chat'[f] = settled[f]
          /\ chat'.list = Next1
      BY <1>6, <1>8 DEF ChatFields
    <2>6. \A x \in ToSet(<<m>>) : x.type = "list-sessions" /\ x.req \in 0 .. issued' /\ x.req # 0
      BY <2>1, <2>3
    <2>7. chat'.list \in 0 .. issued' /\ (issued' = issued \/ Create)
      BY <2>1, <2>5
    <2>8. <<m>> \in Seq(Intents(AnySession))
      BY <2>3
    <2>9. /\ toView # <<>> /\ toView' = Tail(toView) /\ Incoming.type \in Answers /\ Settled(settled, s)
          /\ s = NoSession \/ (chat.delete # 0 /\ s = chat.deleteTarget)
          /\ s = NoSession => chat.delete = 0 /\ (Incoming.type = "local-data-clear-result" => Incoming.status # "cancelled")
      BY <1>1, <1>2, <1>3, <1>6
    <2> QED BY <2>4, <2>5, <2>6, <2>7, <2>8, <2>9, SettledMoves
  <1> QED BY <1>1, <1>7, <1>8

\* An answer is taken, and the view becomes c.
LEMMA AnswerTaken ==
    ASSUME TalkInv, UNCHANGED hostVars, toView # <<>>, toView' = Tail(toView), Incoming.type \in Answers,
           NEW s, s = NoSession \/ (chat.delete # 0 /\ s = chat.deleteTarget),
           s = NoSession => chat.delete = 0 /\ (Incoming.type = "local-data-clear-result" => Incoming.status # "cancelled"),
           NEW c, Becomes(c), Settled(c, s)
    PROVE  \E e : ChatMoves(e)
  <1>1. chat' = c /\ toHost' = toHost /\ issued' = issued
    BY DEF Becomes
  <1>2. <<>> \in Seq(Intents(AnySession)) /\ ToSet(<<>>) = {} /\ toHost = toHost \o <<>>
    <2>1. toHost \in Seq(Intents(AnySession))
      BY Channels DEF TalkInv
    <2>2. <<>> \in Seq(Intents(AnySession)) /\ toHost = toHost \o <<>>
      BY <2>1
    <2> QED BY <2>2, Few
  <1>3. chat'.list \in 0 .. issued'
    <2>1. 0 \in 0 .. issued
      BY ChatIs
    <2> QED BY <1>1, <2>1, ChatIs DEF Settled
  <1> QED BY <1>1, <1>2, <1>3, SettledMoves

LEMMA AnswersMove ==
    ASSUME TalkInv, UNCHANGED hostVars, ReceiveSessionDeleted \/ ReceiveSessionsCleared \/ ReceiveResetResult
    PROVE  \E sent : ChatMoves(sent)
  <1>1. OneMutation /\ DOMAIN chat = ChatFields
    BY ChatIs
  <1>2. CASE ReceiveSessionDeleted
    <2> DEFINE d == Reset(chat, chat.deleteTarget)
               c == [d EXCEPT !.delete = NoRequest, !.deleteTarget = NoSession, !.list = NoRequest, !.mutating = FALSE]
    <2>1. /\ toView # <<>> /\ toView' = Tail(toView) /\ Incoming.type = "session-deleted"
          /\ Incoming.req = chat.delete /\ Becomes(c)
      BY <1>2 DEF ReceiveSessionDeleted, Takes
    <2>2. Incoming.type \in Answers /\ chat.delete # 0
      BY <2>1, IncomingIs DEF Answers
    <2>3. chat.clear = 0 /\ chat.reset = 0 /\ chat.deleteTarget # NoSession
      BY <1>1, <2>2 DEF OneMutation
    <2>4. /\ DOMAIN d = ChatFields /\ d.clear = 0 /\ d.reset = 0
          /\ \/ Clears(chat, chat.deleteTarget) /\ d.active = 0 /\ d.restore = 0 /\ d.selected = NoSession
             \/ d.active = chat.active /\ d.restore = chat.restore /\ d.restoreTarget = chat.restoreTarget
                /\ d.selected = chat.selected
      <3>1. Cleared(chat, chat.deleteTarget, d)
        BY <1>1, ResetLeaves
      <3> HIDE DEF d
      <3> QED BY <2>3, <3>1 DEF Cleared
    <2> HIDE DEF d
    <2>5. Settled(c, chat.deleteTarget)
      BY <2>4 DEF Settled, ChatFields, NoRequest
    <2> HIDE DEF c
    <2> QED BY <2>1, <2>2, <2>3, <2>5, AnswerTaken
  <1>3. CASE ReceiveSessionsCleared
    <2> DEFINE d == Reset(chat, NoSession)
               c == [d EXCEPT !.clear = NoRequest, !.delete = NoRequest, !.deleteTarget = NoSession,
                              !.list = NoRequest, !.mutating = FALSE]
    <2>1. /\ toView # <<>> /\ toView' = Tail(toView) /\ Incoming.type = "sessions-cleared"
          /\ Incoming.req = chat.clear /\ Becomes(c)
      BY <1>3 DEF ReceiveSessionsCleared, Takes
    <2>2. Incoming.type \in Answers /\ chat.clear # 0
      BY <2>1, IncomingIs DEF Answers
    <2>3. chat.delete = 0 /\ chat.reset = 0
      BY <1>1, <2>2 DEF OneMutation
    <2>4. DOMAIN d = ChatFields /\ d.reset = 0 /\ d.active = 0 /\ d.restore = 0 /\ d.selected = NoSession
      <3>1. Cleared(chat, NoSession, d)
        BY <1>1, ResetLeaves
      <3> HIDE DEF d
      <3> QED BY <2>3, <3>1 DEF Cleared, Clears
    <2> HIDE DEF d
    <2>5. Settled(c, NoSession)
      BY <2>4 DEF Settled, Clears, ChatFields, NoRequest
    <2> HIDE DEF c
    <2> QED BY <2>1, <2>2, <2>3, <2>5, AnswerTaken
  <1>4. CASE ReceiveResetResult
    <2> DEFINE d == Reset(chat, NoSession)
               c == [d EXCEPT !.reset = NoRequest, !.clear = NoRequest, !.delete = NoRequest,
                              !.deleteTarget = NoSession, !.list = NoRequest, !.mutating = FALSE]
               k == [chat EXCEPT !.reset = NoRequest, !.mutating = FALSE]
    <2>1. /\ toView # <<>> /\ toView' = Tail(toView) /\ Incoming.type = "local-data-clear-result"
          /\ Incoming.req = chat.reset
          /\ Incoming.status = "cancelled" => Becomes(k)
          /\ Incoming.status # "cancelled" => Becomes(c)
      BY <1>4 DEF ReceiveResetResult, Takes
    <2>2. Incoming.type \in Answers /\ chat.reset # 0
      BY <2>1, IncomingIs DEF Answers
    <2>3. chat.delete = 0 /\ chat.clear = 0
      BY <1>1, <2>2 DEF OneMutation
    <2>4. CASE Incoming.status = "cancelled"
      <3>1. /\ k.reset = 0 /\ k.mutating = FALSE /\ k.delete = 0 /\ k.clear = 0
            /\ k.active = chat.active /\ k.selected = chat.selected /\ k.list = chat.list
            /\ k.restore = chat.restore /\ k.restoreTarget = chat.restoreTarget
        BY <1>1, <2>3 DEF ChatFields, NoRequest
      <3>2. Becomes(k)
        BY <2>1, <2>4
      <3> HIDE DEF k
      <3>3. chat' = k /\ Told' = Told
        BY <3>2 DEF Becomes, hostVars, Told, HiddenRuns
      <3>4. OneMutation'
        <4> HIDE DEF Told
        <4> QED BY <1>1, <3>1, <3>3 DEF OneMutation
      <3>5. Asks(<<>>)
        <4>1. Unasked /\ AtMostOne(<<>>, Mutations) /\ ToSet(<<>>) = {}
          BY <2>1, <2>2, IncomingIs, Few DEF AtMostOne
        <4> QED BY <4>1 DEF Asks
      <3>6. Follows(<<>>)
        BY <3>1, <3>3, Few DEF Follows, NoneOf
      <3>7. {k.active, k.list, k.restore, k.delete, k.clear, k.reset} \subseteq 0 .. issued
        <4>1. 0 \in 0 .. issued
          BY ChatIs
        <4> QED BY <3>1, <4>1, ChatIs
      <3> QED BY <2>1, <3>2, <3>4, <3>5, <3>6, <3>7, ReceiveMoves
    <2>5. CASE Incoming.status # "cancelled"
      <3>1. DOMAIN d = ChatFields /\ d.active = 0 /\ d.restore = 0 /\ d.selected = NoSession
        <4>1. Cleared(chat, NoSession, d)
          BY <1>1, ResetLeaves
        <4> HIDE DEF d
        <4> QED BY <4>1 DEF Cleared, Clears
      <3> HIDE DEF d
      <3>2. Settled(c, NoSession)
        BY <3>1 DEF Settled, Clears, ChatFields, NoRequest
      <3> HIDE DEF c
      <3> QED BY <2>1, <2>2, <2>3, <2>5, <3>2, AnswerTaken
    <2> QED BY <2>4, <2>5
  <1> QED BY <1>2, <1>3, <1>4

LEMMA ListMoves ==
    ASSUME TalkInv, UNCHANGED hostVars, ReceiveSessionList
    PROVE  \E sent : ChatMoves(sent)
  <1>1. PICK s \in (IF chat.selected \in Incoming.sessions THEN {chat.selected}
                    ELSE IF Incoming.sessions = {} THEN {NoSession} ELSE Incoming.sessions) :
        /\ chat' = [chat EXCEPT !.list = NoRequest, !.sessions = Incoming.sessions,
                                !.selection = s, !.switching = s # chat.selected]
        /\ toHost' = Append(toHost, Intent("select-session", NoRequest, s))
    BY DEF ReceiveSessionList
  <1>2. toView # <<>> /\ toView' = Tail(toView) /\ issued' = issued
    BY DEF ReceiveSessionList, Takes
  <1>3. s \in AnySession /\ Told' = Told /\ DOMAIN chat = ChatFields /\ OneMutation
    <2> DEFINE T == Told
    <2>1. Incoming.sessions \subseteq T /\ NoSession \in T /\ T \subseteq AnySession /\ Told' = T
      BY <1>2, IncomingIs, ChatIs DEF Messages
    <2>2. DOMAIN chat = ChatFields /\ OneMutation
      BY ChatIs
    <2> HIDE DEF T
    <2> QED BY <2>1, <2>2 DEF T
  <1> HIDE DEF Told
  <1>4. PICK m : Lone(m, "select-session", 0, s)
    <2>1. "select-session" \in IntentTypes /\ 0 \in Nat
      BY DEF IntentTypes
    <2> QED BY <1>3, <2>1, OneIntent
  <1>5. /\ m = Intent("select-session", 0, s) /\ m.type = "select-session" /\ m.req = 0
        /\ <<m>> \in Seq(Intents(AnySession)) /\ ToSet(<<m>>) = {m}
    BY <1>4 DEF Lone
  <1>6. toHost' = toHost \o <<m>>
    <2>1. toHost \in Seq(Intents(AnySession))
      BY Channels DEF TalkInv
    <2> QED BY <1>1, <1>5, <2>1 DEF NoRequest
  <1>7. /\ chat'.list = 0 /\ chat'.active = chat.active /\ chat'.selected = chat.selected /\ chat'.restore = chat.restore
        /\ chat'.restoreTarget = chat.restoreTarget /\ chat'.delete = chat.delete /\ chat'.deleteTarget = chat.deleteTarget
        /\ chat'.clear = chat.clear /\ chat'.reset = chat.reset /\ chat'.mutating = chat.mutating
    BY <1>1, <1>3 DEF ChatFields, NoRequest
  <1>8. OneMutation'
    BY <1>2, <1>3, <1>7 DEF OneMutation
  <1>9. Asks(<<m>>) /\ Follows(<<m>>)
    BY <1>5, <1>7 DEF Asks, Follows, NoneOf, Mutations, Launches
  <1>10. {chat'.active, chat'.list, chat'.restore, chat'.delete, chat'.clear, chat'.reset} \subseteq 0 .. issued'
    BY <1>2, <1>7, ChatIs, Counted
  <1>11. ChatMoves(<<m>>)
    BY <1>2, <1>5, <1>6, <1>8, <1>9, <1>10, Counted DEF ChatMoves
  <1> QED BY <1>11

LEMMA StartedMoves ==
    ASSUME TalkInv, UNCHANGED hostVars, ReceiveSessionStarted
    PROVE  \E sent : ChatMoves(sent)
  <1> DEFINE s == Incoming.session
             a == [chat EXCEPT !.mismatched = chat.mismatched \cup {chat.active}, !.pending = {}, !.target = NoRequest]
             b == [chat EXCEPT !.selected = s, !.selection = s, !.switching = FALSE, !.readOnly = FALSE]
  <1>1. /\ toView # <<>> /\ toView' = Tail(toView) /\ Incoming.type = "session-started" /\ Incoming.req = chat.active
        /\ Becomes(a) \/ (chat.selected \in {NoSession, s} /\ Becomes(b))
    BY DEF ReceiveSessionStarted, Takes
  <1>2. DOMAIN chat = ChatFields /\ OneMutation
    BY ChatIs
  <1>3. CASE Becomes(a)
    <2>1. Keeps(a) /\ a.list = chat.list /\ a.restore = chat.restore /\ a.restoreTarget = chat.restoreTarget
      BY <1>2 DEF ChatFields, Keeps, KeepsAsk
    <2> HIDE DEF a
    <2> QED BY <1>1, <1>3, <2>1, ReceiveAside
  <1>4. CASE chat.selected \in {NoSession, s} /\ Becomes(b)
    <2>1. /\ b.list = chat.list /\ b.active = chat.active /\ b.selected = s /\ b.restore = chat.restore
          /\ b.restoreTarget = chat.restoreTarget /\ KeepsAsk(b)
      BY <1>2 DEF ChatFields, KeepsAsk
    <2>2. chat' = b /\ issued' = issued
      BY <1>4 DEF Becomes
    <2> HIDE DEF b
    <2>3. Told' = Told
      BY DEF hostVars, Told, HiddenRuns
    <2>4. OneMutation'
      <3> HIDE DEF Told
      <3> QED BY <1>2, <2>1, <2>2, <2>3 DEF OneMutation, KeepsAsk
    <2>5. Incoming \in ToSet(toView) /\ IsWord(Incoming)
      BY <1>1, IncomingIs DEF IsWord, Words
    <2>6. NoneOf(<<>>, Launches) /\ NoneOf(<<>>, Mutations)
      BY Few DEF NoneOf
    <2>7. Asks(<<>>)
      BY <2>1, <2>2, <2>6 DEF Asks, KeepsAsk
    <2>8. Follows(<<>>)
      BY <1>4, <2>1, <2>2, <2>5, <2>6 DEF Follows
    <2>9. {b.active, b.list, b.restore, b.delete, b.clear, b.reset} \subseteq 0 .. issued
      BY <2>1, ChatIs DEF KeepsAsk
    <2> QED BY <1>1, <1>4, <2>4, <2>7, <2>8, <2>9, ReceiveMoves
  <1> QED BY <1>1, <1>3, <1>4

LEMMA RestoredMoves ==
    ASSUME TalkInv, UNCHANGED hostVars, ReceiveSessionRestored \/ ReceiveSessionError
    PROVE  \E sent : ChatMoves(sent)
  <1>1. DOMAIN chat = ChatFields /\ OneMutation
    BY ChatIs
  <1>2. CASE ReceiveSessionRestored
    <2> DEFINE over == [chat EXCEPT !.restore = NoRequest, !.restoreTarget = NoSession]
               full == [over EXCEPT
                        !.transcript = <<RestoredExchange(Incoming.session)>>, !.pending = {},
                        !.target = NoRequest, !.status = "ended",
                        !.selected = Incoming.session, !.selection = Incoming.session, !.switching = FALSE,
                        !.readOnly = Incoming.session \in Legacy]
    <2>1. /\ toView # <<>> /\ toView' = Tail(toView) /\ Incoming.type = "session-restored" /\ Incoming.req = chat.restore
          /\ Becomes(over) \/ Becomes(full)
      BY <1>2 DEF ReceiveSessionRestored, Takes
    <2>2. chat.restore # 0
      BY <2>1, IncomingIs
    <2>3. Unled /\ chat.active = 0
      BY <1>1, <2>2, NotLed DEF OneMutation
    <2>4. DOMAIN over = ChatFields /\ Keeps(over) /\ over.list = chat.list /\ over.restore = 0
      BY <1>1 DEF ChatFields, Keeps, KeepsAsk, NoRequest
    <2> HIDE DEF over
    <2>5. KeepsAsk(full) /\ full.list = chat.list /\ full.restore = 0 /\ full.active = 0
      BY <2>3, <2>4 DEF ChatFields, Keeps, KeepsAsk
    <2> HIDE DEF full
    <2>6. CASE Becomes(over)
      BY <2>1, <2>4, <2>6, ReceiveAside
    <2>7. CASE Becomes(full)
      BY <2>1, <2>3, <2>5, <2>7, ReceiveOver
    <2> QED BY <2>1, <2>6, <2>7
  <1>3. CASE ReceiveSessionError
    <2> DEFINE a == [chat EXCEPT !.list = NoRequest]
               b == [chat EXCEPT !.restore = NoRequest, !.restoreTarget = NoSession]
    <2>1. toView # <<>> /\ toView' = Tail(toView) /\ (Becomes(a) \/ Becomes(b))
      BY <1>3 DEF ReceiveSessionError, Takes
    <2>2. /\ Keeps(a) /\ a.list = 0 /\ a.restore = chat.restore /\ a.restoreTarget = chat.restoreTarget
          /\ Keeps(b) /\ b.list = chat.list /\ b.restore = 0
      BY <1>1 DEF ChatFields, Keeps, KeepsAsk, NoRequest
    <2> HIDE DEF a, b
    <2>3. CASE Becomes(a)
      BY <2>1, <2>2, <2>3, ReceiveAside
    <2>4. CASE Becomes(b)
      BY <2>1, <2>2, <2>4, ReceiveAside
    <2> QED BY <2>1, <2>3, <2>4
  <1> QED BY <1>2, <1>3

LEMMA TextsMove ==
    ASSUME TalkInv, UNCHANGED hostVars, ReceiveText \/ ReceiveRunStatus \/ IgnoreMessage \/ Frame
    PROVE  \E sent : ChatMoves(sent)
  <1>1. DOMAIN chat = ChatFields
    BY ChatIs
  <1>2. ASSUME NEW c, Beside(chat, c) PROVE Keeps(c) /\ c.list = chat.list /\ c.restore = chat.restore /\ c.restoreTarget = chat.restoreTarget
    BY <1>2 DEF Beside, Keeps, KeepsAsk
  <1>3. CASE ReceiveText
    <2> DEFINE r == RegenerationBegun(chat)
               e == EditBegun(r)
               c == [e EXCEPT !.pending = e.pending \cup {[req |-> Incoming.req, session |-> Incoming.session]}]
    <2>1. toView # <<>> /\ toView' = Tail(toView) /\ Becomes(c)
      BY <1>3 DEF ReceiveText, Takes
    <2>2. Beside(chat, r)
      BY <1>1, ShowsBeside
    <2>3. Beside(r, e)
      <3>1. DOMAIN r = ChatFields
        BY <2>2 DEF Beside
      <3> HIDE DEF r
      <3> QED BY <3>1, ShowsBeside
    <2> HIDE DEF r, e
    <2>4. Beside(chat, e)
      BY <2>2, <2>3 DEF Beside
    <2>5. Beside(chat, c)
      BY <2>4 DEF Beside, ChatFields
    <2> HIDE DEF c
    <2> QED BY <1>2, <2>1, <2>5, ReceiveAside
  <1>4. CASE ReceiveRunStatus
    <2> DEFINE k == IF Incoming.status = "completed" THEN chat ELSE EditRestored(RegenerationRestored(chat))
               f == IF Incoming.status = "completed" THEN chat ELSE EditRestored(chat)
               p == Flushed(k)
               q == Flushed(f)
               t == [p EXCEPT !.status = "ended", !.active = NoRequest, !.regeneration = NoBackup, !.edit = NoBackup]
               u == [q EXCEPT !.status = "ended", !.active = NoRequest, !.mismatched = q.mismatched \ {Incoming.req}]
               w == [chat EXCEPT !.status = "working"]
    <2>1. /\ toView # <<>> /\ toView' = Tail(toView) /\ Incoming.type = "run-status" /\ Incoming.req = chat.active
          /\ \/ Becomes(chat) \/ Becomes(w)
             \/ Incoming.status \in Terminal /\ (Becomes(t) \/ Becomes(u))
      BY <1>4 DEF ReceiveRunStatus, Takes, Followed, Terminated
    <2>2. Beside(chat, k) /\ Beside(chat, f)
      <3> DEFINE g == RegenerationRestored(chat)
      <3>1. Beside(chat, g) /\ Beside(chat, EditRestored(chat)) /\ Beside(chat, chat)
        BY <1>1, ShowsBeside
      <3> HIDE DEF g
      <3>2. Beside(g, EditRestored(g))
        BY <3>1, ShowsBeside DEF Beside
      <3>3. Beside(chat, EditRestored(g))
        BY <3>1, <3>2 DEF Beside
      <3> QED BY <3>1, <3>3 DEF g
    <2> HIDE DEF k, f
    <2>3. Beside(k, p) /\ Beside(f, q)
      BY <2>2, ShowsBeside DEF Beside
    <2> HIDE DEF p, q
    <2>4. Beside(chat, p) /\ Beside(chat, q)
      BY <2>2, <2>3 DEF Beside
    <2>5. KeepsAsk(t) /\ t.active = 0 /\ t.list = chat.list /\ t.restore = chat.restore /\ t.restoreTarget = chat.restoreTarget
      BY <2>4 DEF Beside, KeepsAsk, ChatFields, NoRequest
    <2>6. KeepsAsk(u) /\ u.active = 0 /\ u.list = chat.list /\ u.restore = chat.restore /\ u.restoreTarget = chat.restoreTarget
      BY <2>4 DEF Beside, KeepsAsk, ChatFields, NoRequest
    <2>7. Keeps(w) /\ w.list = chat.list /\ w.restore = chat.restore /\ w.restoreTarget = chat.restoreTarget
      BY <1>1 DEF Keeps, KeepsAsk, ChatFields
    <2> HIDE DEF t, u, w
    <2>8. CASE Becomes(chat)
      BY <1>1, <1>2, <2>1, <2>8, ShowsBeside, ReceiveAside
    <2>9. CASE Becomes(w)
      BY <2>1, <2>7, <2>9, ReceiveAside
    <2>10. CASE Incoming.status \in Terminal /\ (Becomes(t) \/ Becomes(u))
      <3>1. Unled
        <4>1. EndsIt(Incoming) /\ Incoming \in ToSet(toView)
          BY <2>1, <2>10, IncomingIs DEF EndsIt
        <4> QED BY <4>1, ToldOfRun
      <3>2. CASE Becomes(t)
        BY <2>1, <2>5, <3>1, <3>2, ReceiveOver
      <3>3. CASE Becomes(u)
        BY <2>1, <2>6, <3>1, <3>3, ReceiveOver
      <3> QED BY <2>10, <3>2, <3>3
    <2> QED BY <2>1, <2>8, <2>9, <2>10
  <1>5. CASE IgnoreMessage
    BY <1>1, <1>2, <1>5, ShowsBeside, ReceiveAside DEF IgnoreMessage
  <1>6. CASE Frame
    <2>1. Becomes(Flushed(chat)) /\ toView' = toView /\ Beside(chat, Flushed(chat))
      BY <1>1, <1>6, ShowsBeside DEF Frame, Becomes
    <2> QED BY <1>2, <2>1, ReceiveAside
  <1> QED BY <1>3, <1>4, <1>5, <1>6

LEMMA ReceivesMove ==
    ASSUME TalkInv, Receive, UNCHANGED hostVars
    PROVE  \E sent : ChatMoves(sent)
  BY DeletionErrorMoves, AnswersMove, ListMoves, StartedMoves, RestoredMoves, TextsMove DEF Receive

-----------------------------------------------------------------------------
(* The two sides stay agreed.                                              *)

LEMMA TalkInit == Init => TalkInv
  <1> SUFFICES ASSUME Init PROVE TalkInv
    OBVIOUS
  <1>1. PICK s \in Opened : HostInit(s) /\ ChatInit(s, Prior)
    BY DEF Init
  <1>2. /\ toHost = <<>> /\ toView = <<>> /\ gone = {} /\ ToSet(toHost) = {} /\ ToSet(toView) = {}
        /\ DOMAIN toHost = {} /\ DOMAIN toView = {}
    BY Few DEF Init
  <1>3. /\ host.active = 0 /\ host.settling = {} /\ host.lock = FALSE /\ host.list = NoList /\ host.job = NoJob
        /\ host.reset = NoReset /\ host.known \subseteq Prior /\ runs = [r \in Requests |-> NoRun]
    BY <1>1 DEF HostInit, NoRequest
  <1>4. /\ NoList.req = 0 /\ NoList.found = {} /\ NoList.read = FALSE /\ NoJob.kind = "none" /\ NoJob.req = 0 /\ NoJob.step = ""
        /\ NoReset.step = "none" /\ NoReset.req = 0 /\ NoRun.left = 0
    BY DEF NoList, NoJob, NoReset, NoRun, NoRequest
  <1>5. /\ chat.active = 0 /\ chat.list = 0 /\ chat.restore = 0 /\ chat.delete = 0 /\ chat.clear = 0 /\ chat.reset = 0
        /\ chat.mutating = FALSE /\ issued = 0
    BY <1>1 DEF ChatInit, NoRequest
  <1>6. Numbered
    <2>1. 0 \in 0 .. MaxRequests /\ 0 \in 0 .. 0
      BY RequestsAssumption
    <2> QED BY <1>2, <1>3, <1>4, <1>5, <2>1 DEF Numbered, HostNumbered
  <1>7. HostTypes
    <2>1. 0 \in 0 .. MaxEvents /\ NoSession \notin Prior
      BY EventsAssumption, PriorAssumption, SessionAssumption
    <2> QED BY <1>3, <1>4, <2>1 DEF HostTypes
  <1>8. OneMutation
    BY <1>5 DEF OneMutation
  <1>9. Awaited
    BY <1>2, <1>3, <1>4 DEF Awaited, HostFits
  <1>10. OnePlace
    BY <1>2, <1>3, <1>4 DEF OnePlace, AtMostOne, NoneOf, Deciding
  <1>11. Submitted /\ ActiveFollowed /\ WordsAgree /\ AnswersHushed
    BY <1>2, <1>3 DEF Submitted, ActiveFollowed, WordsAgree, AnswersHushed, AtMostOne, Before
  <1>12. HostHushed
    BY <1>3, <1>4 DEF HostHushed
  <1> QED BY <1>6, <1>7, <1>8, <1>9, <1>10, <1>11, <1>12, ViewInit DEF TalkInv, AskInv, FollowInv

LEMMA TalkNext == TalkInv /\ [Next]_vars => TalkInv'
  <1> SUFFICES ASSUME TalkInv, [Next]_vars PROVE TalkInv'
    OBVIOUS
  <1>1. ViewInv'
    BY ViewNext DEF TalkInv
  <1>2. CASE HostActs
    BY <1>2, HostKeepsTalk DEF HostActs
  <1>3. CASE ChatActs
    BY <1>1, <1>3, UserActsMove, ChatKeepsTalk DEF ChatActs
  <1>4. CASE ViewReceives
    BY <1>1, <1>4, ReceivesMove, ChatKeepsTalk DEF ViewReceives
  <1>5. CASE ViewPaints
    BY <1>1, <1>5, TextsMove, ChatKeepsTalk DEF ViewPaints
  <1>6. CASE UNCHANGED vars
    <2>1. host' = host /\ runs' = runs /\ stored' = stored /\ used' = used /\ chat' = chat /\ issued' = issued
          /\ toHost' = toHost /\ toView' = toView
      BY <1>6 DEF vars
    <2>2. Told' = Told /\ Deciding' = Deciding
      BY <2>1 DEF Told, HiddenRuns, Deciding
    <2>3. \A m : IsWord(m)' = IsWord(m) /\ EndsIt(m)' = EndsIt(m) /\ IntentFits(m)' = IntentFits(m)
                 /\ AnswerFits(m)' = AnswerFits(m) /\ Hushed(m)' = Hushed(m)
      BY <2>1 DEF IsWord, EndsIt, IntentFits, AnswerFits, Hushed, Quieted
    <2>4. AskInv'
      <3> HIDE DEF Told
      <3>1. Numbered'
        BY <2>1 DEF TalkInv, AskInv, Numbered, HostNumbered
      <3>2. HostTypes' /\ OneMutation'
        BY <2>1, <2>2 DEF TalkInv, AskInv, HostTypes, OneMutation
      <3>3. Awaited' /\ OnePlace'
        BY <2>1, <2>2, <2>3 DEF TalkInv, AskInv, Awaited, HostFits, OnePlace
      <3> QED BY <3>1, <3>2, <3>3 DEF AskInv
    <2>5. FollowInv'
      <3>1. Submitted' /\ ActiveFollowed' /\ WordsAgree' /\ AnswersHushed'
        BY <2>1, <2>2, <2>3 DEF TalkInv, FollowInv, Submitted, ActiveFollowed, WordsAgree, AnswersHushed
      <3>2. HostHushed'
        BY <2>1 DEF TalkInv, FollowInv, HostHushed, Quieted
      <3> QED BY <3>1, <3>2 DEF FollowInv
    <2> QED BY <1>1, <2>4, <2>5 DEF TalkInv
  <1> QED BY <1>2, <1>3, <1>4, <1>5, <1>6 DEF Next, Rest

LEMMA TalkHolds == Spec => []TalkInv
  BY TalkInit, TalkNext, PTL DEF Spec

\* A Run that is active is one the view follows: neither a deletion, nor a restore, nor the clearing of
\* all local data, nor a status that comes late leaves one behind that works unseen and that nothing can
\* cancel (webview-run-message-handler.ts, webview-session-message-handler.ts, chat-store.ts receive).
THEOREM ActiveRunIsFollowedHolds == Spec => []ActiveRunIsFollowed
  <1>1. TalkInv => ActiveRunIsFollowed
    BY DEF TalkInv, FollowInv, ActiveFollowed, ActiveRunIsFollowed, NoRequest
  <1> QED BY <1>1, TalkHolds, PTL

-----------------------------------------------------------------------------
(* What the user was told is deleted.                                      *)

Names == chat.sessions \cup {chat.selected, chat.selection}

\* Nothing that may still be shown, restored, listed or written to is gone.
ListsGone == /\ chat.list # 0 /\ host.list.read /\ host.list.req = chat.list => host.list.found \cap gone = {}
             /\ \A m \in ToSet(toView) : m.type = "session-list" /\ m.req = chat.list => m.sessions \cap gone = {}
WordsGone == /\ \A m \in ToSet(toView) : IsWord(m) => m.session \notin gone
             /\ chat.delete # 0 =>
                   \A m \in Later(toView, Answers) : m.type \in Words => m.session # chat.deleteTarget
GoneInv ==
    /\ gone \subseteq used \ stored /\ gone \cap Names = {}
    /\ chat.restore # 0 => chat.restoreTarget \notin gone
    /\ \A m \in ToSet(toView) : m.type = "session-deleted" => m.session \in used \ stored
    /\ ListsGone /\ WordsGone

LEMMA GoneInit == Init => GoneInv
  <1> SUFFICES ASSUME Init PROVE GoneInv
    OBVIOUS
  <1>1. PICK s \in Opened : ChatInit(s, Prior)
    BY DEF Init
  <1>2. gone = {} /\ ToSet(toView) = {} /\ chat.list = 0 /\ chat.restore = 0 /\ chat.delete = 0
    BY <1>1, Few DEF Init, ChatInit, NoRequest
  <1> QED BY <1>2 DEF GoneInv, ListsGone, WordsGone

\* Messages that come where none of a type was are the only ones after one of that type.
LEMMA LaterPosted ==
    ASSUME NEW S, NEW s \in Seq(S), NEW t \in Seq(S), NEW A, NoneOf(s, A)
    PROVE  Later(s \o t, A) \subseteq ToSet(t)
  <1>1. /\ \A i \in DOMAIN (s \o t) : i \in Nat
        /\ \A i \in DOMAIN (s \o t) :
              (i \in DOMAIN s /\ (s \o t)[i] = s[i]) \/ (i > Len(s) /\ i - Len(s) \in DOMAIN t /\ (s \o t)[i] = t[i - Len(s)])
        /\ DOMAIN s = 1 .. Len(s) /\ Len(s) \in Nat
    OBVIOUS
  <1> DEFINE u == s \o t
  <1> HIDE DEF u
  <1>2. /\ \A i \in DOMAIN u : i \in Nat /\ ((i \in DOMAIN s /\ u[i] = s[i]) \/ (i > Len(s) /\ i - Len(s) \in DOMAIN t /\ u[i] = t[i - Len(s)]))
        /\ DOMAIN s = 1 .. Len(s) /\ Len(s) \in Nat
    BY <1>1 DEF u
  <1>3. ASSUME NEW i \in DOMAIN u, NEW j \in DOMAIN u, i < j, u[i].type \in A PROVE u[j] \in ToSet(t)
    <2>1. \A k \in DOMAIN s : s[k].type \notin A
      BY DEF NoneOf, ToSet
    <2>2. i > Len(s)
      BY <1>2, <1>3, <2>1
    <2>3. j \notin DOMAIN s
      BY <1>2, <1>3, <2>2
    <2> QED BY <1>2, <2>3 DEF ToSet
  <1>4. Later(u, A) \subseteq ToSet(t)
    BY <1>3 DEF Later
  <1> QED BY <1>4 DEF u

\* A word of the active Run comes from a Session that is there, and not from the one that is given up.
LEMMA HostKeepsGone ==
    ASSUME TalkInv, GoneInv, NEW ms, HostMoves(ms), gone' = gone
    PROVE  GoneInv'
  <1>1. /\ ToSet(toView') = ToSet(toView) \cup ToSet(ms) /\ chat' = chat /\ issued' = issued
        /\ Numbered /\ OneMutation /\ ActiveFollowed /\ AnswersHushed /\ OnePlace
    BY MovesLeave DEF TalkInv, AskInv, FollowInv
  <1>2. StoreMoves(ms) /\ RunMoves(ms) /\ MutationMoves(ms)
    BY DEF HostMoves
  <1>3. gone' \subseteq used' \ stored' /\ (gone \cap Names = {})'
    BY <1>1, <1>2 DEF GoneInv, StoreMoves, Names
  <1>4. (chat.restore # 0 => chat.restoreTarget \notin gone)'
    BY <1>1 DEF GoneInv
  <1>5. \A m \in ToSet(toView') : m.type = "session-deleted" => m.session \in used' \ stored'
    BY <1>1, <1>2 DEF GoneInv, StoreMoves
  <1>6. ListsGone'
    <2>1. chat.list # 0 /\ host'.list.read /\ host'.list.req = chat.list => host'.list.found \cap gone = {}
      BY <1>2, <1>3 DEF GoneInv, ListsGone, StoreMoves
    <2>2. ASSUME NEW m \in ToSet(toView'), m.type = "session-list", m.req = chat.list
          PROVE  m.sessions \cap gone = {}
      <3>1. CASE m \in ToSet(toView)
        BY <2>2, <3>1 DEF GoneInv, ListsGone
      <3>2. CASE m \in ToSet(ms)
        <4>1. host.list.read /\ m.req = host.list.req /\ m.sessions = host.list.found /\ m.req \in 1 .. issued
          BY <1>2, <2>2, <3>2 DEF StoreMoves, MutationMoves
        <4>2. m.req # 0
          BY <4>1
        <4> QED BY <2>2, <4>1, <4>2 DEF GoneInv, ListsGone
      <3> QED BY <1>1, <3>1, <3>2
    <2> QED BY <1>1, <2>1, <2>2 DEF ListsGone
  <1>7. \A m : IsWord(m)' = IsWord(m)
    BY <1>1 DEF IsWord
  <1>8. \A m \in ToSet(toView') : IsWord(m) => m.session \notin gone
    <2>1. \A m \in ToSet(ms) : IsWord(m) => m.session \in stored
      BY <1>2 DEF RunMoves, Tells, IsWord
    <2> QED BY <1>1, <2>1 DEF GoneInv, WordsGone
  <1>9. ASSUME chat.delete # 0, NEW m \in Later(toView', Answers), m.type \in Words
        PROVE  m.session # chat.deleteTarget
    <2>1. CASE NoneOf(ms, Answers)
      <3>1. m \in Later(toView, Answers) \/ (~NoneOf(toView, Answers) /\ m \in ToSet(ms))
        BY <1>9, <2>1, MovesLeave
      <3>2. CASE m \in Later(toView, Answers)
        BY <1>9, <3>2 DEF GoneInv, WordsGone
      <3>3. CASE ~NoneOf(toView, Answers) /\ m \in ToSet(ms)
        <4>1. PICK a \in ToSet(toView) : a.type \in Answers
          BY <3>3 DEF NoneOf
        <4>2. Hushed(a)
          BY <1>1, <4>1 DEF AnswersHushed
        <4>3. host.active # 0 => runs[host.active].session # chat.deleteTarget
          BY <1>9, <4>2 DEF Hushed, Quieted
        <4>4. /\ host.active # 0 /\ (runs[host.active].session # m.session => m.session \notin Told)
          BY <1>2, <1>9, <3>3 DEF RunMoves, Tells
        <4>5. chat.deleteTarget \in Told
          BY <1>1, <1>9 DEF OneMutation
        <4> QED BY <4>3, <4>4, <4>5
      <3> QED BY <3>1, <3>2, <3>3
    <2>2. CASE ~NoneOf(ms, Answers)
      <3>1. PICK a \in ToSet(ms) : a.type \in Answers
        BY <2>2 DEF NoneOf
      <3>2. (Deciding \/ Took(Mutations)) /\ NoneOf(ms, Words)
        BY <1>2, <3>1 DEF MutationMoves
      <3>3. NoneOf(toView, Answers)
        <4>1. Took(Mutations) => Head(toHost) \in ToSet(toHost) /\ Head(toHost).type \in Mutations
          BY MovesLeave DEF Took
        <4> QED BY <1>1, <3>2, <4>1 DEF OnePlace, NoneOf
      <3>4. toView \in Seq(Messages(AnySession)) /\ ms \in Seq(Messages(AnySession)) /\ toView' = toView \o ms
        BY Channels DEF TalkInv, HostMoves, Travels
      <3>5. m \in ToSet(ms)
        BY <1>9, <3>3, <3>4, LaterPosted
      <3> QED BY <1>9, <3>2, <3>5 DEF NoneOf
    <2> QED BY <2>1, <2>2
  <1>10. WordsGone'
    BY <1>1, <1>7, <1>8, <1>9 DEF WordsGone
  <1> QED BY <1>3, <1>4, <1>5, <1>6, <1>10 DEF GoneInv

\* What the view names after a step in which the Sessions of x are told to be gone.
Forgets(x) ==
    /\ gone' = gone \cup x /\ x \subseteq used \ stored
    /\ (chat'.sessions \cup {chat'.selected, chat'.selection}) \cap gone' = {}
    /\ chat'.list \in {0, issued + 1} \/ (chat'.list = chat.list /\ x = {})
    /\ chat'.restore # 0 => chat'.restoreTarget \notin gone'
    /\ x = {} \/ \A m \in ToSet(toView') : IsWord(m)' => m.session \notin x

LEMMA ChatKeepsGone ==
    ASSUME TalkInv, GoneInv, NEW sent, ChatMoves(sent), NEW x, Forgets(x)
    PROVE  GoneInv'
  <1>1. /\ ToSet(toView') \subseteq ToSet(toView) /\ host' = host /\ stored' = stored /\ used' = used
        /\ Later(toView', Answers) \subseteq Later(toView, Answers) /\ Numbered
    BY ChatLeaves DEF TalkInv, AskInv
  <1>2. gone' \subseteq used' \ stored' /\ (gone \cap Names = {})'
    BY <1>1 DEF GoneInv, Forgets, Names
  <1>3. (chat.restore # 0 => chat.restoreTarget \notin gone)'
    BY DEF Forgets
  <1>4. \A m \in ToSet(toView') : m.type = "session-deleted" => m.session \in used' \ stored'
    BY <1>1 DEF GoneInv
  <1>5. /\ host.list.req # issued + 1
        /\ \A m \in ToSet(toView) : m.req # issued + 1 /\ m.req # 0
    <2>1. issued \in Nat /\ host.list.req \in 0 .. issued /\ \A m \in ToSet(toView) : m.req \in 1 .. issued
      BY <1>1 DEF Numbered, HostNumbered
    <2> QED BY <2>1
  <1>6. ListsGone'
    BY <1>1, <1>5 DEF GoneInv, ListsGone, Forgets
  <1>7. ASSUME NEW m \in ToSet(toView'), IsWord(m)' PROVE m.session \notin gone'
    <2>1. chat'.active = chat.active
      <3>1. m.req = chat'.active /\ m.req # 0 /\ m.req # issued + 1
        BY <1>1, <1>5, <1>7 DEF IsWord
      <3> QED BY <3>1 DEF ChatMoves, Follows
    <2>2. IsWord(m)
      BY <1>7, <2>1 DEF IsWord
    <2> QED BY <1>1, <1>7, <2>2 DEF GoneInv, WordsGone, Forgets
  <1>8. ASSUME chat'.delete # 0, NEW m \in Later(toView', Answers), m.type \in Words
        PROVE  m.session # chat'.deleteTarget
    <2>1. CASE NoneOf(toView', Answers)
      BY <1>8, <2>1 DEF Later, NoneOf, ToSet
    <2>2. CASE chat'.delete = chat.delete /\ chat'.deleteTarget = chat.deleteTarget
      BY <1>1, <1>8, <2>2 DEF GoneInv, WordsGone
    <2> QED BY <2>1, <2>2 DEF ChatMoves, Asks, Unasked
  <1>9. WordsGone'
    BY <1>7, <1>8 DEF WordsGone
  <1> QED BY <1>2, <1>3, <1>4, <1>6, <1>9 DEF GoneInv

\* The view names nothing more than it did, and waits for no list it did not ask for.
Held(c) ==
    /\ c.sessions \cup {c.selected, c.selection} \subseteq Names \cup {NoSession}
    /\ c.list \in {0, issued + 1, chat.list}
    /\ c.restore = 0 \/ (c.restore = chat.restore /\ c.restoreTarget = chat.restoreTarget) \/ c.restoreTarget \in Names

LEMMA GoneIs ==
    ASSUME TalkInv, GoneInv
    PROVE  NoSession \notin gone /\ NoSession \notin used /\ gone \cap Names = {}
  BY SessionAssumption DEF TalkInv, ViewInv, GoneInv

LEMMA HeldForgets ==
    ASSUME TalkInv, GoneInv, gone' = gone, Held(chat')
    PROVE  Forgets({})
  BY GoneIs DEF GoneInv, Held, Forgets

LEMMA UserActsForget ==
    ASSUME TalkInv, GoneInv, UserActs, gone' = gone
    PROVE  Forgets({})
  <1>1. DOMAIN chat = ChatFields /\ Next1 = issued + 1
    BY ChatIs DEF Next1
  <1>2. CASE Submit \/ Regenerate \/ EditMessage
    <2>1. PICK a, b, t, e : \/ chat' = [Following(chat) EXCEPT !.transcript = a, !.target = t]
                            \/ chat' = [Following(chat) EXCEPT !.target = t, !.regeneration = b]
                            \/ chat' = [Following(chat) EXCEPT !.target = t, !.edit = e]
      BY <1>2 DEF Submit, Regenerate, EditMessage, Send
    <2>2. /\ chat'.sessions = chat.sessions /\ chat'.selected = chat.selected /\ chat'.selection = chat.selection
          /\ chat'.list = chat.list /\ chat'.restore = chat.restore /\ chat'.restoreTarget = chat.restoreTarget
      BY <1>1, <2>1 DEF Following, ChatFields
    <2> QED BY <2>2, HeldForgets DEF Held, Names
  <1>3. CASE Cancel
    BY <1>3, HeldForgets DEF Cancel, Send, Held, Names
  <1>4. CASE NewChat
    <2> DEFINE n == NoReplacement(chat)
    <2>1. /\ DOMAIN n = ChatFields /\ n.sessions = chat.sessions /\ n.restore = chat.restore
      BY <1>1 DEF NoReplacement, ChatFields
    <2>2. /\ chat' = [n EXCEPT
                !.transcript = <<>>, !.status = "ended", !.pending = {},
                !.target = NoRequest, !.list = NoRequest,
                !.restoreTarget = NoSession, !.delete = NoRequest,
                !.deleteTarget = NoSession, !.clear = NoRequest, !.mismatched = {},
                !.selected = NoSession, !.selection = NoSession, !.readOnly = FALSE]
          /\ chat.restore = 0
      BY <1>4 DEF NewChat, Send, Unoccupied, NoRequest
    <2> HIDE DEF n
    <2>3. chat'.sessions = chat.sessions /\ chat'.selected = NoSession /\ chat'.selection = NoSession
          /\ chat'.list = 0 /\ chat'.restore = 0
      BY <2>1, <2>2 DEF ChatFields, NoRequest
    <2> QED BY <2>3, HeldForgets DEF Held, Names
  <1>5. CASE LoadSessions
    <2>1. chat' = [chat EXCEPT !.list = issued + 1]
      BY <1>1, <1>5 DEF LoadSessions, Send
    <2>2. /\ chat'.sessions = chat.sessions /\ chat'.selected = chat.selected /\ chat'.selection = chat.selection
          /\ chat'.list = issued + 1 /\ chat'.restore = chat.restore /\ chat'.restoreTarget = chat.restoreTarget
      BY <1>1, <2>1 DEF ChatFields
    <2> QED BY <2>2, HeldForgets DEF Held, Names
  <1>6. CASE SelectSession
    <2> DEFINE n == NoReplacement(chat)
    <2>1. PICK s \in chat.sessions : chat' = [n EXCEPT !.selection = s, !.switching = s # chat.selected]
      BY <1>6 DEF SelectSession, Send
    <2>2. /\ DOMAIN n = ChatFields /\ n.sessions = chat.sessions /\ n.selected = chat.selected
          /\ n.list = chat.list /\ n.restore = chat.restore /\ n.restoreTarget = chat.restoreTarget
      BY <1>1 DEF NoReplacement, ChatFields
    <2> HIDE DEF n
    <2>3. /\ chat'.sessions = chat.sessions /\ chat'.selected = chat.selected /\ chat'.selection = s
          /\ chat'.list = chat.list /\ chat'.restore = chat.restore /\ chat'.restoreTarget = chat.restoreTarget
      BY <2>1, <2>2 DEF ChatFields
    <2> QED BY <2>3, HeldForgets DEF Held, Names
  <1>7. CASE RestoreSelectedSession
    <2>1. chat' = [chat EXCEPT !.list = NoRequest, !.restore = Next1, !.restoreTarget = chat.selection]
      BY <1>7 DEF RestoreSelectedSession, Send
    <2>2. /\ chat'.sessions = chat.sessions /\ chat'.selected = chat.selected /\ chat'.selection = chat.selection
          /\ chat'.list = 0 /\ chat'.restoreTarget = chat.selection
      BY <1>1, <2>1 DEF ChatFields, NoRequest
    <2> QED BY <2>2, HeldForgets DEF Held, Names
  <1>8. CASE DeleteSession \/ ClearSessions \/ ClearLocalData
    <2>1. \/ chat' = [chat EXCEPT !.list = NoRequest, !.delete = Next1, !.deleteTarget = chat.selection, !.mutating = TRUE]
          \/ chat' = [chat EXCEPT !.list = NoRequest, !.clear = Next1, !.mutating = TRUE]
          \/ chat' = [chat EXCEPT !.list = NoRequest, !.reset = Next1, !.mutating = TRUE]
      BY <1>8 DEF DeleteSession, ClearSessions, ClearLocalData, Send
    <2>2. /\ chat'.sessions = chat.sessions /\ chat'.selected = chat.selected /\ chat'.selection = chat.selection
          /\ chat'.list = 0 /\ chat'.restore = chat.restore /\ chat'.restoreTarget = chat.restoreTarget
      BY <1>1, <2>1 DEF ChatFields, NoRequest
    <2> QED BY <2>2, HeldForgets DEF Held, Names
  <1> QED BY <1>2, <1>3, <1>4, <1>5, <1>6, <1>7, <1>8 DEF UserActs

LEMMA ConfirmedIs ==
    ASSUME toView # <<>>, toView' = Tail(toView)
    PROVE  /\ Incoming.type = "session-deleted" /\ Incoming.req = chat.delete => Confirmed = {Incoming.session}
           /\ Incoming.type = "sessions-cleared" /\ Incoming.req = chat.clear => Confirmed = used \ stored
           /\ Incoming.type = "local-data-clear-result" /\ Incoming.req = chat.reset =>
                 Confirmed = IF Incoming.status = "completed" THEN used \ stored ELSE {}
           /\ Incoming.type \notin {"session-deleted", "sessions-cleared", "local-data-clear-result"} => Confirmed = {}
  <1>1. CASE Incoming.type = "session-deleted"
    BY <1>1 DEF Confirmed
  <1>2. CASE Incoming.type = "sessions-cleared"
    BY <1>2 DEF Confirmed
  <1>3. CASE Incoming.type = "local-data-clear-result"
    BY <1>3 DEF Confirmed
  <1>4. CASE Incoming.type \notin {"session-deleted", "sessions-cleared", "local-data-clear-result"}
    BY <1>4 DEF Confirmed
  <1> QED BY <1>1, <1>2, <1>3, <1>4

\* The view is told that a deletion or a clearing is over.
LEMMA AnswersForget ==
    ASSUME TalkInv, GoneInv, UNCHANGED hostVars, gone' = gone \cup Confirmed,
           ReceiveSessionDeleted \/ ReceiveSessionsCleared \/ ReceiveResetResult
    PROVE  \E x : Forgets(x)
  <1>1. OneMutation /\ DOMAIN chat = ChatFields /\ NoSession \notin gone /\ NoSession \notin used /\ gone \cap Names = {}
        /\ gone \subseteq used \ stored
    BY ChatIs, GoneIs DEF GoneInv
  <1>2. CASE ReceiveSessionDeleted
    <2> DEFINE d == Reset(chat, chat.deleteTarget)
               c == [d EXCEPT !.delete = NoRequest, !.deleteTarget = NoSession, !.list = NoRequest, !.mutating = FALSE]
    <2>1. /\ toView # <<>> /\ toView' = Tail(toView) /\ Incoming.type = "session-deleted"
          /\ Incoming.req = chat.delete /\ Incoming.session = chat.deleteTarget /\ chat' = c
      BY <1>2 DEF ReceiveSessionDeleted, Takes, Becomes
    <2>2. Incoming.type \in Answers /\ chat.delete # 0 /\ Incoming \in ToSet(toView)
      BY <2>1, IncomingIs DEF Answers
    <2>3. chat.restore = 0 /\ chat.deleteTarget # NoSession /\ chat.deleteTarget \in used \ stored
      BY <1>1, <2>1, <2>2 DEF OneMutation, GoneInv
    <2>4. gone' = gone \cup {chat.deleteTarget}
      BY <2>1, ConfirmedIs
    <2>5. Cleared(chat, chat.deleteTarget, d)
      BY <1>1, ResetLeaves
    <2> HIDE DEF d
    <2>6. /\ d.sessions = chat.sessions \ {chat.deleteTarget} /\ d.restore = 0 /\ DOMAIN d = ChatFields
          /\ {d.selected, d.selection} \subseteq Names \cup {NoSession} /\ chat.deleteTarget \notin {d.selected, d.selection}
      BY <2>3, <2>5 DEF Cleared, Clears, Names
    <2>7. c.sessions = d.sessions /\ c.restore = 0 /\ c.selected = d.selected /\ c.selection = d.selection /\ c.list = 0
      BY <2>6 DEF ChatFields, NoRequest
    <2> HIDE DEF c
    <2>8. (chat'.sessions \cup {chat'.selected, chat'.selection}) \cap gone' = {}
      BY <1>1, <2>1, <2>4, <2>6, <2>7 DEF Names
    <2>9. \A m \in ToSet(toView') : m.type \in Words => m.session # chat.deleteTarget
      <3>1. ToSet(toView') \subseteq Later(toView, Answers)
        BY <2>1, <2>2, IncomingIs
      <3> QED BY <2>2, <3>1 DEF GoneInv, WordsGone
    <2>10. \A m \in ToSet(toView') : IsWord(m)' => m.session \notin {chat.deleteTarget}
      BY <2>9 DEF IsWord
    <2>11. Forgets({chat.deleteTarget})
      BY <2>1, <2>3, <2>4, <2>7, <2>8, <2>10 DEF Forgets
    <2> QED BY <2>11
  <1>3. ASSUME NEW c, chat' = c, NEW d, Cleared(chat, NoSession, d), toView # <<>>, toView' = Tail(toView),
               c.sessions = d.sessions, c.restore = d.restore, c.selected = d.selected, c.selection = d.selection,
               c.list = 0, c.active = d.active, NEW x, x \subseteq used \ stored, gone' = gone \cup x
        PROVE  \E e : Forgets(e)
    <2>1. c.sessions = {} /\ c.restore = 0 /\ c.selected = NoSession /\ c.selection = NoSession /\ c.active = 0
      BY <1>3 DEF Cleared, Clears
    <2>2. NoSession \notin gone'
      BY <1>1, <1>3
    <2>3. \A m \in ToSet(toView') : ~IsWord(m)'
      <3>1. \A i \in 1 .. issued : i # 0
        OBVIOUS
      <3>2. \A m \in ToSet(toView') : m.req # 0
        BY <1>3, <3>1, IncomingIs DEF TalkInv, AskInv, Numbered
      <3> QED BY <1>3, <2>1, <3>2 DEF IsWord
    <2>4. Forgets(x)
      BY <1>3, <2>1, <2>2, <2>3 DEF Forgets
    <2> QED BY <2>4
  <1>4. CASE ReceiveSessionsCleared
    <2> DEFINE d == Reset(chat, NoSession)
               c == [d EXCEPT !.clear = NoRequest, !.delete = NoRequest, !.deleteTarget = NoSession,
                              !.list = NoRequest, !.mutating = FALSE]
    <2>1. /\ toView # <<>> /\ toView' = Tail(toView) /\ Incoming.type = "sessions-cleared"
          /\ Incoming.req = chat.clear /\ chat' = c
      BY <1>4 DEF ReceiveSessionsCleared, Takes, Becomes
    <2>2. gone' = gone \cup (used \ stored)
      BY <2>1, ConfirmedIs
    <2>3. Cleared(chat, NoSession, d)
      BY <1>1, ResetLeaves
    <2> HIDE DEF d
    <2>4. /\ c.sessions = d.sessions /\ c.restore = d.restore /\ c.selected = d.selected /\ c.selection = d.selection
          /\ c.list = 0 /\ c.active = d.active
      BY <2>3 DEF Cleared, ChatFields, NoRequest
    <2> HIDE DEF c
    <2> QED BY <1>3, <2>1, <2>2, <2>3, <2>4
  <1>5. CASE ReceiveResetResult
    <2> DEFINE d == Reset(chat, NoSession)
               c == [d EXCEPT !.reset = NoRequest, !.clear = NoRequest, !.delete = NoRequest,
                              !.deleteTarget = NoSession, !.list = NoRequest, !.mutating = FALSE]
    <2>1. /\ toView # <<>> /\ toView' = Tail(toView) /\ Incoming.type = "local-data-clear-result"
          /\ Incoming.req = chat.reset
          /\ Incoming.status = "cancelled" => chat' = [chat EXCEPT !.reset = NoRequest, !.mutating = FALSE]
          /\ Incoming.status # "cancelled" => chat' = c
      BY <1>5 DEF ReceiveResetResult, Takes, Becomes
    <2>2. Confirmed = IF Incoming.status = "completed" THEN used \ stored ELSE {}
      BY <2>1, ConfirmedIs
    <2>3. CASE Incoming.status = "cancelled"
      <3>1. gone' = gone
        BY <2>2, <2>3
      <3>2. /\ chat'.sessions = chat.sessions /\ chat'.selected = chat.selected /\ chat'.selection = chat.selection
            /\ chat'.list = chat.list /\ chat'.restore = chat.restore /\ chat'.restoreTarget = chat.restoreTarget
        BY <1>1, <2>1, <2>3 DEF ChatFields
      <3>3. Forgets({})
        BY <3>1, <3>2, HeldForgets DEF Held, Names
      <3> QED BY <3>3
    <2>4. CASE Incoming.status # "cancelled"
      <3>1. Cleared(chat, NoSession, d) /\ chat' = c
        BY <1>1, <2>1, <2>4, ResetLeaves
      <3> HIDE DEF d
      <3>2. /\ c.sessions = d.sessions /\ c.restore = d.restore /\ c.selected = d.selected /\ c.selection = d.selection
            /\ c.list = 0 /\ c.active = d.active
        BY <3>1 DEF Cleared, ChatFields, NoRequest
      <3> HIDE DEF c
      <3>3. Confirmed \subseteq used \ stored
        BY <2>2
      <3> QED BY <1>3, <2>1, <3>1, <3>2, <3>3
    <2> QED BY <2>3, <2>4
  <1> QED BY <1>2, <1>4, <1>5

LEMMA ReceiveForgets ==
    ASSUME TalkInv, GoneInv, UNCHANGED hostVars, gone' = gone \cup Confirmed, Receive
    PROVE  \E x : Forgets(x)
  <1>1. DOMAIN chat = ChatFields /\ NoSession \notin gone /\ gone \cap Names = {} /\ Next1 = issued + 1
    BY ChatIs, GoneIs DEF Next1
  <1>2. toView # <<>> /\ toView' = Tail(toView)
    BY DEF Receive, ReceiveSessionStarted, ReceiveSessionDeleted, ReceiveSessionsCleared, ReceiveDeletionError,
           ReceiveResetResult, ReceiveSessionList, ReceiveSessionRestored, ReceiveSessionError, ReceiveText,
           ReceiveRunStatus, IgnoreMessage, Takes
  <1>3. Incoming \in ToSet(toView) /\ Incoming.req # 0
    BY <1>2, IncomingIs
  <1>4. Incoming.type \notin {"session-deleted", "sessions-cleared", "local-data-clear-result"} => gone' = gone
    BY <1>2, ConfirmedIs
  <1>5. CASE ReceiveSessionStarted
    <2>1. gone' = gone /\ Incoming.req = chat.active /\ Incoming.type = "session-started"
      BY <1>4, <1>5 DEF ReceiveSessionStarted, Takes
    <2>2. Incoming.session \notin gone
      BY <1>3, <2>1 DEF GoneInv, WordsGone, IsWord, Words
    <2>3. \E a, b : \/ chat' = [chat EXCEPT !.mismatched = a, !.pending = {}, !.target = NoRequest]
                    \/ chat' = [chat EXCEPT !.selected = Incoming.session, !.selection = Incoming.session, !.switching = b, !.readOnly = b]
      BY <1>5 DEF ReceiveSessionStarted, Becomes
    <2>4. /\ chat'.sessions = chat.sessions /\ chat'.list = chat.list /\ chat'.restore = chat.restore
          /\ chat'.restoreTarget = chat.restoreTarget
          /\ {chat'.selected, chat'.selection} \subseteq {chat.selected, chat.selection, Incoming.session}
      BY <1>1, <2>3 DEF ChatFields
    <2>5. Forgets({})
      BY <1>1, <2>1, <2>2, <2>4 DEF Forgets, Names, GoneInv
    <2> QED BY <2>5
  <1>6. CASE ReceiveDeletionError
    <2> DEFINE s == IF chat.clear # NoRequest THEN NoSession ELSE chat.deleteTarget
               after == IF Incoming.status # "partial" THEN chat ELSE Reset(chat, s)
               settled == [after EXCEPT !.delete = NoRequest, !.deleteTarget = NoSession,
                                        !.clear = NoRequest, !.mutating = FALSE]
    <2>1. gone' = gone /\ (chat' = settled \/ chat' = [settled EXCEPT !.list = Next1])
      BY <1>4, <1>6 DEF ReceiveDeletionError, Takes, Becomes
    <2> HIDE DEF s
    <2>2. after = chat \/ after = Reset(chat, s)
      OBVIOUS
    <2> HIDE DEF after
    <2>3. after = chat \/ Cleared(chat, s, after)
      BY <1>1, <2>2, ResetLeaves
    <2>4. /\ DOMAIN after = ChatFields /\ after.list = chat.list
          /\ after.sessions \cup {after.selected, after.selection} \subseteq Names \cup {NoSession}
          /\ after.restore = 0 \/ (after.restore = chat.restore /\ after.restoreTarget = chat.restoreTarget)
      <3>1. CASE after = chat
        BY <1>1, <3>1 DEF Names
      <3>2. CASE Cleared(chat, s, after)
        BY <3>2 DEF Cleared, Names
      <3> QED BY <2>3, <3>1, <3>2
    <2>5. /\ DOMAIN settled = ChatFields /\ settled.list = chat.list
          /\ settled.sessions \cup {settled.selected, settled.selection} \subseteq Names \cup {NoSession}
          /\ settled.restore = 0 \/ (settled.restore = chat.restore /\ settled.restoreTarget = chat.restoreTarget)
      BY <2>4 DEF ChatFields
    <2> HIDE DEF settled
    <2>6. Held(chat')
      BY <1>1, <2>1, <2>5 DEF Held, ChatFields
    <2>7. Forgets({})
      BY <2>1, <2>6, HeldForgets
    <2> QED BY <2>7
  <1>7. CASE ReceiveSessionList
    <2>1. /\ gone' = gone /\ Incoming.type = "session-list" /\ Incoming.req = chat.list
          /\ \E s \in (IF chat.selected \in Incoming.sessions THEN {chat.selected}
                       ELSE IF Incoming.sessions = {} THEN {NoSession} ELSE Incoming.sessions) :
               chat' = [chat EXCEPT !.list = NoRequest, !.sessions = Incoming.sessions,
                                    !.selection = s, !.switching = s # chat.selected]
      BY <1>4, <1>7 DEF ReceiveSessionList, Takes
    <2>2. Incoming.sessions \cap gone = {}
      BY <1>3, <2>1 DEF GoneInv, ListsGone
    <2>3. /\ chat'.sessions = Incoming.sessions /\ chat'.list = 0 /\ chat'.restore = chat.restore
          /\ chat'.restoreTarget = chat.restoreTarget /\ chat'.selected = chat.selected
          /\ chat'.selection \in {chat.selected, NoSession} \cup Incoming.sessions
      BY <1>1, <2>1 DEF ChatFields, NoRequest
    <2>4. Forgets({})
      BY <1>1, <2>1, <2>2, <2>3 DEF Forgets, Names, GoneInv
    <2> QED BY <2>4
  <1>8. CASE ReceiveSessionRestored
    <2> DEFINE over == [chat EXCEPT !.restore = NoRequest, !.restoreTarget = NoSession]
               full == [over EXCEPT
                        !.transcript = <<RestoredExchange(Incoming.session)>>, !.pending = {},
                        !.target = NoRequest, !.status = "ended",
                        !.selected = Incoming.session, !.selection = Incoming.session, !.switching = FALSE,
                        !.readOnly = Incoming.session \in Legacy]
    <2>1. /\ gone' = gone /\ Incoming.req = chat.restore
          /\ chat' = over \/ (Incoming.session = chat.restoreTarget /\ chat' = full)
      BY <1>4, <1>8 DEF ReceiveSessionRestored, Takes, Becomes
    <2>2. /\ DOMAIN over = ChatFields /\ over.sessions = chat.sessions /\ over.list = chat.list /\ over.restore = 0
          /\ over.selected = chat.selected /\ over.selection = chat.selection
      BY <1>1 DEF ChatFields, NoRequest
    <2> HIDE DEF over
    <2>3. /\ full.sessions = chat.sessions /\ full.list = chat.list /\ full.restore = 0
          /\ full.selected = Incoming.session /\ full.selection = Incoming.session
      BY <2>2 DEF ChatFields
    <2> HIDE DEF full
    <2>4. Incoming.session = chat.restoreTarget => Incoming.session \notin gone
      BY <1>3, <2>1 DEF GoneInv
    <2>5. Forgets({})
      BY <1>1, <2>1, <2>2, <2>3, <2>4 DEF Forgets, Names, GoneInv
    <2> QED BY <2>5
  <1>9. CASE ReceiveSessionError
    <2>1. gone' = gone /\ \/ chat' = [chat EXCEPT !.list = NoRequest]
                          \/ chat' = [chat EXCEPT !.restore = NoRequest, !.restoreTarget = NoSession]
      BY <1>4, <1>9 DEF ReceiveSessionError, Takes, Becomes
    <2>2. Held(chat')
      BY <1>1, <2>1 DEF Held, Names, ChatFields, NoRequest
    <2>3. Forgets({})
      BY <2>1, <2>2, HeldForgets
    <2> QED BY <2>3
  <1>10. CASE IgnoreMessage
    <2>1. Incoming.type \notin Answers
      <3>1. Incoming.type \in Answers => AnswerFits(Incoming)
        BY <1>2, IncomingIs
      <3>2. ~Recognized
        BY <1>10 DEF IgnoreMessage
      <3>3. CASE Incoming.type = "session-deleted"
        BY <3>1, <3>2, <3>3 DEF Answers, AnswerFits, Recognized
      <3>4. CASE Incoming.type = "sessions-cleared"
        BY <3>1, <3>2, <3>4 DEF Answers, AnswerFits, Recognized
      <3>5. CASE Incoming.type = "session-deletion-error"
        BY <3>1, <3>2, <3>5 DEF Answers, AnswerFits, Recognized
      <3>6. CASE Incoming.type = "local-data-clear-result"
        BY <3>1, <3>2, <3>6 DEF Answers, AnswerFits, Recognized
      <3> QED BY <3>3, <3>4, <3>5, <3>6 DEF Answers
    <2>2. gone' = gone /\ chat' = chat
      BY <1>4, <1>10, <2>1 DEF IgnoreMessage, Becomes, Answers
    <2>3. Forgets({})
      BY <2>2, HeldForgets DEF Held, Names
    <2> QED BY <2>3
  <1>11. ASSUME NEW c, Beside(chat, c), gone' = gone,
                chat'.sessions = c.sessions, chat'.selected = c.selected, chat'.selection = c.selection,
                chat'.list = c.list, chat'.restore = c.restore, chat'.restoreTarget = c.restoreTarget
         PROVE  \E x : Forgets(x)
    <2>1. Held(chat')
      BY <1>11 DEF Held, Names, Beside
    <2> QED BY <1>11, <2>1, HeldForgets
  <1>12. CASE ReceiveText
    <2> DEFINE r == RegenerationBegun(chat)
               e == EditBegun(r)
    <2>1. Beside(chat, r)
      BY <1>1, ShowsBeside
    <2>2. Beside(r, e)
      <3>1. DOMAIN r = ChatFields
        BY <2>1 DEF Beside
      <3> HIDE DEF r
      <3> QED BY <3>1, ShowsBeside
    <2>3. gone' = gone /\ \E p : chat' = [e EXCEPT !.pending = p]
      BY <1>4, <1>12 DEF ReceiveText, Takes, Becomes
    <2> HIDE DEF r, e
    <2>4. Beside(chat, e)
      BY <2>1, <2>2 DEF Beside
    <2>5. /\ chat'.sessions = e.sessions /\ chat'.selected = e.selected /\ chat'.selection = e.selection
          /\ chat'.list = e.list /\ chat'.restore = e.restore /\ chat'.restoreTarget = e.restoreTarget
      BY <2>3, <2>4 DEF Beside, ChatFields
    <2> QED BY <1>11, <2>3, <2>4, <2>5
  <1>13. CASE ReceiveRunStatus
    <2> DEFINE k == IF Incoming.status = "completed" THEN chat ELSE EditRestored(RegenerationRestored(chat))
               f == IF Incoming.status = "completed" THEN chat ELSE EditRestored(chat)
               p == Flushed(k)
               q == Flushed(f)
    <2>1. /\ gone' = gone
          /\ \/ chat' = chat
             \/ chat' = [chat EXCEPT !.status = "working"]
             \/ chat' = [p EXCEPT !.status = "ended", !.active = NoRequest, !.regeneration = NoBackup, !.edit = NoBackup]
             \/ chat' = [q EXCEPT !.status = "ended", !.active = NoRequest, !.mismatched = q.mismatched \ {Incoming.req}]
      BY <1>4, <1>13 DEF ReceiveRunStatus, Takes, Becomes, Terminated
    <2>2. Beside(chat, k) /\ Beside(chat, f)
      <3> DEFINE g == RegenerationRestored(chat)
      <3>1. Beside(chat, g) /\ Beside(chat, EditRestored(chat)) /\ Beside(chat, chat)
        BY <1>1, ShowsBeside
      <3> HIDE DEF g
      <3>2. Beside(g, EditRestored(g))
        BY <3>1, ShowsBeside DEF Beside
      <3>3. Beside(chat, EditRestored(g))
        BY <3>1, <3>2 DEF Beside
      <3> QED BY <3>1, <3>3 DEF g
    <2> HIDE DEF k, f
    <2>3. Beside(k, p) /\ Beside(f, q)
      BY <2>2, ShowsBeside DEF Beside
    <2> HIDE DEF p, q
    <2>4. Beside(chat, p) /\ Beside(chat, q) /\ Beside(chat, chat)
      BY <1>1, <2>2, <2>3, ShowsBeside DEF Beside
    <2>5. \E c \in {chat, p, q} :
            /\ chat'.sessions = c.sessions /\ chat'.selected = c.selected /\ chat'.selection = c.selection
            /\ chat'.list = c.list /\ chat'.restore = c.restore /\ chat'.restoreTarget = c.restoreTarget
      BY <2>1, <2>4 DEF Beside, ChatFields
    <2> QED BY <1>11, <2>1, <2>4, <2>5
  <1>14. CASE ReceiveSessionDeleted \/ ReceiveSessionsCleared \/ ReceiveResetResult
    BY <1>14, AnswersForget
  <1> QED BY <1>5, <1>6, <1>7, <1>8, <1>9, <1>10, <1>12, <1>13, <1>14 DEF Receive

LEMMA GoneNext == TalkInv /\ GoneInv /\ [Next]_vars => GoneInv'
  <1> SUFFICES ASSUME TalkInv, GoneInv, [Next]_vars PROVE GoneInv'
    OBVIOUS
  <1>1. CASE HostActs
    <2>1. HostNext /\ UNCHANGED chatVars /\ gone' = gone
      BY <1>1 DEF HostActs
    <2>2. PICK ms : HostMoves(ms)
      BY <2>1, HostMovesOn
    <2> QED BY <2>1, <2>2, HostKeepsGone
  <1>2. CASE ChatActs
    <2>1. UserActs /\ UNCHANGED hostVars /\ gone' = gone
      BY <1>2 DEF ChatActs
    <2>2. PICK sent : ChatMoves(sent)
      BY <2>1, UserActsMove
    <2>3. Forgets({})
      BY <2>1, UserActsForget
    <2> QED BY <2>2, <2>3, ChatKeepsGone
  <1>3. CASE ViewReceives
    <2>1. Receive /\ UNCHANGED hostVars /\ gone' = gone \cup Confirmed
      BY <1>3 DEF ViewReceives
    <2>2. PICK sent : ChatMoves(sent)
      BY <2>1, ReceivesMove
    <2>3. PICK x : Forgets(x)
      BY <2>1, ReceiveForgets
    <2> QED BY <2>2, <2>3, ChatKeepsGone
  <1>4. CASE ViewPaints
    <2>1. Frame /\ UNCHANGED hostVars /\ gone' = gone
      BY <1>4 DEF ViewPaints
    <2>2. PICK sent : ChatMoves(sent)
      BY <2>1, TextsMove
    <2>3. Beside(chat, chat')
      BY <2>1, ChatIs, ShowsBeside DEF Frame
    <2>4. Held(chat')
      BY <2>3 DEF Held, Names, Beside
    <2>5. Forgets({})
      BY <2>1, <2>4, HeldForgets
    <2> QED BY <2>2, <2>5, ChatKeepsGone
  <1>5. CASE UNCHANGED vars
    <2>1. host' = host /\ stored' = stored /\ used' = used /\ chat' = chat /\ toView' = toView /\ gone' = gone
      BY <1>5 DEF vars
    <2>2. \A m : IsWord(m)' = IsWord(m)
      BY <2>1 DEF IsWord
    <2>3. Names' = Names /\ ListsGone' /\ WordsGone'
      BY <2>1, <2>2 DEF Names, ListsGone, WordsGone, GoneInv
    <2> QED BY <2>1, <2>3 DEF GoneInv
  <1> QED BY <1>1, <1>2, <1>3, <1>4, <1>5 DEF Next, Rest

LEMMA GoneHolds == Spec => []GoneInv
  BY TalkHolds, GoneInit, GoneNext, PTL DEF Spec

\* What the user was told is deleted is neither listed, nor selected, nor current again: no list read
\* before the deletion, no restore and no Run that settles late brings it back
\* (webview-session-message-handler.ts delete and clear, chat-store.ts resetSessionProjection).
THEOREM DeletedStaysGoneHolds == Spec => []DeletedStaysGone
  <1>1. GoneInv => DeletedStaysGone
    BY DEF GoneInv, Names, DeletedStaysGone
  <1> QED BY <1>1, GoneHolds, PTL

-----------------------------------------------------------------------------
(* Text follows the start of its Run.                                      *)

\* The text of r in s comes after its start; the start of r is in s.
LedBy(s, r) == \A k \in DOMAIN s : s[k].type = "text-delta" /\ s[k].req = r =>
                  \E j \in DOMAIN s : j < k /\ s[j].type = "session-started" /\ s[j].req = r
Opens(s, r) == \E m \in ToSet(s) : m.type = "session-started" /\ m.req = r

\* A view without a Session hears which one it is before any text of it.
StartsFirst ==
    chat.selected = NoSession =>
        /\ LedBy(toView, chat.active)
        /\ host.active # 0 /\ runs[host.active].started => Opens(toView, host.active)

LEMMA LedAppended ==
    ASSUME NEW S, NEW s \in Seq(S), NEW t \in Seq(S), NEW r, LedBy(s, r),
           \A k \in DOMAIN t : t[k].type = "text-delta" /\ t[k].req = r =>
              Opens(s, r) \/ \E j \in DOMAIN t : j < k /\ t[j].type = "session-started" /\ t[j].req = r
    PROVE  LedBy(s \o t, r)
  <1> DEFINE u == s \o t
             Begins(m) == m.type = "session-started" /\ m.req = r
             Writes(m) == m.type = "text-delta" /\ m.req = r
  <1>1. /\ DOMAIN s = 1 .. Len(s) /\ DOMAIN t = 1 .. Len(t) /\ Len(s) \in Nat /\ Len(t) \in Nat
        /\ \A i \in DOMAIN u :
              (i \in DOMAIN s /\ u[i] = s[i]) \/ (i > Len(s) /\ i - Len(s) \in DOMAIN t /\ u[i] = t[i - Len(s)])
        /\ \A i \in DOMAIN s : i \in DOMAIN u /\ u[i] = s[i]
        /\ \A i \in DOMAIN t : i + Len(s) \in DOMAIN u /\ u[i + Len(s)] = t[i]
        /\ DOMAIN u \subseteq Nat
    OBVIOUS
  <1>2. \A k \in DOMAIN s : Writes(s[k]) => \E j \in DOMAIN s : j < k /\ Begins(s[j])
    BY DEF LedBy
  <1>3. \A k \in DOMAIN t : Writes(t[k]) => (\E j \in DOMAIN s : Begins(s[j])) \/ (\E j \in DOMAIN t : j < k /\ Begins(t[j]))
    BY DEF Opens, ToSet
  <1> HIDE DEF u, Begins, Writes
  <1>4. ASSUME NEW k \in DOMAIN u, Writes(u[k]) PROVE \E j \in DOMAIN u : j < k /\ Begins(u[j])
    <2>1. CASE k \in DOMAIN s /\ u[k] = s[k]
      <3>1. PICK j \in DOMAIN s : j < k /\ Begins(s[j])
        BY <1>2, <1>4, <2>1
      <3> QED BY <1>1, <3>1
    <2>2. CASE k > Len(s) /\ k - Len(s) \in DOMAIN t /\ u[k] = t[k - Len(s)]
      <3>1. CASE \E j \in DOMAIN s : Begins(s[j])
        <4>1. PICK j \in DOMAIN s : Begins(s[j])
          BY <3>1
        <4>2. j \in DOMAIN u /\ u[j] = s[j] /\ j <= Len(s) /\ j \in Nat /\ k \in Nat
          BY <1>1
        <4> QED BY <1>1, <2>2, <4>1, <4>2
      <3>2. CASE \E j \in DOMAIN t : j < k - Len(s) /\ Begins(t[j])
        <4>1. PICK j \in DOMAIN t : j < k - Len(s) /\ Begins(t[j])
          BY <3>2
        <4>2. j + Len(s) \in DOMAIN u /\ u[j + Len(s)] = t[j] /\ j \in Nat /\ k \in Nat
          BY <1>1
        <4>3. j + Len(s) < k
          BY <1>1, <4>1, <4>2
        <4> QED BY <4>1, <4>2, <4>3
      <3> QED BY <1>3, <1>4, <2>2, <3>1, <3>2
    <2> QED BY <1>1, <2>1, <2>2
  <1>5. LedBy(u, r)
    BY <1>4 DEF LedBy, Begins, Writes
  <1> QED BY <1>5 DEF u

LEMMA LedTaken ==
    ASSUME NEW S, NEW s \in Seq(S), s # <<>>, NEW r, ~(Head(s).type = "session-started" /\ Head(s).req = r)
    PROVE  /\ LedBy(s, r) => LedBy(Tail(s), r)
           /\ Opens(s, r) => Opens(Tail(s), r)
  <1> DEFINE u == Tail(s)
             Begins(m) == m.type = "session-started" /\ m.req = r
             Writes(m) == m.type = "text-delta" /\ m.req = r
  <1>1. /\ Head(s) = s[1]
        /\ \A i \in DOMAIN u : i \in Nat /\ i + 1 \in DOMAIN s /\ u[i] = s[i + 1]
        /\ \A i \in DOMAIN s : i \in Nat /\ (i = 1 \/ (i - 1 \in DOMAIN u /\ s[i] = u[i - 1]))
    OBVIOUS
  <1>2. ~Begins(Head(s))
    OBVIOUS
  <1>3. LedBy(s, r) => \A k \in DOMAIN s : Writes(s[k]) => \E j \in DOMAIN s : j < k /\ Begins(s[j])
    BY DEF LedBy
  <1> HIDE DEF u, Begins, Writes
  <1>4. ASSUME LedBy(s, r), NEW k \in DOMAIN u, Writes(u[k]) PROVE \E j \in DOMAIN u : j < k /\ Begins(u[j])
    <2>1. PICK j \in DOMAIN s : j < k + 1 /\ Begins(s[j])
      BY <1>1, <1>3, <1>4
    <2>2. j # 1
      BY <1>1, <1>2, <2>1
    <2>3. j - 1 \in DOMAIN u /\ s[j] = u[j - 1] /\ j \in Nat /\ k \in Nat
      BY <1>1, <2>2
    <2>4. j - 1 < k
      BY <2>1, <2>3
    <2> QED BY <2>1, <2>3, <2>4
  <1>5. LedBy(s, r) => LedBy(u, r)
    BY <1>4 DEF LedBy, Begins, Writes
  <1>6. Opens(s, r) => Opens(u, r)
    <2>1. ToSet(s) = {Head(s)} \cup ToSet(u)
      BY Taken DEF u
    <2> QED BY <1>2, <2>1 DEF Opens, Begins
  <1> QED BY <1>5, <1>6 DEF u

LEMMA StartsInit == Init => StartsFirst
  <1> SUFFICES ASSUME Init PROVE StartsFirst
    OBVIOUS
  <1>1. toView = <<>> /\ DOMAIN toView = {} /\ host.active = 0
    BY Few DEF Init, HostInit, NoRequest
  <1> QED BY <1>1 DEF StartsFirst, LedBy

LEMMA HostKeepsStarts ==
    ASSUME TalkInv, StartsFirst, NEW ms, HostMoves(ms)
    PROVE  StartsFirst'
  <1>1. /\ ToSet(toView') = ToSet(toView) \cup ToSet(ms) /\ chat' = chat
        /\ toView \in Seq(Messages(AnySession)) /\ ms \in Seq(Messages(AnySession)) /\ toView' = toView \o ms
        /\ ActiveFollowed /\ RunMoves(ms) /\ TextMoves(ms)
    BY MovesLeave, Channels DEF TalkInv, FollowInv, HostMoves, Travels
  <1> SUFFICES ASSUME chat.selected = NoSession
               PROVE  /\ LedBy(toView', chat.active)
                      /\ host'.active # 0 /\ runs'[host'.active].started => Opens(toView', host'.active)
    BY <1>1 DEF StartsFirst
  <1>2. LedBy(toView, chat.active) /\ (host.active # 0 /\ runs[host.active].started => Opens(toView, host.active))
    BY DEF StartsFirst
  <1>3. ASSUME NEW k \in DOMAIN ms, ms[k].type = "text-delta", ms[k].req = chat.active
        PROVE  Opens(toView, chat.active)
               \/ \E j \in DOMAIN ms : j < k /\ ms[j].type = "session-started" /\ ms[j].req = chat.active
    <2>1. Tells(ms[k])
      BY <1>1, <1>3 DEF RunMoves, Words, ToSet
    <2>2. host.active # 0 /\ host.active = chat.active
      BY <1>1, <2>1 DEF Tells, ActiveFollowed
    <2> QED BY <1>1, <1>2, <1>3, <2>2 DEF TextMoves
  <1>4. LedBy(toView', chat.active)
    <2>1. LedBy(toView \o ms, chat.active)
      BY <1>1, <1>2, <1>3, LedAppended
    <2> QED BY <1>1, <2>1
  <1>5. host'.active # 0 /\ runs'[host'.active].started => Opens(toView', host'.active)
    BY <1>1, <1>2 DEF TextMoves, Opens
  <1> QED BY <1>4, <1>5

\* The start of the followed Run is not passed over: it gives the view its Session.
LEMMA StartIsHeard ==
    ASSUME TalkInv, UNCHANGED hostVars, UserActs \/ Receive \/ Frame
    PROVE  \/ toView' = toView
           \/ toView # <<>> /\ toView' = Tail(toView)
              /\ (Incoming.type = "session-started" /\ Incoming.req = chat.active => chat'.selected # NoSession)
  <1>1. CASE UserActs \/ Frame
    BY <1>1 DEF UserActs, Submit, Regenerate, EditMessage, Cancel, NewChat, LoadSessions, SelectSession,
       RestoreSelectedSession, DeleteSession, ClearSessions, ClearLocalData, Send, Frame
  <1>2. ASSUME Receive, Incoming.type = "session-started", Incoming.req = chat.active
        PROVE  ReceiveSessionStarted
    BY <1>2 DEF Receive, ReceiveSessionDeleted, ReceiveSessionsCleared, ReceiveDeletionError,
           ReceiveResetResult, ReceiveSessionList, ReceiveSessionRestored, ReceiveSessionError, ReceiveText,
           ReceiveRunStatus, IgnoreMessage, Takes, Recognized, Followed
  <1>3. CASE Receive
    <2>1. toView # <<>> /\ toView' = Tail(toView)
      BY <1>3 DEF Receive, ReceiveSessionStarted, ReceiveSessionDeleted, ReceiveSessionsCleared, ReceiveDeletionError,
             ReceiveResetResult, ReceiveSessionList, ReceiveSessionRestored, ReceiveSessionError, ReceiveText,
             ReceiveRunStatus, IgnoreMessage, Takes
    <2>2. ASSUME ReceiveSessionStarted PROVE chat'.selected # NoSession
      <3>1. Incoming \in ToSet(toView) /\ Incoming.type = "session-started"
        BY <2>1, <2>2, IncomingIs DEF ReceiveSessionStarted, Takes
      <3>2. Incoming.session # NoSession
        BY <3>1 DEF TalkInv, FollowInv, WordsAgree, Words
      <3>3. \E a, b : \/ chat' = [chat EXCEPT !.mismatched = a, !.pending = {}, !.target = NoRequest]
                         /\ chat.selected # NoSession
                      \/ chat' = [chat EXCEPT !.selected = Incoming.session, !.selection = Incoming.session,
                                              !.switching = b, !.readOnly = b]
        BY <2>2 DEF ReceiveSessionStarted, Becomes
      <3> QED BY <3>2, <3>3, ChatIs DEF ChatFields
    <2> QED BY <1>2, <1>3, <2>1, <2>2
  <1> QED BY <1>1, <1>3

LEMMA ChatKeepsStarts ==
    ASSUME TalkInv, TalkInv', StartsFirst, UserActs \/ Receive \/ Frame, NEW sent, ChatMoves(sent)
    PROVE  StartsFirst'
  <1>1. /\ host' = host /\ runs' = runs /\ ToSet(toView') \subseteq ToSet(toView) /\ UNCHANGED hostVars
        /\ Numbered /\ WordsAgree /\ toView \in Seq(Messages(AnySession)) /\ host.active \in 0 .. issued /\ issued \in Nat
    BY ChatLeaves, ChatIs, Channels DEF TalkInv, AskInv, FollowInv, Numbered, HostNumbered, ChatMoves
  <1>2. host.active # 0 => chat'.active = host.active
    BY <1>1 DEF TalkInv, FollowInv, ActiveFollowed
  <1> SUFFICES ASSUME chat'.selected = NoSession
               PROVE  /\ LedBy(toView', chat'.active)
                      /\ host.active # 0 /\ runs[host.active].started => Opens(toView', host.active)
    BY <1>1 DEF StartsFirst
  <1>3. CASE chat'.active \in {0, issued + 1}
    <2>1. host.active = 0
      BY <1>1, <1>2, <1>3
    <2>2. \A m \in ToSet(toView') : m.req \in 1 .. issued
      BY <1>1 DEF Numbered
    <2>3. \A i \in 1 .. issued : i # 0 /\ i # issued + 1
      BY <1>1
    <2>4. \A k \in DOMAIN toView' : toView'[k].req # chat'.active
      BY <1>3, <2>2, <2>3 DEF ToSet
    <2> QED BY <2>1, <2>4 DEF LedBy
  <1>4. CASE chat'.active = chat.active /\ chat'.selected = chat.selected
    <2>1. LedBy(toView, chat.active) /\ (host.active # 0 /\ runs[host.active].started => Opens(toView, host.active))
      BY <1>4 DEF StartsFirst
    <2>2. host.active # 0 => host.active = chat.active
      BY <1>2, <1>4
    <2>3. CASE toView' = toView
      BY <1>4, <2>1, <2>3
    <2>4. CASE toView # <<>> /\ toView' = Tail(toView) /\ ~(Incoming.type = "session-started" /\ Incoming.req = chat.active)
      <3>1. LedBy(Tail(toView), chat.active) /\ (Opens(toView, chat.active) => Opens(Tail(toView), chat.active))
        BY <1>1, <2>1, <2>4, LedTaken DEF Incoming
      <3> QED BY <1>4, <2>1, <2>2, <2>4, <3>1
    <2> QED BY <1>1, <2>3, <2>4, StartIsHeard
  <1>5. ~\E m \in ToSet(toView) : IsWord(m) /\ m.session = chat'.selected
    BY <1>1 DEF WordsAgree, IsWord
  <1> QED BY <1>3, <1>4, <1>5 DEF ChatMoves, Follows

-----------------------------------------------------------------------------
(* What is shown.                                                          *)

Single(S) == \A x, y \in S : x = y
\* Exchanges of the Session s, each with the text of one of n requests.
Exchanges(s, n) ==
    {e \in [id : (1 .. n) \cup {HistoryId}, by : SUBSET (1 .. n), of : SUBSET ({s} \ {NoSession})] : Single(e.by)}
Kept(s, n) == [id : (0 .. n) \cup {HistoryId}, kept : Seq(Exchanges(s, n)), begun : BOOLEAN]

\* Text may be gathered: nothing is left to be blanked first.
Writable(c) == c.regeneration = NoBackup \/ c.regeneration.begun
\* The answer that text goes to holds that of the followed Run alone.
OwnText(c) ==
    c.active # 0 => \A i \in DOMAIN c.transcript :
        c.transcript[i].id = c.active \/ (c.transcript[i].id = c.target /\ Writable(c)) =>
            c.transcript[i].by \subseteq {c.active}
\* What a regeneration or an edit keeps was shown.
Backups(c, n) ==
    /\ c.regeneration \in Kept(c.selected, n) /\ c.edit \in Kept(c.selected, n)
    /\ c.active = 0 => c.regeneration = NoBackup /\ c.edit = NoBackup
    /\ c.regeneration # NoBackup => c.edit = NoBackup /\ c.regeneration.id = c.target /\ c.regeneration.kept # <<>>
\* A view of n requests shows one Session, and gathers text of the followed Run in it.
Shows(c, n) ==
    /\ DOMAIN c = ChatFields /\ c.active \in 0 .. n /\ c.mismatched = {}
    /\ c.transcript \in Seq(Exchanges(c.selected, n))
    /\ c.pending \subseteq [req : {c.active} \ {0}, session : {c.selected} \ {NoSession}]
    /\ ~Writable(c) => c.pending = {}
    /\ OwnText(c) /\ Backups(c, n)

\* What Shows is about is alike in c and d.
SameShow(c, d) ==
    /\ DOMAIN d = ChatFields /\ d.active = c.active /\ d.mismatched = c.mismatched
    /\ d.transcript = c.transcript /\ d.target = c.target /\ d.pending = c.pending
    /\ d.regeneration = c.regeneration /\ d.edit = c.edit

LEMMA ExchangesGrow ==
    ASSUME NEW n \in Nat, NEW m \in Nat, n <= m, NEW t, NEW s \in {NoSession, t}
    PROVE  /\ Exchanges(s, n) \subseteq Exchanges(t, m)
           /\ Seq(Exchanges(s, n)) \subseteq Seq(Exchanges(t, m)) /\ Kept(s, n) \subseteq Kept(t, m)
  <1>1. Exchanges(s, n) \subseteq Exchanges(t, m)
    <2>1. 1 .. n \subseteq 1 .. m /\ {s} \ {NoSession} \subseteq {t} \ {NoSession}
      OBVIOUS
    <2> DEFINE A == 1 .. n
               B == 1 .. m
               P == {s} \ {NoSession}
               Q == {t} \ {NoSession}
    <2>2. A \subseteq B /\ P \subseteq Q
      BY <2>1
    <2> HIDE DEF A, B, P, Q
    <2>3. {e \in [id : A \cup {HistoryId}, by : SUBSET A, of : SUBSET P] : Single(e.by)}
          \subseteq {e \in [id : B \cup {HistoryId}, by : SUBSET B, of : SUBSET Q] : Single(e.by)}
      BY <2>2
    <2> QED BY <2>3 DEF Exchanges, A, B, P, Q
  <1>2. \A X, Y : X \subseteq Y => Seq(X) \subseteq Seq(Y)
    OBVIOUS
  <1>3. Seq(Exchanges(s, n)) \subseteq Seq(Exchanges(t, m))
    BY <1>1, <1>2
  <1>4. Kept(s, n) \subseteq Kept(t, m)
    <2> DEFINE A == Seq(Exchanges(s, n))
               B == Seq(Exchanges(t, m))
               P == 0 .. n
               Q == 0 .. m
    <2>1. A \subseteq B /\ P \subseteq Q
      BY <1>3
    <2> HIDE DEF A, B, P, Q
    <2>2. [id : P \cup {HistoryId}, kept : A, begun : BOOLEAN] \subseteq [id : Q \cup {HistoryId}, kept : B, begun : BOOLEAN]
      BY <2>1
    <2> QED BY <2>2 DEF Kept, A, B, P, Q
  <1> QED BY <1>1, <1>3, <1>4

\* Nothing changes on screen when other things do, or the Session that is shown gets its name.
LEMMA ShowsOn ==
    ASSUME NEW n \in Nat, NEW m \in Nat, n <= m, NEW c, NEW d, Shows(c, n), SameShow(c, d),
           c.selected = NoSession \/ c.selected = d.selected
    PROVE  Shows(d, m)
  <1>1. /\ c.transcript \in Seq(Exchanges(d.selected, m))
        /\ c.regeneration \in Kept(d.selected, m) /\ c.edit \in Kept(d.selected, m)
    BY ExchangesGrow DEF Shows, Backups
  <1>2. d.active \in 0 .. m /\ d.mismatched = {} /\ DOMAIN d = ChatFields
    BY DEF Shows, SameShow
  <1>3. OwnText(d)
    BY DEF Shows, SameShow, OwnText, Writable
  <1>4. Backups(d, m)
    BY <1>1 DEF Shows, SameShow, Backups
  <1>5. /\ d.pending \subseteq [req : {d.active} \ {0}, session : {d.selected} \ {NoSession}]
        /\ ~Writable(d) => d.pending = {}
    BY DEF Shows, SameShow, Writable
  <1>6. d.transcript \in Seq(Exchanges(d.selected, m))
    BY <1>1 DEF SameShow
  <1> QED BY <1>2, <1>3, <1>4, <1>5, <1>6 DEF Shows

LEMMA MappedIs ==
    ASSUME NEW S, NEW T, NEW t \in Seq(T), NEW u, DOMAIN u = DOMAIN t, u = [i \in DOMAIN t |-> u[i]],
           \A i \in DOMAIN t : u[i] \in S
    PROVE  u \in Seq(S)
  <1>1. Len(t) \in Nat /\ DOMAIN t = 1 .. Len(t)
    OBVIOUS
  <1>2. u \in [1 .. Len(t) -> S]
    BY <1>1
  <1> QED BY <1>1, <1>2

\* d is c with the text gathered in its transcript.
Painted(c, d, n) ==
    /\ d.transcript \in Seq(Exchanges(c.selected, n)) /\ d.pending = {}
    /\ DOMAIN d.transcript = DOMAIN c.transcript
    /\ \A i \in DOMAIN c.transcript : /\ d.transcript[i].id = c.transcript[i].id
                                      /\ d.transcript[i].by \subseteq c.transcript[i].by \cup ({c.active} \ {0})
    /\ DOMAIN d = ChatFields /\ \A g \in ChatFields \ {"transcript", "pending"} : d[g] = c[g]

\* The text goes where only the followed Run has written, or there is none.
LEMMA FlushPaints ==
    ASSUME NEW n \in Nat, NEW c, DOMAIN c = ChatFields, c.active \in 0 .. n,
           c.transcript \in Seq(Exchanges(c.selected, n)),
           c.pending \subseteq [req : {c.active} \ {0}, session : {c.selected} \ {NoSession}],
           c.pending = {} \/ \A i \in DOMAIN c.transcript : c.transcript[i].id = c.target => c.transcript[i].by \subseteq {c.active}
    PROVE  Painted(c, Flushed(c), n)
  <1> DEFINE P == {p.req : p \in c.pending}
             Q == {p.session : p \in c.pending}
             x(e) == [e EXCEPT !.by = e.by \cup P, !.of = e.of \cup Q]
             t == c.transcript
             u == [i \in DOMAIN t |-> IF t[i].id = c.target THEN x(t[i]) ELSE t[i]]
             S == Exchanges(c.selected, n)
  <1>0. PICK d : d = Flushed(c)
    OBVIOUS
  <1>1. d = [c EXCEPT !.transcript = u, !.pending = {}]
    BY <1>0 DEF Flushed, Replaced
  <1>2. /\ P \subseteq {c.active} \ {0} /\ Q \subseteq {c.selected} \ {NoSession} /\ (c.pending = {} => P = {})
        /\ P \subseteq 1 .. n
    OBVIOUS
  <1>3. t \in Seq(S) /\ \A i \in DOMAIN t : t[i] \in S
    <2>1. t \in Seq(S)
      OBVIOUS
    <2> HIDE DEF S, t
    <2> QED BY <2>1
  <1>4. ASSUME NEW i \in DOMAIN t, t[i].id = c.target
        PROVE  /\ x(t[i]) \in S /\ x(t[i]).id = t[i].id /\ x(t[i]).by = t[i].by \cup P
    <2>1. PICK e : e = t[i]
      OBVIOUS
    <2>2. /\ e \in [id : (1 .. n) \cup {HistoryId}, by : SUBSET (1 .. n), of : SUBSET ({c.selected} \ {NoSession})]
          /\ Single(e.by)
      BY <1>3, <2>1 DEF Exchanges
    <2>3. P = {} \/ e.by \subseteq {c.active}
      BY <1>2, <1>4, <2>1
    <2>4. Single(e.by \cup P)
      BY <1>2, <2>2, <2>3 DEF Single
    <2> DEFINE A == (1 .. n) \cup {HistoryId}
               B == 1 .. n
               C == {c.selected} \ {NoSession}
    <2>5. e \in [id : A, by : SUBSET B, of : SUBSET C] /\ P \subseteq B /\ Q \subseteq C
      BY <1>2, <2>2
    <2> HIDE DEF A, B, C, P, Q
    <2>6. x(e) \in [id : A, by : SUBSET B, of : SUBSET C] /\ x(e).id = e.id /\ x(e).by = e.by \cup P
      BY <2>5
    <2>7. x(e) \in S
      BY <2>4, <2>6 DEF Exchanges, A, B, C
    <2> QED BY <2>1, <2>6, <2>7
  <1> HIDE DEF x, P, Q, S, t
  <1>5. \A i \in DOMAIN t : u[i] \in S
    BY <1>3, <1>4
  <1>6. DOMAIN u = DOMAIN t /\ u = [i \in DOMAIN t |-> u[i]]
    OBVIOUS
  <1>7. \A i \in DOMAIN t : u[i].id = t[i].id /\ u[i].by \subseteq t[i].by \cup ({c.active} \ {0})
    BY <1>2, <1>4
  <1> HIDE DEF u
  <1>8. u \in Seq(S)
    BY <1>3, <1>5, <1>6, MappedIs
  <1>9. /\ d.transcript = u /\ d.pending = {} /\ DOMAIN d = ChatFields
        /\ \A g \in ChatFields \ {"transcript", "pending"} : d[g] = c[g]
    BY <1>1 DEF ChatFields
  <1>10. Painted(c, d, n)
    BY <1>6, <1>7, <1>8, <1>9 DEF Painted, S, t
  <1> QED BY <1>0, <1>10

LEMMA FlushShows ==
    ASSUME NEW n \in Nat, NEW c, Shows(c, n)
    PROVE  Shows(Flushed(c), n)
  <1>1. PICK f : f = Flushed(c)
    OBVIOUS
  <1>2. c.pending = {} \/ \A i \in DOMAIN c.transcript : c.transcript[i].id = c.target => c.transcript[i].by \subseteq {c.active}
    <2>1. c.pending # {} => c.active # 0 /\ Writable(c)
      BY DEF Shows
    <2> QED BY <2>1 DEF Shows, OwnText
  <1>3. /\ DOMAIN c = ChatFields /\ c.active \in 0 .. n /\ c.transcript \in Seq(Exchanges(c.selected, n))
        /\ c.pending \subseteq [req : {c.active} \ {0}, session : {c.selected} \ {NoSession}]
    BY DEF Shows
  <1>4. Painted(c, f, n)
    BY <1>1, <1>2, <1>3, FlushPaints
  <1>5. /\ f.active = c.active /\ f.selected = c.selected /\ f.target = c.target /\ f.mismatched = c.mismatched
        /\ f.regeneration = c.regeneration /\ f.edit = c.edit
    BY <1>4 DEF Painted, ChatFields
  <1>6. OwnText(f)
    BY <1>4, <1>5 DEF Shows, OwnText, Writable, Painted
  <1>7. Backups(f, n)
    BY <1>5 DEF Shows, Backups
  <1>8. Shows(f, n)
    BY <1>3, <1>4, <1>5, <1>6, <1>7 DEF Shows, Painted
  <1> QED BY <1>1, <1>8

\* The first place of an exchange is a place.
LEMMA IndexIs ==
    ASSUME NEW S, NEW t \in Seq(S), NEW id
    PROVE  Index(t, id) \in 0 .. Len(t)
  <1> DEFINE I == {i \in 1 .. Len(t) : t[i].id = id}
             R == OpToRel(<, Nat)
  <1>1. Index(t, id) = IF I # {} THEN Min(I) ELSE 0
    BY DEF Index, SelectInSeq
  <1>2. Len(t) \in Nat /\ I \subseteq 1 .. Len(t) /\ I \subseteq Nat
    OBVIOUS
  <1> HIDE DEF I
  <1>3. ASSUME I # {} PROVE Min(I) \in I
    <2>1. IsWellFoundedOn(R, Nat)
      BY NatLessThanWellFounded
    <2>2. \A x, y \in Nat : y < x => <<y, x>> \in R
      BY DEF OpToRel
    <2> HIDE DEF R
    <2>3. PICK x \in I : \A y \in I : ~ (<<y, x>> \in R)
      BY <1>2, <1>3, <2>1, WFMin
    <2>4. \A y \in I : x <= y
      <3>1. ASSUME NEW y \in I, ~(x <= y) PROVE FALSE
        <4>1. x \in Nat /\ y \in Nat /\ y < x
          BY <1>2, <3>1
        <4> QED BY <2>2, <2>3, <4>1
      <3> QED BY <3>1
    <2> QED BY <2>4 DEF Min
  <1>4. CASE I = {}
    <2>1. Index(t, id) = 0
      BY <1>1, <1>4
    <2> QED BY <1>2, <2>1
  <1>5. CASE I # {}
    <2>1. Index(t, id) = Min(I)
      BY <1>1, <1>5
    <2>2. Index(t, id) \in 1 .. Len(t)
      BY <1>2, <1>3, <1>5, <2>1
    <2> QED BY <1>2, <2>2
  <1> QED BY <1>4, <1>5

\* An exchange without an answer belongs to any Session.
LEMMA BlankIs ==
    ASSUME NEW s, NEW n \in Nat, NEW id \in (1 .. n) \cup {HistoryId}
    PROVE  Exchange(id) \in Exchanges(s, n) /\ Exchange(id).by = {} /\ Exchange(id).id = id
  <1>1. Single({})
    BY DEF Single
  <1> DEFINE A == (1 .. n) \cup {HistoryId}
             B == 1 .. n
             C == {s} \ {NoSession}
  <1>2. id \in A
    OBVIOUS
  <1> HIDE DEF A, B, C
  <1>3. Exchange(id) \in [id : A, by : SUBSET B, of : SUBSET C] /\ Exchange(id).by = {} /\ Exchange(id).id = id
    BY <1>2 DEF Exchange
  <1> QED BY <1>1, <1>3 DEF Exchanges, A, B, C

\* The first output of a regeneration blanks the old answer.
LEMMA BeginsBlank ==
    ASSUME NEW n \in Nat, NEW c, Shows(c, n)
    PROVE  \E d : d = RegenerationBegun(c) /\ Shows(d, n) /\ Writable(d) /\ Beside(c, d)
  <1> DEFINE t == c.transcript
             u == [i \in DOMAIN t |-> IF t[i].id = c.regeneration.id THEN Exchange(t[i].id) ELSE t[i]]
             S == Exchanges(c.selected, n)
             b == [c.regeneration EXCEPT !.begun = TRUE]
  <1>0. PICK d : d = RegenerationBegun(c)
    OBVIOUS
  <1>1. Beside(c, d)
    BY <1>0, ShowsBeside DEF Shows
  <1>2. CASE Writable(c)
    <2>1. d = c
      BY <1>0, <1>2 DEF RegenerationBegun, Writable
    <2> QED BY <1>0, <1>1, <1>2, <2>1
  <1>3. CASE ~Writable(c)
    <2>1. d = [c EXCEPT !.regeneration = b, !.pending = {}, !.transcript = u]
      BY <1>0, <1>3 DEF RegenerationBegun, Writable, Replaced
    <2>2. t \in Seq(S) /\ \A i \in DOMAIN t : t[i] \in S
      <3>1. t \in Seq(S)
        BY DEF Shows
      <3> HIDE DEF S, t
      <3> QED BY <3>1
    <2>3. \A i \in DOMAIN t : Exchange(t[i].id) \in S /\ Exchange(t[i].id).by = {} /\ Exchange(t[i].id).id = t[i].id
      <3> SUFFICES ASSUME NEW i \in DOMAIN t
                   PROVE  Exchange(t[i].id) \in S /\ Exchange(t[i].id).by = {} /\ Exchange(t[i].id).id = t[i].id
        OBVIOUS
      <3>1. t[i].id \in (1 .. n) \cup {HistoryId}
        BY <2>2 DEF Exchanges
      <3> QED BY <3>1, BlankIs
    <2>4. /\ c.regeneration \in Kept(c.selected, n) /\ c.regeneration # NoBackup /\ c.active # 0 /\ c.edit = NoBackup
          /\ c.regeneration.id = c.target /\ c.regeneration.kept # <<>> /\ c.edit \in Kept(c.selected, n)
      BY <1>3 DEF Shows, Backups, Writable
    <2>5. b \in Kept(c.selected, n) /\ b.begun /\ b.id = c.regeneration.id /\ b.kept = c.regeneration.kept /\ b # NoBackup
      <3> DEFINE A == (0 .. n) \cup {HistoryId}
                 K == Seq(Exchanges(c.selected, n))
      <3>1. c.regeneration \in [id : A, kept : K, begun : BOOLEAN]
        BY <2>4 DEF Kept
      <3> HIDE DEF A, K
      <3>2. b \in [id : A, kept : K, begun : BOOLEAN] /\ b.begun /\ b.id = c.regeneration.id /\ b.kept = c.regeneration.kept
        BY <3>1
      <3>3. b # NoBackup
        BY <3>2 DEF NoBackup
      <3> QED BY <3>2, <3>3 DEF Kept, A, K
    <2> HIDE DEF b, S, t
    <2>6. DOMAIN u = DOMAIN t /\ u = [i \in DOMAIN t |-> u[i]]
      OBVIOUS
    <2>7. \A i \in DOMAIN t : /\ u[i] \in S /\ u[i].id = t[i].id /\ u[i].by \subseteq t[i].by
                              /\ t[i].id = c.regeneration.id => u[i].by = {}
      BY <2>2, <2>3
    <2> HIDE DEF u
    <2>8. u \in Seq(S)
      BY <2>2, <2>6, <2>7, MappedIs
    <2>9. /\ d.regeneration = b /\ d.pending = {} /\ d.transcript = u /\ DOMAIN d = ChatFields
          /\ d.active = c.active /\ d.selected = c.selected /\ d.target = c.target /\ d.edit = c.edit
          /\ d.mismatched = c.mismatched
      BY <2>1 DEF Shows, ChatFields
    <2>10. Writable(d)
      BY <2>5, <2>9 DEF Writable
    <2>11. OwnText(d)
      <3>1. \A i \in DOMAIN t : t[i].id = c.active => t[i].by \subseteq {c.active}
        BY <2>4 DEF Shows, OwnText, t
      <3> SUFFICES ASSUME NEW i \in DOMAIN u, u[i].id = c.active \/ u[i].id = c.target
                   PROVE  u[i].by \subseteq {c.active}
        BY <2>9 DEF OwnText
      <3> QED BY <2>4, <2>6, <2>7, <3>1
    <2>12. Backups(d, n)
      BY <2>4, <2>5, <2>9 DEF Backups
    <2>13. Shows(d, n)
      BY <2>8, <2>9, <2>10, <2>11, <2>12 DEF Shows, S
    <2> QED BY <1>0, <1>1, <2>10, <2>13
  <1> QED BY <1>2, <1>3

\* The first output of an edit cuts the old branch.
LEMMA BeginsCut ==
    ASSUME NEW n \in Nat, NEW c, Shows(c, n), Writable(c)
    PROVE  \E d : d = EditBegun(c) /\ Shows(d, n) /\ Writable(d) /\ Beside(c, d)
  <1> DEFINE t == c.transcript
             i == Index(t, c.edit.id)
             u == Append(SubSeq(t, 1, i - 1), Exchange(c.active))
             S == Exchanges(c.selected, n)
             b == [c.edit EXCEPT !.begun = TRUE]
  <1>0. PICK d : d = EditBegun(c)
    OBVIOUS
  <1>1. Beside(c, d)
    BY <1>0, ShowsBeside DEF Shows
  <1>2. CASE c.edit = NoBackup \/ c.edit.begun \/ i = 0
    <2>1. d = c
      BY <1>0, <1>2 DEF EditBegun
    <2> QED BY <1>0, <1>1, <2>1
  <1>3. CASE ~(c.edit = NoBackup \/ c.edit.begun \/ i = 0)
    <2>1. d = [c EXCEPT !.edit = b, !.pending = {}, !.target = c.active, !.transcript = u]
      BY <1>0, <1>3 DEF EditBegun
    <2>2. /\ c.edit \in Kept(c.selected, n) /\ c.edit # NoBackup /\ c.active # 0 /\ c.regeneration = NoBackup
          /\ c.active \in 1 .. n /\ c.regeneration \in Kept(c.selected, n)
      BY <1>3 DEF Shows, Backups
    <2>3. Exchange(c.active) \in S /\ Exchange(c.active).by = {} /\ Exchange(c.active).id = c.active
      BY <2>2, BlankIs
    <2>4. t \in Seq(S)
      BY DEF Shows
    <2>5. i \in 1 .. Len(t)
      BY <1>3, <2>4, IndexIs
    <2>6. b \in Kept(c.selected, n) /\ b.begun /\ b # NoBackup
      <3> DEFINE A == (0 .. n) \cup {HistoryId}
                 K == Seq(Exchanges(c.selected, n))
      <3>1. c.edit \in [id : A, kept : K, begun : BOOLEAN]
        BY <2>2 DEF Kept
      <3> HIDE DEF A, K
      <3>2. b \in [id : A, kept : K, begun : BOOLEAN] /\ b.begun
        BY <3>1
      <3>3. b # NoBackup
        BY <3>2 DEF NoBackup
      <3> QED BY <3>2, <3>3 DEF Kept, A, K
    <2> HIDE DEF b, S, t, i
    <2>7. PICK v : v = SubSeq(t, 1, i - 1)
      OBVIOUS
    <2>8. v \in Seq(S) /\ \A j \in DOMAIN v : j \in DOMAIN t /\ v[j] = t[j]
      BY <2>4, <2>5, <2>7
    <2>9. PICK e : e = Exchange(c.active)
      OBVIOUS
    <2>10. u = Append(v, e) /\ e \in S
      BY <2>3, <2>7, <2>9
    <2>11. Append(v, e) \in Seq(S) /\ \A j \in DOMAIN Append(v, e) : Append(v, e)[j] = e \/ (j \in DOMAIN v /\ Append(v, e)[j] = v[j])
      BY <2>8, <2>10
    <2> HIDE DEF u
    <2>12. u \in Seq(S) /\ \A j \in DOMAIN u : (u[j].by = {} /\ u[j].id = c.active) \/ (j \in DOMAIN t /\ u[j] = t[j])
      BY <2>3, <2>8, <2>9, <2>10, <2>11
    <2>13. /\ d.edit = b /\ d.pending = {} /\ d.transcript = u /\ DOMAIN d = ChatFields
           /\ d.active = c.active /\ d.selected = c.selected /\ d.target = c.active
           /\ d.regeneration = c.regeneration /\ d.mismatched = c.mismatched
      BY <2>1 DEF Shows, ChatFields
    <2>14. Writable(d)
      BY <2>13 DEF Writable
    <2>15. OwnText(d)
      <3>1. \A j \in DOMAIN t : t[j].id = c.active => t[j].by \subseteq {c.active}
        BY <2>2 DEF Shows, OwnText, t
      <3> QED BY <2>12, <2>13, <3>1 DEF OwnText
    <2>16. Backups(d, n)
      BY <2>2, <2>6, <2>13 DEF Backups
    <2>17. Shows(d, n)
      BY <2>12, <2>13, <2>14, <2>15, <2>16 DEF Shows, S
    <2> QED BY <1>0, <1>1, <2>14, <2>17
  <1> QED BY <1>2, <1>3

\* A view that follows no Run shows what it shows.
LEMMA RestShows ==
    ASSUME NEW n \in Nat, NEW c, DOMAIN c = ChatFields, c.active = 0, c.mismatched = {}, c.pending = {},
           c.transcript \in Seq(Exchanges(c.selected, n)), c.regeneration = NoBackup, c.edit = NoBackup
    PROVE  Shows(c, n)
  <1>1. NoBackup \in Kept(c.selected, n)
    <2> DEFINE A == (0 .. n) \cup {HistoryId}
               K == Seq(Exchanges(c.selected, n))
    <2>1. 0 \in A /\ <<>> \in K
      OBVIOUS
    <2> HIDE DEF A, K
    <2>2. NoBackup \in [id : A, kept : K, begun : BOOLEAN]
      BY <2>1 DEF NoBackup, NoRequest
    <2> QED BY <2>2 DEF Kept, A, K
  <1>2. c.active \in 0 .. n /\ OwnText(c) /\ Writable(c)
    BY DEF OwnText, Writable
  <1>3. Backups(c, n)
    BY <1>1 DEF Backups
  <1> QED BY <1>2, <1>3 DEF Shows

\* The text gathered in c can be shown.
Paintable(c, n) ==
    /\ DOMAIN c = ChatFields /\ c.active \in 0 .. n /\ c.mismatched = {}
    /\ c.transcript \in Seq(Exchanges(c.selected, n))
    /\ c.pending \subseteq [req : {c.active} \ {0}, session : {c.selected} \ {NoSession}]
    /\ c.pending = {} \/ \A i \in DOMAIN c.transcript : c.transcript[i].id = c.target => c.transcript[i].by \subseteq {c.active}

LEMMA ShowsPaintable ==
    ASSUME NEW n \in Nat, NEW c, Shows(c, n)
    PROVE  Paintable(c, n)
  <1>1. c.pending # {} => c.active # 0 /\ Writable(c)
    BY DEF Shows
  <1> QED BY <1>1 DEF Paintable, Shows, OwnText

\* What a Run that did not complete replaced is shown again.
LEMMA RestoredShows ==
    ASSUME NEW n \in Nat, NEW c, Shows(c, n)
    PROVE  \E d : d = EditRestored(RegenerationRestored(c)) /\ Paintable(d, n)
  <1> DEFINE t == c.transcript
             old == c.regeneration.kept[1]
             u == [i \in DOMAIN t |-> IF t[i].id = c.regeneration.id THEN old ELSE t[i]]
             S == Exchanges(c.selected, n)
  <1>1. PICK g : g = RegenerationRestored(c)
    OBVIOUS
  <1>2. PICK d : d = EditRestored(g)
    OBVIOUS
  <1>3. CASE c.regeneration = NoBackup
    <2>1. g = c
      BY <1>1, <1>3 DEF RegenerationRestored
    <2>2. CASE c.edit = NoBackup
      <3>1. d = c
        BY <1>2, <2>1, <2>2 DEF EditRestored
      <3> QED BY <1>1, <1>2, <3>1, ShowsPaintable
    <2>3. CASE c.edit # NoBackup
      <3>1. d = [c EXCEPT !.transcript = c.edit.kept, !.pending = {}, !.target = NoRequest, !.edit = NoBackup]
        BY <1>2, <2>1, <2>3 DEF EditRestored
      <3>2. DOMAIN d = ChatFields /\ d.transcript = c.edit.kept /\ d.pending = {} /\ d.active = c.active
            /\ d.selected = c.selected /\ d.mismatched = c.mismatched
        BY <3>1 DEF Shows, ChatFields
      <3>3. c.edit.kept \in Seq(S)
        <4> DEFINE A == (0 .. n) \cup {HistoryId}
                   K == Seq(Exchanges(c.selected, n))
        <4>1. c.edit \in [id : A, kept : K, begun : BOOLEAN]
          BY DEF Shows, Backups, Kept
        <4> QED BY <4>1
      <3>4. Paintable(d, n)
        BY <3>2, <3>3 DEF Shows, Paintable
      <3> QED BY <1>1, <1>2, <3>4
    <2> QED BY <2>2, <2>3
  <1>4. CASE c.regeneration # NoBackup
    <2>1. g = [c EXCEPT !.transcript = u, !.pending = {}, !.target = NoRequest, !.regeneration = NoBackup]
      BY <1>1, <1>4 DEF RegenerationRestored, Replaced
    <2>2. c.edit = NoBackup /\ c.regeneration.kept \in Seq(S) /\ c.regeneration.kept # <<>> /\ t \in Seq(S)
      <3> DEFINE A == (0 .. n) \cup {HistoryId}
                 K == Seq(S)
      <3>1. c.regeneration \in [id : A, kept : K, begun : BOOLEAN]
        BY DEF Shows, Backups, Kept
      <3> QED BY <1>4, <3>1 DEF Shows, Backups
    <2> HIDE DEF S, t
    <2>3. old \in S /\ \A i \in DOMAIN t : t[i] \in S
      BY <2>2
    <2> HIDE DEF old
    <2>4. DOMAIN u = DOMAIN t /\ u = [i \in DOMAIN t |-> u[i]] /\ \A i \in DOMAIN t : u[i] \in S
      BY <2>3
    <2> HIDE DEF u
    <2>5. u \in Seq(S)
      BY <2>2, <2>4, MappedIs
    <2>6. /\ DOMAIN g = ChatFields /\ g.transcript = u /\ g.pending = {} /\ g.active = c.active /\ g.edit = c.edit
          /\ g.selected = c.selected /\ g.mismatched = c.mismatched
      BY <2>1 DEF Shows, ChatFields
    <2>7. d = g
      BY <1>2, <2>2, <2>6 DEF EditRestored
    <2>8. Paintable(d, n)
      BY <2>5, <2>6, <2>7 DEF Shows, Paintable, S
    <2> QED BY <1>1, <1>2, <2>8
  <1> QED BY <1>3, <1>4

LEMMA TerminatedShows ==
    ASSUME NEW n \in Nat, NEW c, Shows(c, n), NEW status
    PROVE  Shows(Terminated(c, status), n)
  <1>1. PICK k : k = (IF status = "completed" THEN c ELSE EditRestored(RegenerationRestored(c)))
    OBVIOUS
  <1>2. PICK f : f = Flushed(k)
    OBVIOUS
  <1>3. PICK d : d = Terminated(c, status)
    OBVIOUS
  <1>4. Paintable(k, n) /\ k.selected = c.selected
    <2>1. PICK e : e = EditRestored(RegenerationRestored(c)) /\ Paintable(e, n)
      BY RestoredShows
    <2>2. Paintable(c, n)
      BY ShowsPaintable
    <2>3. CASE status = "completed"
      BY <1>1, <2>2, <2>3
    <2>4. CASE status # "completed"
      <3>1. k = e
        BY <1>1, <2>1, <2>4
      <3>2. e.selected = c.selected
        <4>1. PICK g : g = RegenerationRestored(c)
          OBVIOUS
        <4>2. Beside(c, g)
          BY <4>1, ShowsBeside DEF Shows
        <4>3. Beside(g, e)
          BY <2>1, <4>1, <4>2, ShowsBeside DEF Beside
        <4> QED BY <4>2, <4>3 DEF Beside
      <3> QED BY <2>1, <3>1, <3>2
    <2> QED BY <2>3, <2>4
  <1>5. Painted(k, f, n)
    BY <1>2, <1>4, FlushPaints DEF Paintable
  <1>6. d = [f EXCEPT !.status = "ended", !.active = NoRequest, !.regeneration = NoBackup, !.edit = NoBackup]
    BY <1>1, <1>2, <1>3 DEF Terminated
  <1>7. DOMAIN f = ChatFields /\ f.selected = k.selected /\ f.mismatched = k.mismatched
    BY <1>5 DEF Painted, ChatFields
  <1>8. /\ DOMAIN d = ChatFields /\ d.active = 0 /\ d.regeneration = NoBackup /\ d.edit = NoBackup
        /\ d.transcript = f.transcript /\ d.pending = f.pending /\ d.selected = f.selected /\ d.mismatched = f.mismatched
    BY <1>6, <1>7 DEF ChatFields, NoRequest
  <1>9. Shows(d, n)
    BY <1>4, <1>5, <1>7, <1>8, RestShows DEF Painted, Paintable
  <1> QED BY <1>3, <1>9

\* The view's next step leaves what is shown, or gives a name to the Session it is of.
LEMMA SameShowKeeps ==
    ASSUME TalkInv, Shows(chat, issued), issued' \in {issued, issued + 1}, SameShow(chat, chat'),
           chat.selected = NoSession \/ chat.selected = chat'.selected
    PROVE  Shows(chat', issued')
  <1>1. issued \in Nat /\ issued' \in Nat /\ issued <= issued'
    BY ChatIs
  <1> QED BY <1>1, ShowsOn

\* A new exchange awaits its answer.
NewExchange(d) ==
    /\ d.transcript = Append(chat.transcript, Exchange(issued + 1)) /\ d.target = issued + 1
    /\ d.regeneration = chat.regeneration /\ d.edit = chat.edit
\* One of the transcript awaits another one; it is kept.
OldExchange(d) ==
    /\ d.transcript = chat.transcript /\ chat.transcript # <<>> /\ d.target = Last(chat.transcript).id
    /\ d.regeneration = [id |-> Last(chat.transcript).id, kept |-> <<Last(chat.transcript)>>, begun |-> FALSE]
    /\ d.edit = chat.edit
\* The branch from one on is to be replaced; the transcript is kept.
OldBranch(d) ==
    /\ d.transcript = chat.transcript /\ d.target = 0 /\ d.regeneration = chat.regeneration
    /\ \E i \in DOMAIN chat.transcript :
          d.edit = [id |-> chat.transcript[i].id, kept |-> chat.transcript, begun |-> FALSE]

LEMMA QuestionShows ==
    ASSUME TalkInv, Shows(chat, issued), Create, NEW d, DOMAIN d = ChatFields, chat.active = 0,
           d.active = issued + 1, d.mismatched = chat.mismatched, d.selected = chat.selected, d.pending = {},
           NewExchange(d) \/ OldExchange(d) \/ OldBranch(d)
    PROVE  Shows(d, issued + 1)
  <1> DEFINE n == issued
             m == issued + 1
             t == chat.transcript
             S == Exchanges(chat.selected, m)
             K == Kept(chat.selected, m)
  <1>1. n \in Nat /\ m \in Nat /\ n <= m /\ m < HistoryId /\ m \in 1 .. m /\ m \in 0 .. m /\ HistoryId # 0
        /\ HistoryId # m /\ \A i \in 1 .. n : i # m /\ i # 0
    <2>1. issued < MaxRequests /\ MaxRequests \in Nat /\ issued \in Nat
      BY ChatIs, RequestsAssumption DEF Create
    <2> QED BY <2>1 DEF HistoryId
  <1>2. t \in Seq(S) /\ chat.regeneration \in K /\ chat.edit \in K /\ chat.regeneration = NoBackup /\ chat.edit = NoBackup
        /\ d.mismatched = {}
    <2>1. Seq(Exchanges(chat.selected, n)) \subseteq Seq(S) /\ Kept(chat.selected, n) \subseteq K
      BY <1>1, ExchangesGrow
    <2> QED BY <2>1 DEF Shows, Backups
  <1>3. \A i \in DOMAIN t : t[i] \in S /\ t[i].id \in (1 .. n) \cup {HistoryId} /\ t[i].id # m /\ t[i].id # 0
    <2>1. \A i \in DOMAIN t : t[i] \in Exchanges(chat.selected, n)
      <3> DEFINE E == Exchanges(chat.selected, n)
      <3>1. t \in Seq(E)
        BY DEF Shows
      <3> HIDE DEF E, t
      <3> QED BY <3>1 DEF E
    <2>2. \A i \in DOMAIN t : t[i].id \in (1 .. n) \cup {HistoryId}
      BY <2>1 DEF Exchanges
    <2>3. \A i \in DOMAIN t : t[i] \in S
      <3>1. Exchanges(chat.selected, n) \subseteq S
        BY <1>1, ExchangesGrow
      <3> QED BY <2>1, <3>1
    <2> QED BY <1>1, <2>2, <2>3
  <1>4. ASSUME NEW id \in (1 .. n) \cup {HistoryId}, NEW k \in Seq(S)
        PROVE  LET b == [id |-> id, kept |-> k, begun |-> FALSE] IN b \in K /\ b.id = id /\ b.kept = k /\ b.begun = FALSE
    <2> DEFINE A == (0 .. m) \cup {HistoryId}
               L == Seq(S)
    <2>1. id \in A /\ k \in L
      BY <1>1, <1>4
    <2>2. K = [id : A, kept : L, begun : BOOLEAN]
      BY DEF Kept
    <2> HIDE DEF A, L, K
    <2> QED BY <2>1, <2>2
  <1>5. ASSUME d.transcript \in Seq(S), d.regeneration \in K, d.edit \in K, OwnText(d),
               d.regeneration # NoBackup => d.edit = NoBackup /\ d.regeneration.id = d.target /\ d.regeneration.kept # <<>>
        PROVE  Shows(d, m)
    <2>1. d.active # 0 /\ d.active \in 0 .. m
      BY <1>1
    <2>2. Backups(d, m)
      BY <1>5, <2>1 DEF Backups
    <2> QED BY <1>2, <1>5, <2>1, <2>2 DEF Shows
  <1> HIDE DEF m, n, t
  <1>6. CASE NewExchange(d)
    <2>1. PICK e : e = Exchange(m)
      OBVIOUS
    <2>2. e \in S /\ e.by = {} /\ e.id = m
      BY <1>1, <2>1, BlankIs
    <2>3. PICK u : u = Append(t, e)
      OBVIOUS
    <2> HIDE DEF S, K
    <2>4. u \in Seq(S) /\ \A j \in DOMAIN u : u[j] = e \/ (j \in DOMAIN t /\ u[j] = t[j])
      BY <1>2, <2>2, <2>3
    <2>5. d.transcript = u /\ d.target = m /\ d.regeneration = NoBackup /\ d.edit = NoBackup /\ d.active = m
      BY <1>2, <1>6, <2>1, <2>3 DEF NewExchange, t, m
    <2>6. OwnText(d)
      BY <1>3, <2>2, <2>4, <2>5 DEF OwnText
    <2> QED BY <1>2, <1>5, <2>4, <2>5, <2>6 DEF m
  <1>7. CASE OldExchange(d)
    <2> HIDE DEF S, K
    <2>1. PICK e : e = Last(t)
      OBVIOUS
    <2>2. t # <<>> /\ Len(t) \in DOMAIN t /\ e = t[Len(t)]
      BY <1>2, <1>7, <2>1 DEF OldExchange, t, Last
    <2>3. <<e>> \in Seq(S) /\ <<e>> # <<>> /\ e.id \in (1 .. n) \cup {HistoryId} /\ e.id # 0
      BY <1>3, <2>2
    <2>4. PICK b : b = [id |-> e.id, kept |-> <<e>>, begun |-> FALSE]
      OBVIOUS
    <2>5. b \in K /\ b.id = e.id /\ b.kept # <<>> /\ b.begun = FALSE
      BY <1>4, <2>3, <2>4
    <2>6. b # NoBackup
      BY <2>3, <2>5 DEF NoBackup, NoRequest
    <2>7. d.transcript = t /\ d.target = e.id /\ d.regeneration = b /\ d.edit = NoBackup /\ d.active = m
      BY <1>2, <1>7, <2>1, <2>4 DEF OldExchange, t, m
    <2>8. ~Writable(d)
      BY <2>5, <2>6, <2>7 DEF Writable
    <2>9. OwnText(d)
      BY <1>3, <2>7, <2>8 DEF OwnText
    <2> QED BY <1>2, <1>5, <2>5, <2>7, <2>9 DEF m
  <1>8. CASE OldBranch(d)
    <2> HIDE DEF S, K
    <2>1. PICK i \in DOMAIN t : d.edit = [id |-> t[i].id, kept |-> t, begun |-> FALSE]
      BY <1>8 DEF OldBranch, t
    <2>2. d.edit \in K
      <3>1. PICK id : id = t[i].id
        OBVIOUS
      <3>2. id \in (1 .. n) \cup {HistoryId} /\ t \in Seq(S)
        BY <1>2, <1>3, <3>1
      <3>3. [id |-> id, kept |-> t, begun |-> FALSE] \in K
        BY <1>4, <3>2
      <3> QED BY <2>1, <3>1, <3>3
    <2>3. d.transcript = t /\ d.target = 0 /\ d.regeneration = NoBackup /\ d.active = m
      BY <1>2, <1>8 DEF OldBranch, t, m
    <2>4. OwnText(d)
      BY <1>3, <2>3 DEF OwnText
    <2> QED BY <1>2, <1>5, <2>2, <2>3, <2>4 DEF m
  <1> QED BY <1>6, <1>7, <1>8

LEMMA UserActsShow ==
    ASSUME TalkInv, Shows(chat, issued), UserActs
    PROVE  Shows(chat', issued')
  <1>1. DOMAIN chat = ChatFields /\ Next1 = issued + 1
    BY ChatIs DEF Next1
  <1> DEFINE f == Following(chat)
             n == NoReplacement(chat)
  <1>2. /\ DOMAIN f = ChatFields /\ f.active = issued + 1 /\ f.pending = {} /\ f.mismatched = chat.mismatched
        /\ f.selected = chat.selected /\ f.transcript = chat.transcript /\ f.target = chat.target
        /\ f.regeneration = chat.regeneration /\ f.edit = chat.edit
    BY <1>1 DEF Following, ChatFields
  <1>3. /\ DOMAIN n = ChatFields /\ n.active = chat.active /\ n.pending = chat.pending /\ n.mismatched = chat.mismatched
        /\ n.selected = chat.selected /\ n.transcript = chat.transcript /\ n.target = chat.target
        /\ n.regeneration = NoBackup /\ n.edit = NoBackup
    BY <1>1 DEF NoReplacement, ChatFields
  <1> HIDE DEF f, n
  <1>4. ASSUME Create, MayRun, DOMAIN chat' = ChatFields, chat'.active = f.active, chat'.pending = {},
               chat'.mismatched = chat.mismatched, chat'.selected = chat.selected,
               NewExchange(chat') \/ OldExchange(chat') \/ OldBranch(chat')
        PROVE  Shows(chat', issued')
    <2>1. chat.active = 0 /\ issued' = issued + 1
      BY <1>4 DEF MayRun, Unoccupied, NoRequest, Create, Next1
    <2>2. chat'.active = issued + 1
      BY <1>2, <1>4
    <2> QED BY <1>4, <2>1, <2>2, QuestionShows
  <1>5. CASE Submit
    <2> DEFINE u == Append(chat.transcript, Exchange(issued + 1))
    <2>1. Create /\ MayRun /\ chat' = [f EXCEPT !.transcript = u, !.target = issued + 1]
      BY <1>1, <1>2, <1>5 DEF Submit, Send, f
    <2> HIDE DEF u
    <2>2. /\ DOMAIN chat' = ChatFields /\ chat'.active = f.active /\ chat'.pending = {} /\ chat'.mismatched = chat.mismatched
          /\ chat'.selected = chat.selected /\ chat'.transcript = u /\ chat'.target = issued + 1
          /\ chat'.regeneration = chat.regeneration /\ chat'.edit = chat.edit
      BY <1>2, <2>1 DEF ChatFields
    <2>3. NewExchange(chat')
      BY <2>2 DEF NewExchange, u
    <2> QED BY <1>4, <2>1, <2>2, <2>3
  <1>6. CASE Regenerate
    <2> DEFINE old == Last(chat.transcript)
               b == [id |-> old.id, kept |-> <<old>>, begun |-> FALSE]
    <2>1. Create /\ MayRun /\ chat.transcript # <<>> /\ chat' = [f EXCEPT !.target = old.id, !.regeneration = b]
      BY <1>6 DEF Regenerate, Send, f
    <2> HIDE DEF old, b
    <2>2. /\ DOMAIN chat' = ChatFields /\ chat'.active = f.active /\ chat'.pending = {} /\ chat'.mismatched = chat.mismatched
          /\ chat'.selected = chat.selected /\ chat'.transcript = chat.transcript /\ chat'.target = old.id
          /\ chat'.regeneration = b /\ chat'.edit = chat.edit
      BY <1>2, <2>1 DEF ChatFields
    <2>3. OldExchange(chat')
      BY <2>1, <2>2 DEF OldExchange, old, b
    <2> QED BY <1>4, <2>1, <2>2, <2>3
  <1>7. CASE EditMessage
    <2>1. Create /\ MayRun
      BY <1>7 DEF EditMessage
    <2>2. PICK i \in DOMAIN chat.transcript :
             chat' = [f EXCEPT !.target = NoRequest,
                        !.edit = [id |-> chat.transcript[i].id, kept |-> chat.transcript, begun |-> FALSE]]
      BY <1>7 DEF EditMessage, Send, f
    <2> DEFINE b == [id |-> chat.transcript[i].id, kept |-> chat.transcript, begun |-> FALSE]
    <2>3. chat' = [f EXCEPT !.target = NoRequest, !.edit = b]
      BY <2>2
    <2> HIDE DEF b
    <2>4. /\ DOMAIN chat' = ChatFields /\ chat'.active = f.active /\ chat'.pending = {} /\ chat'.mismatched = chat.mismatched
          /\ chat'.selected = chat.selected /\ chat'.transcript = chat.transcript /\ chat'.target = 0
          /\ chat'.regeneration = chat.regeneration /\ chat'.edit = b
      BY <1>2, <2>3 DEF ChatFields, NoRequest
    <2>5. OldBranch(chat')
      BY <2>4 DEF OldBranch, b
    <2> QED BY <1>4, <2>1, <2>4, <2>5
  <1>8. CASE NewChat
    <2>1. /\ chat' = [n EXCEPT
                !.transcript = <<>>, !.status = "ended", !.pending = {},
                !.target = NoRequest, !.list = NoRequest,
                !.restoreTarget = NoSession, !.delete = NoRequest,
                !.deleteTarget = NoSession, !.clear = NoRequest, !.mismatched = {},
                !.selected = NoSession, !.selection = NoSession, !.readOnly = FALSE]
          /\ chat.active = 0 /\ Create
      BY <1>8 DEF NewChat, Send, Unoccupied, NoRequest, n
    <2>2. /\ DOMAIN chat' = ChatFields /\ chat'.active = 0 /\ chat'.mismatched = {} /\ chat'.pending = {}
          /\ chat'.transcript = <<>> /\ chat'.regeneration = NoBackup /\ chat'.edit = NoBackup
      BY <1>3, <2>1 DEF ChatFields
    <2>3. issued' \in Nat /\ <<>> \in Seq(Exchanges(chat'.selected, issued'))
      BY <2>1, Counted
    <2> QED BY <2>2, <2>3, RestShows
  <1>9. CASE SelectSession
    <2>1. chat.active = 0 /\ issued' = issued
      BY <1>9 DEF SelectSession, Unoccupied, NoRequest
    <2>2. PICK s : chat' = [n EXCEPT !.selection = s, !.switching = s # chat.selected]
      BY <1>9 DEF SelectSession, Send, n
    <2>3. chat.regeneration = NoBackup /\ chat.edit = NoBackup
      BY <2>1 DEF Shows, Backups
    <2>4. /\ DOMAIN chat' = ChatFields /\ chat'.active = n.active /\ chat'.mismatched = n.mismatched
          /\ chat'.transcript = n.transcript /\ chat'.target = n.target /\ chat'.pending = n.pending
          /\ chat'.regeneration = n.regeneration /\ chat'.edit = n.edit /\ chat'.selected = n.selected
      BY <1>3, <2>2 DEF ChatFields
    <2>5. SameShow(chat, chat')
      BY <1>3, <2>3, <2>4 DEF SameShow
    <2> QED BY <1>3, <2>1, <2>4, <2>5, SameShowKeeps
  <1>10. CASE Cancel \/ LoadSessions \/ RestoreSelectedSession \/ DeleteSession \/ ClearSessions \/ ClearLocalData
    <2>1. /\ issued' = issued \/ Create
          /\ \/ chat' = chat
             \/ chat' = [chat EXCEPT !.list = Next1]
             \/ chat' = [chat EXCEPT !.list = NoRequest, !.restore = Next1, !.restoreTarget = chat.selection]
             \/ chat' = [chat EXCEPT !.list = NoRequest, !.delete = Next1, !.deleteTarget = chat.selection, !.mutating = TRUE]
             \/ chat' = [chat EXCEPT !.list = NoRequest, !.clear = Next1, !.mutating = TRUE]
             \/ chat' = [chat EXCEPT !.list = NoRequest, !.reset = Next1, !.mutating = TRUE]
      BY <1>10 DEF Cancel, LoadSessions, RestoreSelectedSession, DeleteSession, ClearSessions, ClearLocalData, Send
    <2>2. SameShow(chat, chat') /\ chat'.selected = chat.selected
      BY <1>1, <2>1 DEF SameShow, ChatFields
    <2> QED BY <1>1, <2>1, <2>2, SameShowKeeps DEF Create
  <1> QED BY <1>5, <1>6, <1>7, <1>8, <1>9, <1>10 DEF UserActs

\* Nothing is shown, or what was, when a deletion or a clearing has been answered.
LEMMA ClearedShows ==
    ASSUME TalkInv, Shows(chat, issued), issued' \in {issued, issued + 1}, NEW s, NEW d, Cleared(chat, s, d),
           SameShow(d, chat'), chat'.selected = d.selected
    PROVE  Shows(chat', issued')
  <1>1. CASE Clears(chat, s)
    <2>1. issued' \in Nat /\ <<>> \in Seq(Exchanges(chat'.selected, issued'))
      BY ChatIs
    <2>2. chat.mismatched = {}
      BY DEF Shows
    <2>3. /\ DOMAIN chat' = ChatFields /\ chat'.active = 0 /\ chat'.mismatched = {} /\ chat'.pending = {}
          /\ chat'.transcript = <<>> /\ chat'.regeneration = NoBackup /\ chat'.edit = NoBackup
      BY <1>1, <2>2 DEF Cleared, SameShow
    <2> QED BY <2>1, <2>3, RestShows
  <1>2. CASE ~Clears(chat, s)
    <2>1. SameShow(chat, chat') /\ chat'.selected = chat.selected
      BY <1>2 DEF Cleared, SameShow
    <2> QED BY <2>1, SameShowKeeps
  <1> QED BY <1>1, <1>2

LEMMA AnswersShow ==
    ASSUME TalkInv, Shows(chat, issued),
           ReceiveSessionDeleted \/ ReceiveSessionsCleared \/ ReceiveDeletionError \/ ReceiveResetResult
    PROVE  Shows(chat', issued')
  <1>1. DOMAIN chat = ChatFields /\ Next1 = issued + 1
    BY ChatIs DEF Next1
  <1>2. CASE ReceiveSessionDeleted \/ ReceiveSessionsCleared
             \/ (ReceiveResetResult /\ Incoming.status # "cancelled")
    <2>1. PICK s : \/ chat' = [Reset(chat, s) EXCEPT !.delete = NoRequest, !.deleteTarget = NoSession,
                                  !.list = NoRequest, !.mutating = FALSE]
                   \/ chat' = [Reset(chat, s) EXCEPT !.clear = NoRequest, !.delete = NoRequest, !.deleteTarget = NoSession,
                                  !.list = NoRequest, !.mutating = FALSE]
                   \/ chat' = [Reset(chat, s) EXCEPT !.reset = NoRequest, !.clear = NoRequest, !.delete = NoRequest,
                                  !.deleteTarget = NoSession, !.list = NoRequest, !.mutating = FALSE]
      BY <1>2 DEF ReceiveSessionDeleted, ReceiveSessionsCleared, ReceiveResetResult, Becomes
    <2>2. issued' = issued
      BY <1>2 DEF ReceiveSessionDeleted, ReceiveSessionsCleared, ReceiveResetResult, Becomes
    <2> DEFINE d == Reset(chat, s)
    <2>3. Cleared(chat, s, d)
      BY <1>1, ResetLeaves
    <2>4. \/ chat' = [d EXCEPT !.delete = NoRequest, !.deleteTarget = NoSession, !.list = NoRequest, !.mutating = FALSE]
          \/ chat' = [d EXCEPT !.clear = NoRequest, !.delete = NoRequest, !.deleteTarget = NoSession,
                               !.list = NoRequest, !.mutating = FALSE]
          \/ chat' = [d EXCEPT !.reset = NoRequest, !.clear = NoRequest, !.delete = NoRequest,
                               !.deleteTarget = NoSession, !.list = NoRequest, !.mutating = FALSE]
      BY <2>1
    <2> HIDE DEF d
    <2>5. DOMAIN d = ChatFields
      BY <2>3 DEF Cleared
    <2>6. SameShow(d, chat') /\ chat'.selected = d.selected
      BY <2>4, <2>5 DEF SameShow, ChatFields
    <2> QED BY <2>2, <2>3, <2>6, ClearedShows
  <1>3. CASE ReceiveResetResult /\ Incoming.status = "cancelled"
    <2>1. chat' = [chat EXCEPT !.reset = NoRequest, !.mutating = FALSE] /\ issued' = issued
      BY <1>3 DEF ReceiveResetResult, Becomes
    <2>2. SameShow(chat, chat') /\ chat'.selected = chat.selected
      BY <1>1, <2>1 DEF SameShow, ChatFields
    <2> QED BY <2>1, <2>2, SameShowKeeps
  <1>4. CASE ReceiveDeletionError
    <2> DEFINE s == IF chat.clear # NoRequest THEN NoSession ELSE chat.deleteTarget
               after == IF Incoming.status # "partial" THEN chat ELSE Reset(chat, s)
               settled == [after EXCEPT !.delete = NoRequest, !.deleteTarget = NoSession,
                                        !.clear = NoRequest, !.mutating = FALSE]
    <2>1. \/ chat' = settled /\ issued' = issued
          \/ chat' = [settled EXCEPT !.list = Next1] /\ issued' = issued + 1
      BY <1>1, <1>4 DEF ReceiveDeletionError, Becomes
    <2> HIDE DEF s
    <2>2. after = chat \/ after = Reset(chat, s)
      OBVIOUS
    <2> HIDE DEF after
    <2>3. after = chat \/ Cleared(chat, s, after)
      BY <1>1, <2>2, ResetLeaves
    <2>4. DOMAIN after = ChatFields
      BY <1>1, <2>3 DEF Cleared
    <2>5. SameShow(after, settled) /\ settled.selected = after.selected /\ DOMAIN settled = ChatFields
      BY <2>4 DEF SameShow, ChatFields
    <2> HIDE DEF settled
    <2>6. SameShow(after, chat') /\ chat'.selected = after.selected
      BY <2>1, <2>5 DEF SameShow, ChatFields
    <2> QED BY <2>1, <2>3, <2>6, SameShowKeeps, ClearedShows
  <1> QED BY <1>2, <1>3, <1>4

\* A restored Session is shown instead of what was, of which no Run is followed.
LEMMA RestoredSessionShows ==
    ASSUME TalkInv, Shows(chat, issued), ReceiveSessionRestored, UNCHANGED hostVars
    PROVE  Shows(chat', issued')
  <1> DEFINE s == Incoming.session
             over == [chat EXCEPT !.restore = NoRequest, !.restoreTarget = NoSession]
             full == [over EXCEPT
                        !.transcript = <<RestoredExchange(s)>>, !.pending = {},
                        !.target = NoRequest, !.status = "ended",
                        !.selected = s, !.selection = s, !.switching = FALSE,
                        !.readOnly = s \in Legacy]
  <1>1. /\ toView # <<>> /\ toView' = Tail(toView) /\ Incoming.req = chat.restore /\ issued' = issued
        /\ chat' = over \/ (s = chat.restoreTarget /\ chat' = full)
    BY DEF ReceiveSessionRestored, Takes, Becomes
  <1>2. DOMAIN chat = ChatFields /\ issued \in Nat
    BY ChatIs
  <1>3. chat.active = 0 /\ chat.restoreTarget # NoSession
    <2>1. Incoming.req # 0
      BY <1>1, IncomingIs
    <2> QED BY <1>1, <2>1, ChatIs DEF OneMutation
  <1>4. chat.regeneration = NoBackup /\ chat.edit = NoBackup /\ chat.mismatched = {}
    BY <1>3 DEF Shows, Backups
  <1>5. SameShow(chat, over) /\ over.selected = chat.selected
    BY <1>2 DEF SameShow, ChatFields
  <1> HIDE DEF over, s
  <1>6. CASE chat' = over
    BY <1>1, <1>5, <1>6, SameShowKeeps
  <1>7. CASE s = chat.restoreTarget /\ chat' = full
    <2>1. PICK e : e = RestoredExchange(s)
      OBVIOUS
    <2>2. DOMAIN over = ChatFields /\ over.active = 0 /\ over.regeneration = NoBackup /\ over.edit = NoBackup
          /\ over.mismatched = {}
      BY <1>3, <1>4, <1>5 DEF SameShow
    <2>3. chat' = [over EXCEPT !.transcript = <<e>>, !.pending = {}, !.target = NoRequest, !.status = "ended",
                        !.selected = s, !.selection = s, !.switching = FALSE, !.readOnly = s \in Legacy]
      BY <1>7, <2>1
    <2>4. /\ DOMAIN chat' = ChatFields /\ chat'.active = 0 /\ chat'.regeneration = NoBackup /\ chat'.edit = NoBackup
          /\ chat'.mismatched = {} /\ chat'.pending = {} /\ chat'.transcript = <<e>> /\ chat'.selected = s
      BY <2>2, <2>3 DEF ChatFields
    <2>5. e \in Exchanges(s, issued)
      <3> DEFINE A == (1 .. issued) \cup {HistoryId}
                 B == 1 .. issued
                 C == {s} \ {NoSession}
      <3>1. HistoryId \in A /\ s \in C
        BY <1>3, <1>7
      <3> HIDE DEF A, B, C
      <3>2. e \in [id : A, by : SUBSET B, of : SUBSET C] /\ e.by = {}
        BY <2>1, <3>1 DEF RestoredExchange
      <3>3. Single(e.by)
        BY <3>2 DEF Single
      <3> QED BY <3>2, <3>3 DEF Exchanges, A, B, C
    <2>6. <<e>> \in Seq(Exchanges(s, issued))
      BY <2>5
    <2>7. Shows(chat', issued)
      BY <1>2, <2>4, <2>6, RestShows
    <2> QED BY <1>1, <2>7
  <1> QED BY <1>1, <1>6, <1>7

\* Text is of the followed Run and of the Session that is shown, for its start was heard.
LEMMA TextShows ==
    ASSUME TalkInv, StartsFirst, Shows(chat, issued), ReceiveText, UNCHANGED hostVars
    PROVE  Shows(chat', issued')
  <1>1. /\ toView # <<>> /\ toView' = Tail(toView) /\ Incoming.type = "text-delta" /\ Incoming.req = chat.active
        /\ issued' = issued
    BY DEF ReceiveText, Takes, Becomes, Followed
  <1>2. issued \in Nat /\ toView \in Seq(Messages(AnySession))
    BY ChatIs, Channels DEF TalkInv
  <1>3. Incoming \in ToSet(toView) /\ Incoming.req # 0
    BY <1>1, IncomingIs
  <1>4. chat.selected # NoSession
    <2>1. 1 \in DOMAIN toView /\ toView[1] = Incoming /\ DOMAIN toView \subseteq Nat
      BY <1>1, <1>2 DEF Incoming
    <2>2. \A j \in DOMAIN toView : ~(j < 1)
      <3>1. \A j \in DOMAIN toView : j \in Nat /\ 1 <= j
        BY <1>2
      <3> QED BY <3>1
    <2>3. ~LedBy(toView, chat.active)
      BY <1>1, <2>1, <2>2 DEF LedBy
    <2> QED BY <2>3 DEF StartsFirst
  <1>5. Incoming.session = chat.selected
    BY <1>1, <1>3, <1>4 DEF TalkInv, FollowInv, WordsAgree, IsWord, Words
  <1>6. PICK r : r = RegenerationBegun(chat) /\ Shows(r, issued) /\ Writable(r) /\ Beside(chat, r)
    BY <1>2, BeginsBlank
  <1>7. PICK e : e = EditBegun(r) /\ Shows(e, issued) /\ Writable(e) /\ Beside(r, e)
    BY <1>2, <1>6, BeginsCut
  <1> DEFINE p == [req |-> Incoming.req, session |-> Incoming.session]
             q == e.pending \cup {p}
  <1>8. chat' = [e EXCEPT !.pending = q]
    BY <1>6, <1>7 DEF ReceiveText, Becomes
  <1>9. e.active = chat.active /\ e.selected = chat.selected /\ DOMAIN e = ChatFields
    BY <1>6, <1>7 DEF Beside
  <1>10. q \subseteq [req : {e.active} \ {0}, session : {e.selected} \ {NoSession}]
    <2>1. e.pending \subseteq [req : {e.active} \ {0}, session : {e.selected} \ {NoSession}]
      BY <1>7 DEF Shows
    <2>2. p \in [req : {e.active} \ {0}, session : {e.selected} \ {NoSession}]
      BY <1>1, <1>3, <1>4, <1>5, <1>9
    <2> QED BY <2>1, <2>2
  <1> HIDE DEF p, q
  <1>11. PICK d : d = chat'
    OBVIOUS
  <1>12. /\ DOMAIN d = ChatFields /\ d.active = e.active /\ d.mismatched = e.mismatched /\ d.selected = e.selected
         /\ d.transcript = e.transcript /\ d.target = e.target /\ d.pending = q
         /\ d.regeneration = e.regeneration /\ d.edit = e.edit
    BY <1>8, <1>9, <1>11 DEF ChatFields
  <1>13. Writable(d)
    BY <1>7, <1>12 DEF Writable
  <1>14. OwnText(d)
    BY <1>7, <1>12, <1>13 DEF Shows, OwnText
  <1>15. Backups(d, issued)
    BY <1>7, <1>12 DEF Shows, Backups
  <1>16. Shows(d, issued)
    BY <1>7, <1>10, <1>12, <1>13, <1>14, <1>15 DEF Shows
  <1> QED BY <1>1, <1>11, <1>16

LEMMA ReceiveShows ==
    ASSUME TalkInv, StartsFirst, Shows(chat, issued), Receive, UNCHANGED hostVars
    PROVE  Shows(chat', issued')
  <1>1. DOMAIN chat = ChatFields /\ issued \in Nat /\ chat.mismatched = {}
    BY ChatIs DEF Shows
  <1>2. CASE ReceiveSessionStarted
    <2>1. /\ toView # <<>> /\ toView' = Tail(toView) /\ Incoming.type = "session-started" /\ Incoming.req = chat.active
          /\ issued' = issued
      BY <1>2 DEF ReceiveSessionStarted, Takes, Becomes
    <2>2. Incoming \in ToSet(toView)
      BY <2>1, IncomingIs
    <2>3. chat.selected \in {NoSession, Incoming.session}
      BY <2>1, <2>2 DEF TalkInv, FollowInv, WordsAgree, IsWord, Words
    <2>4. chat' = [chat EXCEPT !.selected = Incoming.session, !.selection = Incoming.session, !.switching = FALSE,
                               !.readOnly = FALSE]
      BY <1>2, <2>3 DEF ReceiveSessionStarted, Becomes
    <2>5. SameShow(chat, chat') /\ chat'.selected = Incoming.session
      BY <1>1, <2>4 DEF SameShow, ChatFields
    <2> QED BY <2>1, <2>3, <2>5, SameShowKeeps
  <1>3. CASE ReceiveSessionList \/ ReceiveSessionError \/ IgnoreMessage
    <2>1. /\ issued' = issued
          /\ \/ chat' = chat
             \/ chat' = [chat EXCEPT !.list = NoRequest]
             \/ chat' = [chat EXCEPT !.restore = NoRequest, !.restoreTarget = NoSession]
             \/ \E s : chat' = [chat EXCEPT !.list = NoRequest, !.sessions = Incoming.sessions,
                                            !.selection = s, !.switching = s # chat.selected]
      BY <1>3 DEF ReceiveSessionList, ReceiveSessionError, IgnoreMessage, Becomes
    <2>2. SameShow(chat, chat') /\ chat'.selected = chat.selected
      BY <1>1, <2>1 DEF SameShow, ChatFields
    <2> QED BY <2>1, <2>2, SameShowKeeps
  <1>4. CASE ReceiveRunStatus
    <2>1. ~Fenced
      BY <1>1 DEF Fenced
    <2>2. /\ issued' = issued
          /\ \/ chat' = [chat EXCEPT !.status = "working"]
             \/ \E status : chat' = Terminated(chat, status)
      BY <1>4, <2>1 DEF ReceiveRunStatus, Becomes
    <2>3. CASE chat' = [chat EXCEPT !.status = "working"]
      <3>1. SameShow(chat, chat') /\ chat'.selected = chat.selected
        BY <1>1, <2>3 DEF SameShow, ChatFields
      <3> QED BY <2>2, <3>1, SameShowKeeps
    <2>4. CASE \E status : chat' = Terminated(chat, status)
      BY <1>1, <2>2, <2>4, TerminatedShows
    <2> QED BY <2>2, <2>3, <2>4
  <1>5. CASE ReceiveSessionRestored
    BY <1>5, RestoredSessionShows
  <1>6. CASE ReceiveText
    BY <1>6, TextShows
  <1>7. CASE ReceiveSessionDeleted \/ ReceiveSessionsCleared \/ ReceiveDeletionError \/ ReceiveResetResult
    BY <1>7, AnswersShow
  <1> QED BY <1>2, <1>3, <1>4, <1>5, <1>6, <1>7 DEF Receive

-----------------------------------------------------------------------------
(* What the view keeps has its type.                                       *)

Kinds(c) ==
    /\ DOMAIN c = ChatFields /\ c.status \in {"working", "ended"}
    /\ c.switching \in BOOLEAN /\ c.readOnly \in BOOLEAN
    /\ c.deleteTarget \in AnySession /\ c.restoreTarget \in AnySession

LEMMA KindsKept ==
    ASSUME NEW c, Kinds(c)
    PROVE  /\ Kinds(Flushed(c)) /\ Kinds(RegenerationBegun(c)) /\ Kinds(EditBegun(c))
           /\ Kinds(RegenerationRestored(c)) /\ Kinds(EditRestored(c))
           /\ Kinds(NoReplacement(c)) /\ Kinds(Following(c)) /\ \A s : Kinds(Reset(c, s))
  <1>1. Kinds(Flushed(c))
    BY DEF Kinds, Flushed, ChatFields
  <1>2. Kinds(RegenerationBegun(c))
    BY DEF Kinds, RegenerationBegun, ChatFields
  <1>3. Kinds(EditBegun(c))
    BY DEF Kinds, EditBegun, ChatFields
  <1>4. Kinds(RegenerationRestored(c))
    BY DEF Kinds, RegenerationRestored, ChatFields
  <1>5. Kinds(EditRestored(c))
    BY DEF Kinds, EditRestored, ChatFields
  <1>6. Kinds(NoReplacement(c))
    BY DEF Kinds, NoReplacement, ChatFields
  <1>7. Kinds(Following(c))
    BY DEF Kinds, Following, ChatFields
  <1>8. ASSUME NEW s PROVE Kinds(Reset(c, s))
    <2> DEFINE l == [c EXCEPT !.sessions = IF s = NoSession THEN {} ELSE c.sessions \ {s}]
    <2>1. Kinds(l)
      BY DEF Kinds, ChatFields
    <2>2. \/ Reset(c, s) = [NoReplacement(l) EXCEPT
                 !.transcript = <<>>, !.pending = {}, !.target = NoRequest,
                 !.restore = NoRequest, !.restoreTarget = NoSession,
                 !.status = "ended", !.active = NoRequest, !.selected = NoSession,
                 !.selection = NoSession, !.switching = FALSE, !.readOnly = FALSE]
          \/ Reset(c, s) = [l EXCEPT !.selection = c.selected, !.switching = FALSE]
          \/ Reset(c, s) = l
      <3>1. l.selected = c.selected /\ l.selection = c.selection
        BY DEF Kinds, ChatFields
      <3> QED BY <3>1 DEF Reset
    <2> HIDE DEF l
    <2> DEFINE m == NoReplacement(l)
    <2>3. Kinds(m)
      BY <2>1 DEF Kinds, NoReplacement, ChatFields
    <2> HIDE DEF m
    <2>4. PICK d : d = Reset(c, s)
      OBVIOUS
    <2>5. \/ d = [m EXCEPT
                 !.transcript = <<>>, !.pending = {}, !.target = NoRequest,
                 !.restore = NoRequest, !.restoreTarget = NoSession,
                 !.status = "ended", !.active = NoRequest, !.selected = NoSession,
                 !.selection = NoSession, !.switching = FALSE, !.readOnly = FALSE]
          \/ d = [l EXCEPT !.selection = c.selected, !.switching = FALSE]
          \/ d = l
      BY <2>2, <2>4 DEF m
    <2>6. NoSession \in AnySession
      BY DEF AnySession
    <2>7. Kinds(d)
      BY <2>1, <2>3, <2>5, <2>6 DEF Kinds, ChatFields
    <2> QED BY <2>4, <2>7
  <1> QED BY <1>1, <1>2, <1>3, <1>4, <1>5, <1>6, <1>7, <1>8

LEMMA KindsInit == Init => Kinds(chat)
  <1> SUFFICES ASSUME Init PROVE Kinds(chat)
    OBVIOUS
  <1>1. PICK s : ChatInit(s, Prior)
    BY DEF Init
  <1> QED BY <1>1 DEF ChatInit, Kinds, ChatFields, AnySession

LEMMA UserActsKinds ==
    ASSUME TalkInv, Kinds(chat), UserActs
    PROVE  Kinds(chat')
  <1>1. chat.selection \in AnySession /\ NoSession \in AnySession
    <2> DEFINE T == Told
    <2>1. chat.selection \in T /\ T \subseteq AnySession
      BY ChatIs
    <2> HIDE DEF T
    <2> QED BY <2>1 DEF AnySession
  <1> DEFINE f == Following(chat)
             n == NoReplacement(chat)
  <1>2. Kinds(f) /\ Kinds(n)
    BY KindsKept
  <1>3. CASE Submit \/ Regenerate \/ EditMessage
    <2>1. PICK a, b, t, e : \/ chat' = [f EXCEPT !.transcript = a, !.target = t]
                            \/ chat' = [f EXCEPT !.target = t, !.regeneration = b]
                            \/ chat' = [f EXCEPT !.target = t, !.edit = e]
      BY <1>3 DEF Submit, Regenerate, EditMessage, Send
    <2> HIDE DEF f
    <2> QED BY <1>2, <2>1 DEF Kinds, ChatFields
  <1>4. CASE NewChat \/ SelectSession
    <2>1. \/ chat' = [n EXCEPT
                !.transcript = <<>>, !.status = "ended", !.pending = {},
                !.target = NoRequest, !.list = NoRequest,
                !.restoreTarget = NoSession, !.delete = NoRequest,
                !.deleteTarget = NoSession, !.clear = NoRequest, !.mismatched = {},
                !.selected = NoSession, !.selection = NoSession, !.readOnly = FALSE]
          \/ \E s : chat' = [n EXCEPT !.selection = s, !.switching = s # chat.selected]
      BY <1>4 DEF NewChat, SelectSession, Send
    <2> HIDE DEF n
    <2>2. ASSUME NEW s, NEW b \in BOOLEAN, chat' = [n EXCEPT !.selection = s, !.switching = b] PROVE Kinds(chat')
      BY <1>2, <2>2 DEF Kinds, ChatFields
    <2>3. CASE \E s : chat' = [n EXCEPT !.selection = s, !.switching = s # chat.selected]
      BY <2>2, <2>3
    <2>4. CASE chat' = [n EXCEPT
                !.transcript = <<>>, !.status = "ended", !.pending = {},
                !.target = NoRequest, !.list = NoRequest,
                !.restoreTarget = NoSession, !.delete = NoRequest,
                !.deleteTarget = NoSession, !.clear = NoRequest, !.mismatched = {},
                !.selected = NoSession, !.selection = NoSession, !.readOnly = FALSE]
      BY <1>1, <1>2, <2>4 DEF Kinds, ChatFields
    <2> QED BY <2>1, <2>3, <2>4
  <1>5. CASE Cancel \/ LoadSessions \/ RestoreSelectedSession \/ DeleteSession \/ ClearSessions \/ ClearLocalData
    <2>1. \/ chat' = chat
          \/ chat' = [chat EXCEPT !.list = Next1]
          \/ chat' = [chat EXCEPT !.list = NoRequest, !.restore = Next1, !.restoreTarget = chat.selection]
          \/ chat' = [chat EXCEPT !.list = NoRequest, !.delete = Next1, !.deleteTarget = chat.selection, !.mutating = TRUE]
          \/ chat' = [chat EXCEPT !.list = NoRequest, !.clear = Next1, !.mutating = TRUE]
          \/ chat' = [chat EXCEPT !.list = NoRequest, !.reset = Next1, !.mutating = TRUE]
      BY <1>5 DEF Cancel, LoadSessions, RestoreSelectedSession, DeleteSession, ClearSessions, ClearLocalData, Send
    <2> QED BY <1>1, <2>1 DEF Kinds, ChatFields
  <1> QED BY <1>3, <1>4, <1>5 DEF UserActs

LEMMA ReceiveKinds ==
    ASSUME TalkInv, Kinds(chat), Receive
    PROVE  Kinds(chat')
  <1>1. NoSession \in AnySession
    BY DEF AnySession
  <1>2. CASE ReceiveSessionStarted \/ ReceiveSessionList \/ ReceiveSessionError \/ IgnoreMessage
    <2>1. \/ \E a : chat' = [chat EXCEPT !.mismatched = a, !.pending = {}, !.target = NoRequest]
          \/ \E s : chat' = [chat EXCEPT !.selected = s, !.selection = s, !.switching = FALSE, !.readOnly = FALSE]
          \/ chat' = chat
          \/ chat' = [chat EXCEPT !.list = NoRequest]
          \/ chat' = [chat EXCEPT !.restore = NoRequest, !.restoreTarget = NoSession]
          \/ \E s, a : chat' = [chat EXCEPT !.list = NoRequest, !.sessions = a, !.selection = s, !.switching = s # chat.selected]
      BY <1>2 DEF ReceiveSessionStarted, ReceiveSessionList, ReceiveSessionError, IgnoreMessage, Becomes
    <2> QED BY <1>1, <2>1 DEF Kinds, ChatFields
  <1>3. CASE ReceiveSessionRestored
    <2> DEFINE over == [chat EXCEPT !.restore = NoRequest, !.restoreTarget = NoSession]
    <2>1. \/ chat' = over
          \/ \E t, s : chat' = [over EXCEPT !.transcript = t, !.pending = {}, !.target = NoRequest, !.status = "ended",
                                   !.selected = s, !.selection = s, !.switching = FALSE, !.readOnly = s \in Legacy]
      BY <1>3 DEF ReceiveSessionRestored, Becomes
    <2>2. Kinds(over)
      BY <1>1 DEF Kinds, ChatFields
    <2> HIDE DEF over
    <2>3. ASSUME NEW t, NEW s, NEW b \in BOOLEAN,
                 chat' = [over EXCEPT !.transcript = t, !.pending = {}, !.target = NoRequest, !.status = "ended",
                             !.selected = s, !.selection = s, !.switching = FALSE, !.readOnly = b]
          PROVE  Kinds(chat')
      BY <2>2, <2>3 DEF Kinds, ChatFields
    <2>4. CASE \E t, s : chat' = [over EXCEPT !.transcript = t, !.pending = {}, !.target = NoRequest, !.status = "ended",
                                     !.selected = s, !.selection = s, !.switching = FALSE, !.readOnly = s \in Legacy]
      <3>1. PICK t, s : chat' = [over EXCEPT !.transcript = t, !.pending = {}, !.target = NoRequest, !.status = "ended",
                                   !.selected = s, !.selection = s, !.switching = FALSE, !.readOnly = s \in Legacy]
        BY <2>4
      <3>2. (s \in Legacy) \in BOOLEAN
        OBVIOUS
      <3> QED BY <2>3, <3>1, <3>2
    <2> QED BY <2>1, <2>2, <2>4
  <1>4. CASE ReceiveText
    <2> DEFINE e == EditBegun(RegenerationBegun(chat))
    <2>1. \E p : chat' = [e EXCEPT !.pending = p]
      BY <1>4 DEF ReceiveText, Becomes
    <2>2. Kinds(e)
      BY KindsKept
    <2> HIDE DEF e
    <2> QED BY <2>1, <2>2 DEF Kinds, ChatFields
  <1>5. CASE ReceiveRunStatus
    <2> DEFINE k == IF Incoming.status = "completed" THEN chat ELSE EditRestored(RegenerationRestored(chat))
               f == IF Incoming.status = "completed" THEN chat ELSE EditRestored(chat)
               p == Flushed(k)
               q == Flushed(f)
    <2>1. \/ chat' = chat
          \/ chat' = [chat EXCEPT !.status = "working"]
          \/ chat' = [p EXCEPT !.status = "ended", !.active = NoRequest, !.regeneration = NoBackup, !.edit = NoBackup]
          \/ \E a : chat' = [q EXCEPT !.status = "ended", !.active = NoRequest, !.mismatched = a]
      BY <1>5 DEF ReceiveRunStatus, Becomes, Terminated
    <2>2. Kinds(k) /\ Kinds(f)
      <3>1. Kinds(EditRestored(RegenerationRestored(chat))) /\ Kinds(EditRestored(chat))
        BY KindsKept
      <3> QED BY <3>1
    <2> HIDE DEF k, f
    <2>3. Kinds(p) /\ Kinds(q)
      BY <2>2, KindsKept
    <2> HIDE DEF p, q
    <2> QED BY <2>1, <2>3 DEF Kinds, ChatFields
  <1>6. CASE ReceiveSessionDeleted \/ ReceiveSessionsCleared \/ ReceiveResetResult
    <2>1. PICK s : \/ chat' = [Reset(chat, s) EXCEPT !.delete = NoRequest, !.deleteTarget = NoSession,
                                  !.list = NoRequest, !.mutating = FALSE]
                   \/ chat' = [Reset(chat, s) EXCEPT !.clear = NoRequest, !.delete = NoRequest, !.deleteTarget = NoSession,
                                  !.list = NoRequest, !.mutating = FALSE]
                   \/ chat' = [Reset(chat, s) EXCEPT !.reset = NoRequest, !.clear = NoRequest, !.delete = NoRequest,
                                  !.deleteTarget = NoSession, !.list = NoRequest, !.mutating = FALSE]
                   \/ chat' = [chat EXCEPT !.reset = NoRequest, !.mutating = FALSE]
      BY <1>6 DEF ReceiveSessionDeleted, ReceiveSessionsCleared, ReceiveResetResult, Becomes
    <2> DEFINE d == Reset(chat, s)
    <2>2. Kinds(d)
      BY KindsKept
    <2>3. \/ chat' = [d EXCEPT !.delete = NoRequest, !.deleteTarget = NoSession, !.list = NoRequest, !.mutating = FALSE]
          \/ chat' = [d EXCEPT !.clear = NoRequest, !.delete = NoRequest, !.deleteTarget = NoSession,
                               !.list = NoRequest, !.mutating = FALSE]
          \/ chat' = [d EXCEPT !.reset = NoRequest, !.clear = NoRequest, !.delete = NoRequest,
                               !.deleteTarget = NoSession, !.list = NoRequest, !.mutating = FALSE]
          \/ chat' = [chat EXCEPT !.reset = NoRequest, !.mutating = FALSE]
      BY <2>1
    <2> HIDE DEF d
    <2> QED BY <1>1, <2>2, <2>3 DEF Kinds, ChatFields
  <1>7. CASE ReceiveDeletionError
    <2> DEFINE s == IF chat.clear # NoRequest THEN NoSession ELSE chat.deleteTarget
               after == IF Incoming.status # "partial" THEN chat ELSE Reset(chat, s)
               settled == [after EXCEPT !.delete = NoRequest, !.deleteTarget = NoSession,
                                        !.clear = NoRequest, !.mutating = FALSE]
    <2>1. chat' = settled \/ chat' = [settled EXCEPT !.list = Next1]
      BY <1>7 DEF ReceiveDeletionError, Becomes
    <2>2. Kinds(after)
      BY KindsKept
    <2> HIDE DEF after
    <2>3. Kinds(settled)
      BY <1>1, <2>2 DEF Kinds, ChatFields
    <2> HIDE DEF settled
    <2> QED BY <2>1, <2>3 DEF Kinds, ChatFields
  <1> QED BY <1>2, <1>3, <1>4, <1>5, <1>6, <1>7 DEF Receive

-----------------------------------------------------------------------------
(* Every answer on screen is of the current Session and of one Run.        *)

ShownInv == StartsFirst /\ Shows(chat, issued) /\ Kinds(chat)

LEMMA ShownInit == Init => ShownInv
  <1> SUFFICES ASSUME Init PROVE Shows(chat, issued)
    BY StartsInit, KindsInit DEF ShownInv
  <1>1. PICK s \in Opened : ChatInit(s, Prior)
    BY DEF Init
  <1>2. /\ DOMAIN chat = ChatFields /\ chat.active = 0 /\ chat.mismatched = {} /\ chat.pending = {}
        /\ chat.selected = s /\ chat.regeneration = NoBackup /\ chat.edit = NoBackup /\ issued = 0
        /\ chat.transcript = IF s = NoSession THEN <<>> ELSE <<RestoredExchange(s)>>
    BY <1>1 DEF ChatInit, ChatFields, NoRequest
  <1>3. PICK e : e = RestoredExchange(s)
    OBVIOUS
  <1>4. s # NoSession => e \in Exchanges(s, 0)
    <2> DEFINE A == (1 .. 0) \cup {HistoryId}
               B == 1 .. 0
               C == {s} \ {NoSession}
    <2> SUFFICES ASSUME s # NoSession PROVE e \in Exchanges(s, 0)
      OBVIOUS
    <2>1. HistoryId \in A /\ s \in C
      OBVIOUS
    <2> HIDE DEF A, B, C
    <2>2. e \in [id : A, by : SUBSET B, of : SUBSET C] /\ e.by = {}
      BY <1>3, <2>1 DEF RestoredExchange
    <2>3. Single(e.by)
      BY <2>2 DEF Single
    <2> QED BY <2>2, <2>3 DEF Exchanges, A, B, C
  <1>5. chat.transcript \in Seq(Exchanges(s, 0))
    BY <1>2, <1>3, <1>4
  <1>6. issued \in Nat /\ chat.transcript \in Seq(Exchanges(chat.selected, issued))
    BY <1>2, <1>5
  <1> QED BY <1>2, <1>6, RestShows

LEMMA ShownNext == TalkInv /\ TalkInv' /\ ShownInv /\ [Next]_vars => ShownInv'
  <1> SUFFICES ASSUME TalkInv, TalkInv', ShownInv, [Next]_vars PROVE ShownInv'
    OBVIOUS
  <1>1. StartsFirst /\ Shows(chat, issued) /\ Kinds(chat) /\ issued \in Nat
    BY ChatIs DEF ShownInv
  <1>2. CASE HostActs
    <2>1. HostNext /\ UNCHANGED chatVars
      BY <1>2 DEF HostActs
    <2>2. PICK ms : HostMoves(ms)
      BY <2>1, HostMovesOn
    <2>3. StartsFirst' /\ chat' = chat /\ issued' = issued
      BY <1>1, <2>1, <2>2, HostKeepsStarts DEF chatVars
    <2> QED BY <1>1, <2>3 DEF ShownInv
  <1>3. CASE ChatActs
    <2>1. UserActs /\ UNCHANGED hostVars
      BY <1>3 DEF ChatActs
    <2>2. PICK sent : ChatMoves(sent)
      BY <2>1, UserActsMove
    <2>3. StartsFirst'
      BY <1>1, <2>1, <2>2, ChatKeepsStarts
    <2>4. Shows(chat', issued') /\ Kinds(chat')
      BY <1>1, <2>1, UserActsShow, UserActsKinds
    <2> QED BY <2>3, <2>4 DEF ShownInv
  <1>4. CASE ViewReceives
    <2>1. Receive /\ UNCHANGED hostVars
      BY <1>4 DEF ViewReceives
    <2>2. PICK sent : ChatMoves(sent)
      BY <2>1, ReceivesMove
    <2>3. StartsFirst'
      BY <1>1, <2>1, <2>2, ChatKeepsStarts
    <2>4. Shows(chat', issued') /\ Kinds(chat')
      BY <1>1, <2>1, ReceiveShows, ReceiveKinds
    <2> QED BY <2>3, <2>4 DEF ShownInv
  <1>5. CASE ViewPaints
    <2>1. Frame /\ UNCHANGED hostVars
      BY <1>5 DEF ViewPaints
    <2>2. PICK sent : ChatMoves(sent)
      BY <2>1, TextsMove
    <2>3. StartsFirst'
      BY <1>1, <2>1, <2>2, ChatKeepsStarts
    <2>4. chat' = Flushed(chat) /\ issued' = issued
      BY <2>1 DEF Frame
    <2>5. Shows(chat', issued') /\ Kinds(chat')
      BY <1>1, <2>4, FlushShows, KindsKept
    <2> QED BY <2>3, <2>5 DEF ShownInv
  <1>6. CASE UNCHANGED vars
    <2>1. host' = host /\ runs' = runs /\ chat' = chat /\ issued' = issued /\ toView' = toView
      BY <1>6 DEF vars
    <2>2. StartsFirst'
      BY <1>1, <2>1 DEF StartsFirst
    <2> QED BY <1>1, <2>1, <2>2 DEF ShownInv
  <1> QED BY <1>2, <1>3, <1>4, <1>5, <1>6 DEF Next, Rest

LEMMA ShownHolds == Spec => []ShownInv
  <1>1. TalkInv /\ ShownInv /\ [Next]_vars => ShownInv'
    BY TalkNext, ShownNext
  <1> QED BY <1>1, TalkHolds, ShownInit, PTL DEF Spec

LEMMA ShownIs ==
    ASSUME ShownInv
    PROVE  \A i \in DOMAIN chat.transcript :
              /\ chat.transcript[i].by \subseteq 1 .. issued /\ Single(chat.transcript[i].by)
              /\ chat.transcript[i].of \subseteq {chat.selected} \ {NoSession}
  <1> DEFINE E == Exchanges(chat.selected, issued)
             t == chat.transcript
  <1>1. t \in Seq(E)
    BY DEF ShownInv, Shows
  <1> HIDE DEF E, t
  <1>2. \A i \in DOMAIN t : t[i] \in E
    BY <1>1
  <1> QED BY <1>2 DEF E, t, Exchanges

\* What the transcript shows comes from the Session the view names as current: neither text that waits for
\* its frame, nor a Run that starts late, nor a restore, a deletion, a regeneration or an edit that is undone
\* puts an answer of another Session on screen (chat-store.ts receive, applyPendingStreams).
THEOREM ShownBelongsToSelectedHolds == Spec => []ShownBelongsToSelected
  <1>1. ShownInv => ShownBelongsToSelected
    BY ShownIs DEF ShownBelongsToSelected
  <1> QED BY <1>1, ShownHolds, PTL

-----------------------------------------------------------------------------
(* Types.                                                                  *)

LEMMA HostIsOK ==
    ASSUME TalkInv
    PROVE  HostOK /\ RunsOK
  <1>1. /\ issued \in 0 .. MaxRequests /\ HostNumbered /\ HostTypes
        /\ host \in Hosts(Told) /\ runs \in [Requests -> RunRecords(Told)]
    BY DEF TalkInv, AskInv, Numbered, ViewInv, Named
  <1>2. \A i \in 0 .. issued : i \in AnyRequest
    BY <1>1, RequestsAssumption DEF AnyRequest, Requests, NoRequest
  <1>3. \A i \in 1 .. issued : i \in Requests
    BY <1>1, RequestsAssumption DEF Requests
  <1>4. Told \subseteq AnySession /\ \A x : x \in Told /\ x # NoSession => x \in Sessions
    BY ChatIs DEF AnySession
  <1> HIDE DEF Told
  <1>5. /\ host.owned \in Told /\ host.selected \in Told /\ host.lock \in BOOLEAN /\ host.known \subseteq Told
        /\ host.list \in Lists(Told) /\ host.job \in Jobs(Told) /\ host.reset \in Resets
    BY <1>1 DEF Hosts
  <1>6. host.active \in AnyRequest /\ host.settling \subseteq Requests /\ host.owned \in AnySession
        /\ host.selected \in AnySession /\ host.lock \in BOOLEAN
    BY <1>1, <1>2, <1>3, <1>4, <1>5 DEF HostNumbered
  <1>7. host.known \subseteq Sessions /\ host.list.found \subseteq Sessions
    <2>1. host.list.found \subseteq Told
      BY <1>5 DEF Lists
    <2> QED BY <1>1, <1>4, <1>5, <2>1 DEF HostTypes
  <1>8. host.list \in [req : AnyRequest, latest : BOOLEAN, read : BOOLEAN, found : SUBSET Sessions]
    <2>1. host.list.req \in AnyRequest
      BY <1>1, <1>2 DEF HostNumbered
    <2> QED BY <1>5, <1>7, <2>1 DEF Lists
  <1>9. host.job \in JobType
    <2>1. host.job.req \in AnyRequest
      BY <1>1, <1>2 DEF HostNumbered
    <2> QED BY <1>4, <1>5, <2>1 DEF Jobs, JobType
  <1>10. host.reset \in [step : {"none", "confirming", "locking", "settling"}, req : AnyRequest]
    <2>1. host.reset.req \in AnyRequest
      BY <1>1, <1>2 DEF HostNumbered
    <2> QED BY <1>5, <2>1 DEF Resets
  <1>11. HostOK
    BY <1>6, <1>7, <1>8, <1>9, <1>10 DEF HostOK
  <1>12. RunsOK
    <2> SUFFICES ASSUME NEW r \in Requests
                 PROVE  /\ runs[r].phase \in {"none", "opening", "reporting", "failing", "ending", "settled", "rejected"}
                        /\ {runs[r].session, runs[r].on} \subseteq AnySession
                        /\ runs[r].left \in 0 .. MaxEvents
                        /\ {runs[r].aborted, runs[r].started, runs[r].closed, runs[r].terminalSent} \subseteq BOOLEAN
      BY DEF RunsOK
    <2>1. runs[r] \in RunRecords(Told) /\ runs[r].left \in 0 .. MaxEvents
      BY <1>1 DEF HostTypes
    <2>2. /\ runs[r].phase \in {"none", "opening", "reporting", "failing", "ending", "settled", "rejected"}
          /\ runs[r].session \in Told /\ runs[r].on \in AnySession
          /\ runs[r].aborted \in BOOLEAN /\ runs[r].started \in BOOLEAN /\ runs[r].closed \in BOOLEAN
          /\ runs[r].terminalSent \in BOOLEAN
      BY <2>1 DEF RunRecords
    <2> QED BY <1>4, <2>1, <2>2
  <1> QED BY <1>11, <1>12

LEMMA ChatIsOK ==
    ASSUME TalkInv, ShownInv
    PROVE  ChatOK
  <1>1. /\ issued \in 0 .. MaxRequests
        /\ {chat.active, chat.list, chat.restore, chat.delete, chat.clear, chat.reset} \subseteq 0 .. issued
    BY DEF TalkInv, AskInv, Numbered
  <1>2. \A i \in 0 .. issued : i \in AnyRequest
    BY <1>1, RequestsAssumption DEF AnyRequest, Requests, NoRequest
  <1>3. \A i \in 1 .. issued : i \in Requests
    BY <1>1, RequestsAssumption DEF Requests
  <1>4. chat.selected \in AnySession /\ chat.selection \in AnySession /\ chat.mutating \in BOOLEAN
    <2> DEFINE T == Told
    <2>1. chat.selection \in T /\ T \subseteq AnySession
      BY ChatIs
    <2> HIDE DEF T
    <2> QED BY <2>1, ChatIs DEF OneMutation
  <1>5. Kinds(chat)
    BY DEF ShownInv
  <1>6. \A i \in DOMAIN chat.transcript :
           chat.transcript[i].by \subseteq Requests /\ chat.transcript[i].of \subseteq Sessions
    <2>1. {chat.selected} \ {NoSession} \subseteq Sessions
      BY <1>4 DEF AnySession
    <2> QED BY <1>3, <2>1, ShownIs
  <1>7. {chat.active, chat.list, chat.restore, chat.delete, chat.clear, chat.reset} \subseteq AnyRequest
    BY <1>1, <1>2
  <1> QED BY <1>4, <1>5, <1>6, <1>7 DEF ChatOK, Kinds

LEMMA TypesHold ==
    ASSUME TalkInv, GoneInv, ShownInv
    PROVE  TypeOK
  <1>1. stored \subseteq used /\ used \subseteq Sessions /\ gone \subseteq Sessions
    BY DEF TalkInv, ViewInv, GoneInv
  <1>2. host.lock <=> host.list.req # NoRequest \/ host.reset.step = "settling"
    BY DEF TalkInv, FollowInv, HostHushed, NoRequest
  <1> QED BY <1>1, <1>2, HostIsOK, ChatIsOK DEF TypeOK

\* One answer holds the text of one Run: a regeneration and an edit blank the old answer before the new one's
\* text comes, text is gathered for the followed Run alone, and what is undone is put back whole. Everything
\* keeps its type, and only the list and the clearing hold the history lock (chat-store.ts
\* beginRegenerationProjection, beginEditProjection, applyPendingStreams, receive).
THEOREM AnswerFromOneRunHolds == Spec => []AnswerFromOneRun
  <1>1. ASSUME NEW n \in Nat, NEW A, A \subseteq 1 .. n, Single(A) PROVE Cardinality(A) <= 1
    <2>1. CASE A = {}
      <3>1. Cardinality(A) = 0
        BY <2>1, FS_EmptySet
      <3> QED BY <3>1
    <2>2. CASE A # {}
      <3>1. PICK x : x \in A
        BY <2>2
      <3>2. A = {x}
        BY <1>1, <3>1 DEF Single
      <3>3. Cardinality(A) = 1
        BY <3>2, FS_Singleton
      <3> QED BY <3>3
    <2> QED BY <2>1, <2>2
  <1>2. ASSUME TalkInv, ShownInv, NEW i \in DOMAIN chat.transcript
        PROVE  Cardinality(chat.transcript[i].by) <= 1
    BY <1>1, <1>2, ShownIs, ChatIs
  <1>3. TalkInv /\ GoneInv /\ ShownInv => AnswerFromOneRun
    BY <1>2, TypesHold DEF AnswerFromOneRun
  <1> QED BY <1>3, TalkHolds, GoneHolds, ShownHolds, PTL
=============================================================================
