----------------------- MODULE BilibiliBackendsProofs -----------------------
(***************************************************************************)
(* Proofs about the Bilibili plugin, whichever backend its configuration   *)
(* selects, for any number of requests, operators, accounts and bundles:   *)
(* bindings are proven and stores agree (management.rs), the OAuth bundle  *)
(* is kept and its refresh token is used once (open_platform.rs), and the  *)
(* delay of a failing key does not shrink (bilibili.rs), for any word.     *)
(***************************************************************************)
EXTENDS BilibiliBackends, FiniteSetTheorems, TLAPS

-----------------------------------------------------------------------------
(* The OAuth bundle.                                                       *)

Stages == {"refresh", "rotate", "publish", "republish", "request"}

IsPoll(p) ==
  p = [at |-> p.at, with |-> p.with, retried |-> p.retried] /\ p.at \in Stages /\ p.with \in Nat

OAuthTypes ==
  /\ {bundle, stored} \subseteq Nat
  /\ server = [current |-> server.current, expired |-> server.expired] /\ server.current \in Nat
  /\ poll = NoPoll \/ IsPoll(poll)
  /\ loader = [at |-> loader.at, read |-> loader.read] /\ loader.read \in Nat

RotatesCurrent == PollAt("rotate") => poll.with = server.current

\* As long as nothing was lost and no load raced a refresh, whoever holds a bundle
\* holds the current one, save the credential until it is published and the
\* source that loads meanwhile.
HoldersCurrent ==
  ~lost /\ ~raced =>
    /\ ~spent
    /\ ~PollAt("idle") => poll.with = server.current
    /\ loader.at = "loading" /\ ~PollAt("rotate") => loader.read = server.current
    /\ ~(PollAt("rotate") \/ PollAt("publish")) => bundle \in {0, server.current}

OAuthInv == OAuthTypes /\ RotatesCurrent /\ AuthorisationKept /\ HoldersCurrent

-----------------------------------------------------------------------------
(* The management.                                                         *)

IsEntry(x) == x = [id |-> x.id, uid |-> x.uid, owner |-> x.owner, paused |-> x.paused]
SoundFor(S, codes) ==
  /\ \A x \in S : IsEntry(x)
  /\ \A x \in S : x.owner # Nobody =>
       \E p \in codes : p[1] = x.uid /\ p[2][1] = x.owner /\ p[2][2] = x.uid
  /\ \A x, y \in S : x.owner = y.owner /\ x.owner # Nobody => x = y

\* A request that holds a copy of the subscriptions, or the next secret.
HoldsCopy(c) ==
  c = [at |-> c.at, copy |-> c.copy, owner |-> c.owner, about |-> c.about, pauses |-> c.pauses,
       outdated |-> c.outdated, code |-> c.code]
HoldsValue(c) == c = [at |-> c.at, value |-> c.value]
GivenTo(code, o) == o \in Operators /\ code[1] = o /\ code[2] \in Uids

\* Copies are as sound as the stores, and a code is with the operator it was made for.
CallFine(c, codes) ==
  /\ c.at \in Holding \cup {"live"} => HoldsCopy(c) /\ SoundFor(c.copy, codes)
  /\ c.at \in Publishing \cup {"rotate"} => HoldsValue(c)
  /\ c.at = "challenge" => GivenTo(c.code, c.owner)
  /\ c.at = "profile" => c.code # NoCode /\ GivenTo(c.code, c.owner)
CallsFine == DOMAIN call = Slots /\ \A s \in Slots : CallFine(call[s], proven)

\* A code that is in a signature has been proven.
StoresFine ==
  /\ DOMAIN challenge = Operators
  /\ bilibili = [issued |-> bilibili.issued, confirmed |-> bilibili.confirmed,
                 sign |-> bilibili.sign]
  /\ DOMAIN bilibili.sign = Uids
  /\ \A o \in Operators : challenge[o] # NoCode => GivenTo(challenge[o], o)
  /\ \A u \in Uids : bilibili.sign[u] # NoCode => <<u, bilibili.sign[u]>> \in proven
  /\ SoundFor(live, proven) /\ SoundFor(disk, proven)

\* At most one request is between the product file and the memory, unless two
\* overlapped; it writes to memory what is in the file.
Unwritten(s) == At(s, "live") /\ disk = call[s].copy /\ \A t \in Slots \ {s} : ~At(t, "live")
ConfigurationAgrees ==
  ~overlapped =>
    \/ live = disk /\ \A s \in Slots : ~At(s, "live")
    \/ \E s \in Slots : Unwritten(s)

\* The same of the secret and the credential, which the source loads as well.
CredentialAgrees ==
  ~overlapped =>
    /\ source.at = "loading" => source.read = secret
    /\ \A s \in Slots : call[s].at \in Publishing =>
         call[s].value = secret /\ \A t \in Slots \ {s} : call[t].at \notin Publishing
    /\ (source.at = "running" /\ \A s \in Slots : call[s].at \notin Publishing) =>
         credential = secret

ManagementInv == CallsFine /\ StoresFine /\ ConfigurationAgrees /\ CredentialAgrees

-----------------------------------------------------------------------------
(* Proof for the OAuth bundle.                                             *)

LEMMA OAuthInitially == ASSUME OAuthInit \/ OAuthOff PROVE OAuthInv
BY DEF OAuthInit, OAuthOff, OAuthInv, OAuthTypes, IsPoll, RotatesCurrent,
       AuthorisationKept, HoldersCurrent, NoPoll, PollAt, Stages

LEMMA OAuthTypesStep == ASSUME OAuthTypes, OAuthNext PROVE OAuthTypes'
<1> USE DEF OAuthTypes, IsPoll, PollAt, NoPoll, Stages, facts, oauthHistory
<1>1. CASE BeginPoll
  <2>1. IsPoll(poll') BY <1>1 DEF BeginPoll, NewPoll
  <2>2. UNCHANGED <<bundle, stored, server, loader>> BY <1>1 DEF BeginPoll
  <2> QED BY <2>1, <2>2
<1>2. CASE Refresh
  <2>1. poll' = [poll EXCEPT !.at = "rotate", !.with = server.current + 1] /\ PollAt("refresh")
    BY <1>2 DEF Refresh, Refreshes
  <2>2. poll = [at |-> "refresh", with |-> poll.with, retried |-> poll.retried]
    BY <2>1
  <2>3. poll' = [at |-> "rotate", with |-> server.current + 1, retried |-> poll.retried]
    BY <2>1, <2>2
  <2>4. IsPoll(poll') BY <2>3
  <2>5. server' = [current |-> server.current + 1, expired |-> FALSE] BY <1>2 DEF Refresh, Refreshes
  <2>6. UNCHANGED <<bundle, stored, loader>> BY <1>2 DEF Refresh
  <2> QED BY <2>4, <2>5, <2>6
<1>3. CASE Refused BY <1>3 DEF Refused
<1>4. CASE RotateBundle BY <1>4 DEF RotateBundle
<1>5. CASE PublishBundle BY <1>5 DEF PublishBundle
<1>6. CASE Served
  <2>1. poll' = NoPoll /\ UNCHANGED <<bundle, stored, server, loader>> BY <1>6 DEF Served
  <2> QED BY <2>1
<1>7. CASE Expired
  <2>1. /\ PollAt("request")
        /\ poll' = NoPoll \/ poll' = [poll EXCEPT !.at = "refresh", !.retried = TRUE]
    BY <1>7 DEF Expired
  <2>2. poll = [at |-> "request", with |-> poll.with, retried |-> poll.retried] /\ poll.with \in Nat
    BY <2>1
  <2>3. \/ poll' = NoPoll
        \/ poll' = [at |-> "refresh", with |-> poll.with, retried |-> TRUE]
    BY <2>1, <2>2
  <2>4. poll' = NoPoll \/ IsPoll(poll') BY <2>2, <2>3
  <2>5. UNCHANGED <<bundle, stored, server, loader>> BY <1>7 DEF Expired
  <2> QED BY <2>4, <2>5
<1>8. CASE AnswerLost BY <1>8 DEF AnswerLost, Refreshes, Fault
<1>9. CASE CallFails BY <1>9 DEF CallFails, Fault
<1>10. CASE Ages BY <1>10 DEF Ages
<1>11. CASE Expires BY <1>11 DEF Expires
<1>12. CASE Load BY <1>12 DEF Load, LoaderReads, LoaderLoads
<1>13. CASE LoaderStops BY <1>13 DEF LoaderStops, Stops
<1>14. CASE ProcessDies BY <1>14 DEF ProcessDies, Stops
<1> QED BY <1>1, <1>2, <1>3, <1>4, <1>5, <1>6, <1>7, <1>8, <1>9, <1>10, <1>11, <1>12, <1>13,
           <1>14 DEF OAuthNext, PollStep

LEMMA OAuthStep == ASSUME OAuthInv, OAuthNext PROVE OAuthInv'
<1>0. OAuthTypes'
  BY OAuthTypesStep DEF OAuthInv
<1>p. PollAt("idle") \/ IsPoll(poll)
  BY DEF OAuthInv, OAuthTypes, PollAt, NoPoll
<1> SUFFICES RotatesCurrent' /\ AuthorisationKept' /\ HoldersCurrent'
  BY <1>0 DEF OAuthInv
<1> USE DEF OAuthInv, OAuthTypes, IsPoll, RotatesCurrent, AuthorisationKept, HoldersCurrent, PollAt,
            NoPoll, Stages, facts, oauthHistory
<1>1. CASE BeginPoll BY <1>1 DEF BeginPoll, NewPoll
<1>2. CASE Refresh BY <1>2, <1>p DEF Refresh, Refreshes
<1>3. CASE Refused BY <1>3, <1>p DEF Refused
<1>4. CASE RotateBundle BY <1>4, <1>p DEF RotateBundle
<1>5. CASE PublishBundle BY <1>5, <1>p DEF PublishBundle
<1>6. CASE Served BY <1>6, <1>p DEF Served
<1>7. CASE Expired BY <1>7, <1>p DEF Expired
<1>8. CASE AnswerLost BY <1>8, <1>p DEF AnswerLost, Refreshes, Fault
<1>9. CASE CallFails BY <1>9, <1>p DEF CallFails, Fault
<1>10. CASE Ages BY <1>10 DEF Ages
<1>11. CASE Expires BY <1>11 DEF Expires
<1>12. CASE LoaderReads BY <1>12, <1>p DEF LoaderReads
<1>13. CASE LoaderLoads BY <1>13, <1>p DEF LoaderLoads
<1>14. CASE LoaderStops BY <1>14 DEF LoaderStops, Stops
<1>15. CASE ProcessDies BY <1>15, <1>p DEF ProcessDies, Stops
<1> QED BY <1>1, <1>2, <1>3, <1>4, <1>5, <1>6, <1>7, <1>8, <1>9, <1>10, <1>11, <1>12, <1>13,
           <1>14, <1>15 DEF OAuthNext, PollStep, Load

LEMMA OAuthUnchanged == ASSUME OAuthInv, UNCHANGED oauthVars PROVE OAuthInv'
BY DEF OAuthInv, OAuthTypes, IsPoll, RotatesCurrent, AuthorisationKept, HoldersCurrent, PollAt,
       NoPoll, oauthVars, facts, oauthHistory

-----------------------------------------------------------------------------
(* Sets of subscriptions.                                                  *)

LEMMA SoundSmaller ==
  ASSUME NEW S, NEW T, NEW codes, NEW more,
         SoundFor(S, codes), T \subseteq S, codes \subseteq more
  PROVE  SoundFor(T, more)
BY DEF SoundFor

LEMMA SoundWithout ==
  ASSUME NEW S, NEW codes, SoundFor(S, codes)
  PROVE  /\ \A id : SoundFor(WithoutId(S, id), codes)
         /\ \A o : SoundFor(WithoutOwner(S, o), codes)
BY SoundSmaller DEF WithoutId, WithoutOwner, OthersThan

LEMMA SoundSubscribed ==
  ASSUME NEW S, NEW codes, NEW id, NEW u, SoundFor(S, codes)
  PROVE  SoundFor(S \cup {Entry(id, u, Nobody)}, codes)
<1>1. IsEntry(Entry(id, u, Nobody)) /\ Entry(id, u, Nobody).owner = Nobody
  BY DEF IsEntry, Entry
<1> QED BY <1>1 DEF SoundFor

LEMMA SoundPaused ==
  ASSUME NEW S, NEW codes, NEW x \in S, NEW value, SoundFor(S, codes)
  PROVE  SoundFor((S \ {x}) \cup {[x EXCEPT !.paused = value]}, codes)
<1> DEFINE y == [x EXCEPT !.paused = value]
<1>1. x = [id |-> x.id, uid |-> x.uid, owner |-> x.owner, paused |-> x.paused]
  BY DEF SoundFor, IsEntry
<1>2. y = [id |-> x.id, uid |-> x.uid, owner |-> x.owner, paused |-> value]
  BY <1>1
<1>3. IsEntry(y) /\ y.owner = x.owner /\ y.uid = x.uid
  BY <1>2 DEF IsEntry
<1> HIDE DEF y
<1>4. SoundFor((S \ {x}) \cup {y}, codes)
  BY <1>3 DEF SoundFor
<1> QED BY <1>4 DEF y

LEMMA SoundBound ==
  ASSUME NEW S, NEW codes, NEW id, NEW code, SoundFor(S, codes), <<code[2], code>> \in codes
  PROVE  SoundFor(WithoutOwner(S, code[1]) \cup {Entry(id, code[2], code[1])}, codes)
<1> DEFINE y == Entry(id, code[2], code[1])
           T == WithoutOwner(S, code[1])
<1>1. IsEntry(y) /\ y.owner = code[1] /\ y.uid = code[2]
  BY DEF IsEntry, Entry
<1>2. SoundFor(T, codes) /\ \A x \in T : x.owner # y.owner
  BY SoundWithout, <1>1 DEF WithoutOwner, OthersThan
<1>3. \E p \in codes : p[1] = y.uid /\ p[2][1] = y.owner /\ p[2][2] = y.uid
  <2> WITNESS <<code[2], code>> \in codes
  <2> QED BY <1>1
<1> HIDE DEF y, T
<1>4. SoundFor(T \cup {y}, codes)
  BY <1>1, <1>2, <1>3 DEF SoundFor
<1> QED BY <1>4 DEF y, T

-----------------------------------------------------------------------------
(* The steps of requests, as changes of one request's record.              *)

LEMMA ManagementInitially == ASSUME ManagementInit PROVE ManagementInv
BY DEF ManagementInit, ManagementInv, CallsFine, CallFine, StoresFine, SoundFor,
       ConfigurationAgrees, CredentialAgrees, At, Holding, Publishing, Idle

\* One request's record changes, and the new one is fine.
LEMMA OneCall ==
  ASSUME CallsFine, NEW s \in Slots, NEW c, CallFine(c, proven), call' = [call EXCEPT ![s] = c],
         UNCHANGED proven
  PROVE  CallsFine'
BY DEF CallsFine

\* Taking a copy of a sound configuration.
LEMMA TakesCopy ==
  ASSUME CallsFine, NEW s \in Slots, NEW stage \in Holding, NEW next, NEW pauses, NEW about,
         NEW owner, Take(s, stage, next, pauses, about, owner), SoundFor(next, proven),
         stage = "profile" => owner # Nobody /\ challenge[owner] # NoCode
                              /\ GivenTo(challenge[owner], owner),
         UNCHANGED proven
  PROVE  CallsFine'
<1>1. DOMAIN call' = Slots
  BY DEF Take
<1>2. ASSUME NEW t \in Slots PROVE CallFine(call'[t], proven)
  <2>1. CASE t = s
    <3>1. /\ HoldsCopy(call'[t]) /\ call'[t].at = stage /\ call'[t].copy = next
          /\ call'[t].owner = owner
          /\ call'[t].code = IF owner = Nobody THEN NoCode ELSE challenge[owner]
      BY <2>1 DEF Take, HoldsCopy
    <3> QED BY <3>1 DEF CallFine, Holding, Publishing
  <2>2. CASE t # s /\ ~InFlight(t)
    <3>1. call'[t] = call[t] BY <2>2 DEF Take
    <3> QED BY <3>1 DEF CallsFine
  <2>3. CASE t # s /\ InFlight(t)
    <3> DEFINE c == call[t]
    <3>1. CallFine(c, proven) /\ HoldsCopy(c) BY <2>3 DEF CallsFine, CallFine, InFlight
    <3>2. call'[t] = [c EXCEPT !.pauses = @ \ about] BY <2>3 DEF Take
    <3> HIDE DEF c
    <3>3. call'[t] = [at |-> c.at, copy |-> c.copy, owner |-> c.owner, about |-> c.about,
                      pauses |-> c.pauses \ about, outdated |-> c.outdated, code |-> c.code]
      BY <3>1, <3>2 DEF HoldsCopy
    <3>4. /\ HoldsCopy(call'[t]) /\ call'[t].at = c.at /\ call'[t].copy = c.copy
          /\ call'[t].owner = c.owner /\ call'[t].code = c.code
      BY <3>3 DEF HoldsCopy
    <3>5. c.at \in Holding \cup {"live"} BY <2>3 DEF InFlight, c
    <3> QED BY <3>1, <3>4, <3>5 DEF CallFine, Holding, Publishing
  <2> QED BY <2>1, <2>2, <2>3
<1> QED BY <1>1, <1>2 DEF CallsFine

LEMMA MoreProven ==
  ASSUME NEW c, NEW codes, NEW more, CallFine(c, codes), codes \subseteq more
  PROVE  CallFine(c, more)
BY SoundSmaller DEF CallFine

LEMMA LoginCallsStep ==
  ASSUME ManagementInv, NEW s \in Slots, LoginStep(s) PROVE CallsFine'
<1> USE DEF ManagementInv, CallFine, At, Begins, Goto, Idle, Holding, Publishing, stores, tables,
            history
<1>1. UNCHANGED proven
  BY DEF LoginStep, LoginStart, StoreSession, LoginPoll, QrPending, QrExpired, QrConfirmed,
         CredentialClear, Rotate, Publish, ForgetSession
<1> DEFINE Fine(c) == call' = [call EXCEPT ![s] = c] /\ CallFine(c, proven)
<1>2. \E c : Fine(c)
  <2>1. CASE LoginStart(s)
    <3>1. Fine([at |-> "session", key |-> bilibili.issued + 1]) BY <2>1 DEF LoginStart
    <3> QED BY <3>1
  <2>2. CASE StoreSession(s) \/ QrPending(s) \/ ForgetSession(s)
    <3>1. Fine(Idle) BY <2>2 DEF StoreSession, QrPending, ForgetSession
    <3> QED BY <3>1
  <2>3. CASE LoginPoll(s)
    <3>1. Fine([at |-> "qr", key |-> qrSession[Platform(s)]]) BY <2>3 DEF LoginPoll
    <3> QED BY <3>1
  <2>4. CASE QrExpired(s)
    <3>1. Fine([at |-> "forget"]) BY <2>4 DEF QrExpired
    <3> QED BY <3>1
  <2>5. CASE QrConfirmed(s)
    <3>1. Fine([at |-> "rotate", value |-> call[s].key]) BY <2>5 DEF QrConfirmed, HoldsValue
    <3> QED BY <3>1
  <2>6. CASE CredentialClear(s)
    <3>1. Fine([at |-> "rotate", value |-> 0]) BY <2>6 DEF CredentialClear, HoldsValue
    <3> QED BY <3>1
  <2>7. CASE Rotate(s) \/ Publish(s)
    <3>1. call[s] = [at |-> call[s].at, value |-> call[s].value]
      BY <2>7 DEF Rotate, Publish, CallsFine, HoldsValue
    <3>2. \/ call' = [call EXCEPT ![s] = [call[s] EXCEPT !.at = "publish"]]
          \/ call' = [call EXCEPT ![s] = [call[s] EXCEPT !.at = "republish"]]
          \/ call' = [call EXCEPT ![s] = Idle]
          \/ call' = [call EXCEPT ![s] = [at |-> "forget"]]
      BY <2>7 DEF Rotate, Publish
    <3>3. ASSUME NEW stage \in Publishing
          PROVE  CallFine([call[s] EXCEPT !.at = stage], proven)
      <4>1. [call[s] EXCEPT !.at = stage] = [at |-> stage, value |-> call[s].value] BY <3>1
      <4> QED BY <4>1 DEF HoldsValue
    <3>4. CallFine(Idle, proven) /\ CallFine([at |-> "forget"], proven) OBVIOUS
    <3> HIDE DEF CallFine
    <3> QED BY <3>2, <3>3, <3>4
  <2> QED BY <2>1, <2>2, <2>3, <2>4, <2>5, <2>6, <2>7 DEF LoginStep
<1> QED BY <1>1, <1>2, OneCall

LEMMA ChangeCallsStep ==
  ASSUME ManagementInv, NEW s \in Slots, ChangeStep(s) PROVE CallsFine'
<1>1. UNCHANGED proven
  BY DEF ChangeStep, Subscribe, Unsubscribe, SetPaused, Unbind, Change, WriteDisk, WriteLive
<1>2. ASSUME NEW operation, NEW next, NEW pauses, NEW about,
             Change(s, operation, next, pauses, about), SoundFor(next, proven)
      PROVE  CallsFine'
  <2>1. CASE UniqueIds(next)
    <3>1. Take(s, "disk", next, pauses, about, Nobody) BY <1>2, <2>1 DEF Change
    <3> QED BY <1>1, <1>2, <3>1, TakesCopy DEF ManagementInv, Holding
  <2>2. CASE ~UniqueIds(next)
    <3>1. UNCHANGED <<call, proven>> BY <1>1, <1>2, <2>2 DEF Change
    <3> QED BY <3>1 DEF ManagementInv, CallsFine
  <2> QED BY <2>1, <2>2
<1>0. SoundFor(live, proven)
  BY DEF ManagementInv, StoresFine
<1>3. CASE Subscribe(s)
  <2>1. PICK id \in AdminIds, u \in Uids :
          Change(s, "subscribe", WithoutId(live, id) \cup {Entry(id, u, Nobody)}, {}, {id})
    BY <1>3 DEF Subscribe
  <2>2. SoundFor(WithoutId(live, id) \cup {Entry(id, u, Nobody)}, proven)
    BY <1>0, SoundWithout, SoundSubscribed
  <2> QED BY <1>2, <2>1, <2>2
<1>4. CASE Unsubscribe(s)
  <2>1. PICK x \in live : Change(s, "unsubscribe", WithoutId(live, x.id), {}, {x.id})
    BY <1>4 DEF Unsubscribe
  <2>2. SoundFor(WithoutId(live, x.id), proven) BY <1>0, SoundWithout
  <2> QED BY <1>2, <2>1, <2>2
<1>5. CASE SetPaused(s)
  <2>1. PICK x \in live, value \in BOOLEAN :
          Change(s, "pause", (live \ {x}) \cup {[x EXCEPT !.paused = value]},
                 {id \in {x.id} : value}, {x.id})
    BY <1>5 DEF SetPaused
  <2>2. SoundFor((live \ {x}) \cup {[x EXCEPT !.paused = value]}, proven)
    BY <1>0, SoundPaused
  <2> QED BY <1>2, <2>1, <2>2
<1>6. CASE Unbind(s)
  <2>1. PICK o \in Operators : Change(s, "unbind", WithoutOwner(live, o), {},
                                      IdsOf(live \ WithoutOwner(live, o)))
    BY <1>6 DEF Unbind
  <2>2. SoundFor(WithoutOwner(live, o), proven) BY <1>0, SoundWithout
  <2> QED BY <1>2, <2>1, <2>2
<1>7. CASE WriteDisk(s)
  <2>1. DOMAIN call' = Slots BY <1>7 DEF WriteDisk
  <2>2. ASSUME NEW t \in Slots PROVE CallFine(call'[t], proven)
    <3> DEFINE c == call[t]
    <3>1. CallFine(c, proven) BY DEF ManagementInv, CallsFine
    <3>2. CASE t # s /\ c.at \notin Holding
      <4>1. call'[t] = c BY <1>7, <3>2 DEF WriteDisk
      <4> QED BY <3>1, <4>1
    <3>3. CASE t = s \/ c.at \in Holding
      <4>1. c.at \in Holding BY <1>7, <3>3 DEF WriteDisk, At, Holding
      <4>2. call'[t] = [c EXCEPT !.at = "live"] \/ call'[t] = [c EXCEPT !.outdated = TRUE]
        BY <1>7, <3>3 DEF WriteDisk
      <4> HIDE DEF c
      <4>3. c = [at |-> c.at, copy |-> c.copy, owner |-> c.owner, about |-> c.about,
                 pauses |-> c.pauses, outdated |-> c.outdated, code |-> c.code]
        BY <3>1, <4>1 DEF CallFine, HoldsCopy
      <4>4. \E stage \in {c.at, "live"} : \E outdated :
              call'[t] = [at |-> stage, copy |-> c.copy, owner |-> c.owner, about |-> c.about,
                          pauses |-> c.pauses, outdated |-> outdated, code |-> c.code]
        BY <4>2, <4>3
      <4>5. /\ HoldsCopy(call'[t]) /\ call'[t].at \in {c.at, "live"} /\ call'[t].copy = c.copy
            /\ call'[t].owner = c.owner /\ call'[t].code = c.code
        BY <4>4 DEF HoldsCopy
      <4> QED BY <3>1, <4>1, <4>5 DEF CallFine, Holding, Publishing
    <3> QED BY <3>2, <3>3
  <2> QED BY <1>1, <2>1, <2>2 DEF CallsFine
<1>8. CASE WriteLive(s)
  <2>1. CASE call[s].owner = Nobody
    <3>1. call' = [call EXCEPT ![s] = Idle] BY <1>8, <2>1 DEF WriteLive, Goto
    <3>2. CallFine(Idle, proven) BY DEF CallFine, Idle, Holding, Publishing
    <3> QED BY <1>1, <3>1, <3>2, OneCall DEF ManagementInv
  <2>2. CASE call[s].owner # Nobody
    <3> DEFINE c == [at |-> "verified", owner |-> call[s].owner]
    <3>1. call' = [call EXCEPT ![s] = c] BY <1>8, <2>2 DEF WriteLive, Goto
    <3>2. CallFine(c, proven) BY DEF CallFine, Holding, Publishing
    <3> QED BY <1>1, <3>1, <3>2, OneCall DEF ManagementInv
  <2> QED BY <2>1, <2>2
<1> QED BY <1>3, <1>4, <1>5, <1>6, <1>7, <1>8 DEF ChangeStep

LEMMA CopyMoved ==
  ASSUME NEW c, NEW next, HoldsCopy(c)
  PROVE  [c EXCEPT !.at = "disk", !.copy = next] =
           [at |-> "disk", copy |-> next, owner |-> c.owner, about |-> c.about,
            pauses |-> c.pauses, outdated |-> c.outdated, code |-> c.code]
<1> DEFINE d == [c EXCEPT !.at = "disk", !.copy = next]
<1>1. DOMAIN c = {"at", "copy", "owner", "about", "pauses", "outdated", "code"}
  BY DEF HoldsCopy
<1>2. d = [x \in DOMAIN c |-> IF x = "copy" THEN next ELSE IF x = "at" THEN "disk" ELSE c[x]]
  OBVIOUS
<1> QED BY <1>1, <1>2

LEMMA BindCallsStep ==
  ASSUME ManagementInv, NEW s \in Slots, BindStep(s) PROVE CallsFine'
<1>1. UNCHANGED proven
  BY DEF BindStep, BindStart, StoreChallenge, BindVerify, Verify, Mismatch, ClearChallenge, history
<1>2. CASE BindStart(s)
  <2>1. PICK o \in Operators, u \in Uids :
          Goto(s, [at |-> "challenge", owner |-> o, code |-> Code(s, o, u)])
    BY <1>2 DEF BindStart
  <2> DEFINE c == [at |-> "challenge", owner |-> o, code |-> Code(s, o, u)]
  <2>2. GivenTo(Code(s, o, u), o) BY DEF GivenTo, Code
  <2>3. CallFine(c, proven) BY <2>2 DEF CallFine, Holding, Publishing
  <2>4. call' = [call EXCEPT ![s] = c] BY <2>1 DEF Goto
  <2> QED BY <1>1, <2>3, <2>4, OneCall DEF ManagementInv
<1>3. CASE StoreChallenge(s) \/ Mismatch(s) \/ ClearChallenge(s)
  <2>1. call' = [call EXCEPT ![s] = Idle]
    BY <1>3 DEF StoreChallenge, Mismatch, ClearChallenge, Goto
  <2>2. CallFine(Idle, proven) BY DEF CallFine, Idle, Holding, Publishing
  <2> QED BY <1>1, <2>1, <2>2, OneCall DEF ManagementInv
<1>4. CASE BindVerify(s)
  <2>1. PICK o \in Operators :
          /\ challenge[o] # NoCode
          /\ Take(s, "profile", live, {}, {SelfId(s, o)} \cup IdsOf(live \ OthersThan(live, o)), o)
    BY <1>4 DEF BindVerify
  <2>2. GivenTo(challenge[o], o) BY <2>1 DEF ManagementInv, StoresFine
  <2> QED BY <1>1, <2>1, <2>2, TakesCopy, ManagementAssumption DEF ManagementInv, StoresFine, Holding
<1>5. CASE Verify(s)
  <2> DEFINE c == call[s]
             next == WithoutOwner(c.copy, c.owner) \cup {Entry(SelfId(s, c.owner), c.code[2], c.owner)}
             d == [c EXCEPT !.at = "disk", !.copy = next]
  <2>1. CallFine(c, proven) /\ c.at = "profile" BY <1>5 DEF Verify, At, ManagementInv, CallsFine
  <2>2. HoldsCopy(c) /\ SoundFor(c.copy, proven) /\ c.code # NoCode /\ GivenTo(c.code, c.owner)
    BY <2>1 DEF CallFine, Holding
  <2>3. bilibili.sign[c.code[2]] = c.code BY <1>5 DEF Verify, SignatureMatches
  <2>4. <<c.code[2], c.code>> \in proven BY <2>2, <2>3 DEF GivenTo, ManagementInv, StoresFine
  <2>5. SoundFor(next, proven) BY <2>2, <2>4, SoundBound DEF GivenTo
  <2>6. call' = [call EXCEPT ![s] = IF UniqueIds(next) THEN d ELSE Idle]
    BY <1>5 DEF Verify, Goto
  <2>7. CallFine(d, proven)
    <3>1. d = [at |-> "disk", copy |-> next, owner |-> c.owner, about |-> c.about,
               pauses |-> c.pauses, outdated |-> c.outdated, code |-> c.code]
      BY <2>2, CopyMoved DEF HoldsCopy
    <3>2. HoldsCopy(d) /\ d.at = "disk" /\ d.copy = next BY <3>1 DEF HoldsCopy
    <3> HIDE DEF next, d
    <3> QED BY <2>5, <3>2 DEF CallFine, Holding, Publishing
  <2>8. CallFine(Idle, proven) BY DEF CallFine, Idle, Holding, Publishing
  <2>9. CASE UniqueIds(next)
    <3>1. call' = [call EXCEPT ![s] = d] BY <2>6, <2>9
    <3> QED BY <1>1, <2>7, <3>1, OneCall DEF ManagementInv
  <2>10. CASE ~UniqueIds(next)
    <3>1. call' = [call EXCEPT ![s] = Idle] BY <2>6, <2>10
    <3> QED BY <1>1, <2>8, <3>1, OneCall DEF ManagementInv
  <2> QED BY <2>9, <2>10
<1> QED BY <1>2, <1>3, <1>4, <1>5 DEF BindStep

LEMMA OtherCallsStep ==
  ASSUME ManagementInv,
         \/ \E s \in Slots : Fail(s)
         \/ \E u \in Uids : Sign(u)
         \/ SourceReads \/ SourceLoads \/ SourceStops \/ Crash
  PROVE  CallsFine'
<1>0. CallFine(Idle, proven) BY DEF CallFine, Idle, Holding, Publishing
<1>1. CASE \E s \in Slots : Fail(s)
  <2>1. PICK s \in Slots : Fail(s) BY <1>1
  <2>2. call' = [call EXCEPT ![s] = Idle] /\ UNCHANGED proven BY <2>1 DEF Fail, Goto, history
  <2> QED BY <1>0, <2>2, OneCall DEF ManagementInv
<1>2. CASE \E u \in Uids : Sign(u)
  <2>1. call' = call /\ proven \subseteq proven' BY <1>2 DEF Sign
  <2> QED BY <2>1, MoreProven DEF ManagementInv, CallsFine
<1>3. CASE SourceReads \/ SourceLoads \/ SourceStops
  <2>1. UNCHANGED <<call, proven>> BY <1>3 DEF SourceReads, SourceLoads, SourceStops, history
  <2> QED BY <2>1 DEF ManagementInv, CallsFine
<1>4. CASE Crash
  <2>1. call' = [s \in Slots |-> Idle] /\ UNCHANGED proven BY <1>4 DEF Crash
  <2> QED BY <1>0, <2>1 DEF CallsFine
<1> QED BY <1>1, <1>2, <1>3, <1>4

LEMMA CallsStep == ASSUME ManagementInv, ManagementNext PROVE CallsFine'
BY LoginCallsStep, ChangeCallsStep, BindCallsStep, OtherCallsStep DEF ManagementNext

-----------------------------------------------------------------------------
(* The steps of requests, as changes of the stores.                        *)

\* What bears on the stores stays, or is replaced by what is as good.
LEMMA StoresChange ==
  ASSUME StoresFine, SoundFor(live', proven), SoundFor(disk', proven),
         UNCHANGED <<challenge, bilibili, proven>>
  PROVE  StoresFine'
BY DEF StoresFine

LEMMA ChallengesChange ==
  ASSUME StoresFine, NEW o, NEW code, challenge' = [challenge EXCEPT ![o] = code],
         code # NoCode => GivenTo(code, o),
         UNCHANGED <<live, disk, bilibili, proven>>
  PROVE  StoresFine'
BY DEF StoresFine

LEMMA KeysChange ==
  ASSUME StoresFine, UNCHANGED <<live, disk, challenge, proven>>,
         bilibili'.sign = bilibili.sign,
         bilibili' = [issued |-> bilibili'.issued, confirmed |-> bilibili'.confirmed,
                      sign |-> bilibili'.sign]
  PROVE  StoresFine'
BY DEF StoresFine

LEMMA StoresStep == ASSUME ManagementInv, ManagementNext PROVE StoresFine'
<1>0. StoresFine /\ CallsFine
  BY DEF ManagementInv
<1>k. bilibili = [issued |-> bilibili.issued, confirmed |-> bilibili.confirmed,
                  sign |-> bilibili.sign]
  BY <1>0 DEF StoresFine
<1>1. ASSUME NEW s \in Slots, LoginStep(s) PROVE StoresFine'
  <2>1. UNCHANGED <<live, disk, challenge, proven>>
    BY <1>1 DEF LoginStep, LoginStart, StoreSession, LoginPoll, QrPending, QrExpired, QrConfirmed,
                CredentialClear, Rotate, Publish, ForgetSession, stores, tables, history
  <2>2. \/ bilibili' = bilibili
        \/ bilibili' = [bilibili EXCEPT !.issued = @ + 1]
        \/ bilibili' = [bilibili EXCEPT !.confirmed = @ \cup {call[s].key}]
    BY <1>1 DEF LoginStep, LoginStart, StoreSession, LoginPoll, QrPending, QrExpired, QrConfirmed,
                CredentialClear, Rotate, Publish, ForgetSession
  <2>3. \E n, set : bilibili' = [issued |-> n, confirmed |-> set, sign |-> bilibili.sign]
    BY <2>2, <1>k
  <2>4. /\ bilibili'.sign = bilibili.sign
        /\ bilibili' = [issued |-> bilibili'.issued, confirmed |-> bilibili'.confirmed,
                        sign |-> bilibili'.sign]
    BY <2>3
  <2> QED BY <1>0, <2>1, <2>4, KeysChange
<1>2. ASSUME NEW s \in Slots, ChangeStep(s) PROVE StoresFine'
  <2>1. UNCHANGED <<challenge, bilibili, proven>>
    BY <1>2 DEF ChangeStep, Subscribe, Unsubscribe, SetPaused, Unbind, Change, WriteDisk, WriteLive,
                tables
  <2>2. UNCHANGED <<live, disk>> \/ WriteDisk(s) \/ WriteLive(s)
    BY <1>2 DEF ChangeStep, Subscribe, Unsubscribe, SetPaused, Unbind, Change, stores
  <2>3. /\ live' = live \/ (At(s, "live") /\ live' = call[s].copy)
        /\ disk' = disk \/ (At(s, "disk") /\ disk' = call[s].copy)
    <3>1. CASE WriteDisk(s) BY <3>1 DEF WriteDisk
    <3>2. CASE WriteLive(s) BY <3>2 DEF WriteLive
    <3> QED BY <2>2, <3>1, <3>2
  <2>4. SoundFor(live', proven) BY <1>0, <2>3 DEF StoresFine, CallsFine, CallFine, At
  <2>5. SoundFor(disk', proven) BY <1>0, <2>3 DEF StoresFine, CallsFine, CallFine, At, Holding
  <2> QED BY <1>0, <2>1, <2>4, <2>5, StoresChange
<1>3. ASSUME NEW s \in Slots, BindStep(s) PROVE StoresFine'
  <2>1. UNCHANGED <<live, disk, bilibili, proven>>
    BY <1>3 DEF BindStep, BindStart, StoreChallenge, BindVerify, Verify, Mismatch, ClearChallenge,
                stores, history
  <2>2. CASE StoreChallenge(s)
    <3>1. GivenTo(call[s].code, call[s].owner)
      BY <1>0, <2>2 DEF StoreChallenge, At, CallsFine, CallFine
    <3>2. challenge' = [challenge EXCEPT ![call[s].owner] = call[s].code]
      BY <2>2 DEF StoreChallenge
    <3> QED BY <1>0, <2>1, <3>1, <3>2, ChallengesChange
  <2>3. CASE ClearChallenge(s)
    <3>1. challenge' = [challenge EXCEPT ![call[s].owner] = NoCode] BY <2>3 DEF ClearChallenge
    <3> QED BY <1>0, <2>1, <3>1, ChallengesChange
  <2>4. CASE BindStart(s) \/ BindVerify(s) \/ Verify(s) \/ Mismatch(s)
    <3>1. UNCHANGED challenge BY <2>4 DEF BindStart, BindVerify, Verify, Mismatch, tables
    <3> QED BY <1>0, <2>1, <3>1 DEF StoresFine
  <2> QED BY <1>3, <2>2, <2>3, <2>4 DEF BindStep
<1>4. ASSUME NEW u \in Uids, Sign(u) PROVE StoresFine'
  <2>1. PICK o \in Operators :
          /\ challenge[o] # NoCode
          /\ bilibili' = [bilibili EXCEPT !.sign[u] = challenge[o]]
          /\ proven' = proven \cup {<<u, challenge[o]>>}
    BY <1>4 DEF Sign
  <2>2. UNCHANGED <<live, disk, challenge>> BY <1>4 DEF Sign, stores, tables
  <2>3. bilibili' = [issued |-> bilibili.issued, confirmed |-> bilibili.confirmed,
                     sign |-> [bilibili.sign EXCEPT ![u] = challenge[o]]]
    BY <2>1, <1>k
  <2>4. /\ bilibili'.sign = [bilibili.sign EXCEPT ![u] = challenge[o]]
        /\ bilibili' = [issued |-> bilibili'.issued, confirmed |-> bilibili'.confirmed,
                        sign |-> bilibili'.sign]
    BY <2>3
  <2>5. DOMAIN bilibili'.sign = Uids BY <1>0, <2>4 DEF StoresFine
  <2>6. \A v \in Uids : bilibili'.sign[v] # NoCode => <<v, bilibili'.sign[v]>> \in proven'
    BY <1>0, <2>1, <2>4 DEF StoresFine
  <2>7. proven \subseteq proven' BY <2>1
  <2>8. SoundFor(live', proven') /\ SoundFor(disk', proven')
    BY <1>0, <2>2, <2>7, SoundSmaller DEF StoresFine
  <2> QED BY <1>0, <2>2, <2>4, <2>5, <2>6, <2>8 DEF StoresFine
<1>5. CASE Crash
  <2>1. live' = disk /\ UNCHANGED <<disk, challenge, bilibili, proven>> BY <1>5 DEF Crash, tables
  <2> QED BY <1>0, <2>1 DEF StoresFine
<1>6. CASE (\E s \in Slots : Fail(s)) \/ SourceReads \/ SourceLoads \/ SourceStops
  <2>1. UNCHANGED <<live, disk, challenge, bilibili, proven>>
    BY <1>6 DEF Fail, SourceReads, SourceLoads, SourceStops, stores, tables, history
  <2> QED BY <1>0, <2>1 DEF StoresFine
<1> QED BY <1>1, <1>2, <1>3, <1>4, <1>5, <1>6 DEF ManagementNext

-----------------------------------------------------------------------------
(* Requests that stay out of the two critical stretches: between product   *)
(* file and memory, and between secret and credential.                     *)

KeepsWriting ==
  \A t \in Slots : /\ (call'[t].at = "live") <=> (call[t].at = "live")
                   /\ call[t].at = "live" => call'[t].copy = call[t].copy
KeepsPublishing ==
  \A t \in Slots : /\ (call'[t].at \in Publishing) <=> (call[t].at \in Publishing)
                   /\ call[t].at \in Publishing => call'[t].value = call[t].value

LEMMA MovesKeep ==
  ASSUME NEW s \in Slots, \A t \in Slots \ {s} : call'[t] = call[t]
  PROVE  /\ call[s].at # "live" /\ call'[s].at # "live" => KeepsWriting
         /\ call[s].at \notin Publishing /\ call'[s].at \notin Publishing => KeepsPublishing
BY DEF KeepsWriting, KeepsPublishing

LEMMA TakeKeeps ==
  ASSUME CallsFine, NEW s \in Slots, NEW stage \in Holding, NEW next, NEW pauses, NEW about,
         NEW owner, At(s, "idle"), Take(s, stage, next, pauses, about, owner)
  PROVE  KeepsWriting /\ KeepsPublishing
<1> SUFFICES ASSUME NEW t \in Slots
             PROVE  \/ call'[t] = call[t]
                    \/ call[t].at = "idle" /\ call'[t].at \in Holding
                    \/ /\ call[t].at \in Holding \cup {"live"}
                       /\ call'[t].at = call[t].at /\ call'[t].copy = call[t].copy
  BY DEF KeepsWriting, KeepsPublishing, Holding, Publishing
<1>1. CASE t = s
  <2>1. call'[t].at = stage BY <1>1 DEF Take
  <2> QED BY <1>1, <2>1 DEF At
<1>2. CASE t # s /\ ~InFlight(t)
  <2>1. call'[t] = call[t] BY <1>2 DEF Take
  <2> QED BY <2>1
<1>3. CASE t # s /\ InFlight(t)
  <2> DEFINE c == call[t]
  <2>1. HoldsCopy(c) /\ c.at \in Holding \cup {"live"}
    BY <1>3 DEF CallsFine, CallFine, InFlight
  <2>2. call'[t] = [c EXCEPT !.pauses = @ \ about] BY <1>3 DEF Take
  <2> HIDE DEF c
  <2>3. call'[t] = [at |-> c.at, copy |-> c.copy, owner |-> c.owner, about |-> c.about,
                    pauses |-> c.pauses \ about, outdated |-> c.outdated, code |-> c.code]
    BY <2>1, <2>2 DEF HoldsCopy
  <2>4. call'[t].at = c.at /\ call'[t].copy = c.copy BY <2>3
  <2> QED BY <2>1, <2>4 DEF c
<1> QED BY <1>1, <1>2, <1>3

LEMMA LoginMoves ==
  ASSUME CallsFine, NEW s \in Slots, LoginStep(s)
  PROVE  /\ \A t \in Slots \ {s} : call'[t] = call[t]
         /\ call[s].at # "live" /\ call'[s].at # "live"
         /\ ~Rotate(s) /\ ~Publish(s) => call[s].at \notin Publishing /\ call'[s].at \notin Publishing
<1>0. DOMAIN call = Slots
  BY DEF CallsFine
<1>1. CASE Rotate(s) \/ Publish(s)
  <2>1. call[s] = [at |-> call[s].at, value |-> call[s].value] /\ call[s].at # "live"
    BY <1>1 DEF Rotate, Publish, At, CallsFine, CallFine, HoldsValue, Publishing
  <2>2. \A stage : [call[s] EXCEPT !.at = stage] = [at |-> stage, value |-> call[s].value]
    BY <2>1
  <2>3. \/ call' = [call EXCEPT ![s] = [at |-> "publish", value |-> call[s].value]]
        \/ call' = [call EXCEPT ![s] = [at |-> "republish", value |-> call[s].value]]
        \/ call' = [call EXCEPT ![s] = Idle]
        \/ call' = [call EXCEPT ![s] = [at |-> "forget"]]
    BY <1>1, <2>2 DEF Rotate, Publish, Goto
  <2> QED BY <1>0, <1>1, <2>1, <2>3 DEF Idle
<1>2. CASE ~(Rotate(s) \/ Publish(s))
  <2>1. \/ call' = [call EXCEPT ![s] = [at |-> "session", key |-> bilibili.issued + 1]]
        \/ call' = [call EXCEPT ![s] = Idle]
        \/ call' = [call EXCEPT ![s] = [at |-> "qr", key |-> qrSession[Platform(s)]]]
        \/ call' = [call EXCEPT ![s] = [at |-> "forget"]]
        \/ call' = [call EXCEPT ![s] = [at |-> "rotate", value |-> call[s].key]]
        \/ call' = [call EXCEPT ![s] = [at |-> "rotate", value |-> 0]]
    BY <1>2 DEF LoginStep, LoginStart, StoreSession, LoginPoll, QrPending, QrExpired,
                QrConfirmed, CredentialClear, ForgetSession, Goto
  <2>2. call[s].at \in {"idle", "session", "qr", "forget"}
    BY <1>2 DEF LoginStep, LoginStart, StoreSession, LoginPoll, QrPending, QrExpired,
                QrConfirmed, CredentialClear, ForgetSession, Begins, At
  <2> QED BY <1>0, <2>1, <2>2 DEF Idle, Publishing
<1> QED BY <1>1, <1>2

LEMMA OthersKeep ==
  ASSUME CallsFine, NEW s \in Slots,
         (ChangeStep(s) /\ ~WriteDisk(s) /\ ~WriteLive(s)) \/ BindStep(s) \/ Fail(s)
  PROVE  KeepsWriting /\ KeepsPublishing
<1>0. DOMAIN call = Slots
  BY DEF CallsFine
<1>i. /\ Idle.at # "live" /\ Idle.at \notin Publishing
      /\ \A c : c.at \in Holding \cup {"idle", "challenge", "verified"} =>
           c.at # "live" /\ c.at \notin Publishing
  BY DEF Idle, Holding, Publishing
<1>1. CASE ChangeStep(s) /\ ~WriteDisk(s) /\ ~WriteLive(s)
  <2>1. PICK operation, next, pauses, about : Change(s, operation, next, pauses, about)
    BY <1>1 DEF ChangeStep, Subscribe, Unsubscribe, SetPaused, Unbind
  <2>2. At(s, "idle") BY <2>1 DEF Change, Begins
  <2>3. CASE UniqueIds(next)
    <3>1. Take(s, "disk", next, pauses, about, Nobody) BY <2>1, <2>3 DEF Change
    <3> QED BY <2>2, <3>1, TakeKeeps DEF Holding
  <2>4. CASE ~UniqueIds(next)
    <3>1. UNCHANGED call BY <2>1, <2>4 DEF Change
    <3> QED BY <3>1 DEF KeepsWriting, KeepsPublishing
  <2> QED BY <2>3, <2>4
<1>2. CASE BindStart(s)
  <2>1. call[s].at = "idle" BY <1>2 DEF BindStart, Begins, At
  <2>2. PICK o, u : call' = [call EXCEPT ![s] = [at |-> "challenge", owner |-> o,
                                                 code |-> Code(s, o, u)]]
    BY <1>2 DEF BindStart, Goto
  <2>3. call'[s].at = "challenge" /\ \A t \in Slots \ {s} : call'[t] = call[t] BY <1>0, <2>2
  <2> QED BY <1>i, <2>1, <2>3, MovesKeep
<1>3. CASE StoreChallenge(s) \/ Mismatch(s) \/ ClearChallenge(s) \/ Fail(s)
  <2>1. call[s].at # "live" /\ call[s].at \notin Publishing
    BY <1>3 DEF StoreChallenge, Mismatch, ClearChallenge, Fail, At, Publishing
  <2>2. call' = [call EXCEPT ![s] = Idle]
    BY <1>3 DEF StoreChallenge, Mismatch, ClearChallenge, Fail, Goto
  <2>3. call'[s] = Idle /\ \A t \in Slots \ {s} : call'[t] = call[t] BY <1>0, <2>2
  <2> QED BY <1>i, <2>1, <2>3, MovesKeep
<1>4. CASE BindVerify(s)
  <2>1. PICK o \in Operators : Take(s, "profile", live, {},
                                    {SelfId(s, o)} \cup IdsOf(live \ OthersThan(live, o)), o)
    BY <1>4 DEF BindVerify
  <2>2. At(s, "idle") BY <1>4 DEF BindVerify, Begins
  <2> QED BY <2>1, <2>2, TakeKeeps DEF Holding
<1>5. CASE Verify(s)
  <2>1. HoldsCopy(call[s]) /\ call[s].at = "profile"
    BY <1>5 DEF Verify, At, CallsFine, CallFine, Holding
  <2>2. PICK next : \/ call' = [call EXCEPT ![s] = [call[s] EXCEPT !.at = "disk", !.copy = next]]
                    \/ call' = [call EXCEPT ![s] = Idle]
    BY <1>5 DEF Verify, Goto
  <2> DEFINE d == [call[s] EXCEPT !.at = "disk", !.copy = next]
  <2>3. d.at = "disk" /\ Idle.at = "idle"
    BY <2>1, CopyMoved DEF Idle
  <2> HIDE DEF d
  <2>4. (call'[s] = d \/ call'[s] = Idle) /\ \A t \in Slots \ {s} : call'[t] = call[t]
    BY <1>0, <2>2 DEF d
  <2> QED BY <1>i, <2>1, <2>3, <2>4, MovesKeep DEF Holding
<1> QED BY <1>1, <1>2, <1>3, <1>4, <1>5 DEF BindStep

\* What writing the product file does to the records of the requests.
LEMMA WriteDiskMoves ==
  ASSUME CallsFine, NEW s \in Slots, WriteDisk(s)
  PROVE  /\ call[s].at = "disk" /\ call'[s].at = "live" /\ call'[s].copy = call[s].copy
         /\ \A t \in Slots \ {s} : \/ call'[t] = call[t]
                                   \/ call[t].at \in Holding /\ call'[t].at \in Holding
<1>1. CallFine(call[s], proven) /\ HoldsCopy(call[s]) /\ call[s].at = "disk"
  BY DEF WriteDisk, At, CallsFine, CallFine, Holding
<1>2. call'[s] = [call[s] EXCEPT !.at = "live"]
  BY DEF WriteDisk
<1>3. call'[s].at = "live" /\ call'[s].copy = call[s].copy
  BY <1>1, <1>2 DEF HoldsCopy
<1>4. ASSUME NEW t \in Slots \ {s}
      PROVE  \/ call'[t] = call[t]
             \/ call[t].at \in Holding /\ call'[t].at \in Holding
  <2> DEFINE c == call[t]
  <2>1. CASE c.at \notin Holding BY <2>1 DEF WriteDisk
  <2>2. CASE c.at \in Holding
    <3>1. call'[t] = [c EXCEPT !.outdated = TRUE] BY <2>2 DEF WriteDisk
    <3>2. HoldsCopy(c) BY <2>2 DEF CallsFine, CallFine
    <3> HIDE DEF c
    <3>3. call'[t].at = c.at BY <3>1, <3>2 DEF HoldsCopy
    <3> QED BY <2>2, <3>3 DEF c
  <2> QED BY <2>1, <2>2
<1> QED BY <1>1, <1>3, <1>4

LEMMA WriteLiveMoves ==
  ASSUME CallsFine, NEW s \in Slots, WriteLive(s)
  PROVE  /\ call[s].at = "live" /\ call'[s].at \in {"idle", "verified"}
         /\ \A t \in Slots \ {s} : call'[t] = call[t]
BY DEF WriteLive, Goto, Idle, CallsFine, At

-----------------------------------------------------------------------------
(* The product file and the memory.                                        *)

LEMMA ConfigurationKept ==
  ASSUME ConfigurationAgrees, KeepsWriting, UNCHANGED <<live, disk>>, overlapped => overlapped'
  PROVE  ConfigurationAgrees'
BY DEF ConfigurationAgrees, KeepsWriting, Unwritten, At

LEMMA ConfigurationStep == ASSUME ManagementInv, ManagementNext PROVE ConfigurationAgrees'
<1>0. CallsFine /\ ConfigurationAgrees
  BY DEF ManagementInv
<1>1. ASSUME NEW s \in Slots, LoginStep(s) PROVE ConfigurationAgrees'
  <2>1. overlapped => overlapped'
    <3>1. CASE Rotate(s) BY <3>1, Zenon DEF Rotate
    <3>2. CASE ~Rotate(s)
      BY <1>1, <3>2 DEF LoginStep, LoginStart, StoreSession, LoginPoll, QrPending, QrExpired,
                        QrConfirmed, CredentialClear, Publish, ForgetSession, history
    <3> QED BY <3>1, <3>2
  <2>2. UNCHANGED <<live, disk>>
    BY <1>1 DEF LoginStep, LoginStart, StoreSession, LoginPoll, QrPending, QrExpired, QrConfirmed,
                CredentialClear, Rotate, Publish, ForgetSession, stores, history
  <2>3. KeepsWriting BY <1>0, <1>1, LoginMoves, MovesKeep
  <2> QED BY <1>0, <2>1, <2>2, <2>3, ConfigurationKept
<1>2. ASSUME NEW s \in Slots,
             (ChangeStep(s) /\ ~WriteDisk(s) /\ ~WriteLive(s)) \/ BindStep(s) \/ Fail(s)
      PROVE  ConfigurationAgrees'
  <2>1. UNCHANGED <<live, disk, overlapped>>
    BY <1>2 DEF ChangeStep, Subscribe, Unsubscribe, SetPaused, Unbind, Change, BindStep, BindStart,
                StoreChallenge, BindVerify, Verify, Mismatch, ClearChallenge, Fail, stores, history
  <2> QED BY <1>0, <1>2, <2>1, OthersKeep, ConfigurationKept
<1>3. ASSUME NEW s \in Slots, WriteDisk(s) PROVE ConfigurationAgrees'
  <2>1. CASE overlapped'
    BY <2>1 DEF ConfigurationAgrees
  <2>2. CASE ~overlapped'
    <3>1. disk' = call[s].copy /\ \A t \in Slots \ {s} : call[t].at # "live"
      BY <1>3, <2>2 DEF WriteDisk, At
    <3>2. /\ call'[s].at = "live" /\ call'[s].copy = call[s].copy
          /\ \A t \in Slots \ {s} : call'[t].at # "live"
      BY <1>0, <1>3, <3>1, WriteDiskMoves DEF Holding
    <3> QED BY <3>1, <3>2 DEF ConfigurationAgrees, Unwritten, At
  <2> QED BY <2>1, <2>2
<1>4. ASSUME NEW s \in Slots, WriteLive(s) PROVE ConfigurationAgrees'
  <2>1. live' = call[s].copy /\ UNCHANGED <<disk, overlapped>>
    BY <1>4 DEF WriteLive
  <2> QED BY <1>0, <1>4, <2>1, WriteLiveMoves DEF ConfigurationAgrees, Unwritten, At
<1>5. CASE Crash
  <2>1. live' = disk' /\ \A s \in Slots : call'[s].at # "live" BY <1>5 DEF Crash, Idle
  <2> QED BY <2>1 DEF ConfigurationAgrees, At
<1>6. CASE (\E u \in Uids : Sign(u)) \/ SourceReads \/ SourceLoads \/ SourceStops
  <2>1. UNCHANGED <<live, disk, overlapped, call>>
    BY <1>6 DEF Sign, SourceReads, SourceLoads, SourceStops, stores, history
  <2>2. KeepsWriting BY <2>1 DEF KeepsWriting
  <2> QED BY <1>0, <2>1, <2>2, ConfigurationKept
<1> QED BY <1>1, <1>2, <1>3, <1>4, <1>5, <1>6 DEF ManagementNext, ChangeStep

-----------------------------------------------------------------------------
(* The Host secret and the credential.                                     *)

LEMMA CredentialKept ==
  ASSUME CredentialAgrees, KeepsPublishing, UNCHANGED <<credential, secret, source>>,
         overlapped => overlapped'
  PROVE  CredentialAgrees'
BY DEF CredentialAgrees, KeepsPublishing

LEMMA CredentialStep == ASSUME ManagementInv, ManagementNext PROVE CredentialAgrees'
<1>0. CallsFine /\ CredentialAgrees
  BY DEF ManagementInv
<1>1. ASSUME NEW s \in Slots, LoginStep(s), ~Rotate(s), ~Publish(s) PROVE CredentialAgrees'
  <2>1. UNCHANGED <<credential, secret, source, overlapped>>
    BY <1>1 DEF LoginStep, LoginStart, StoreSession, LoginPoll, QrPending, QrExpired, QrConfirmed,
                CredentialClear, ForgetSession, stores, history
  <2>2. KeepsPublishing BY <1>0, <1>1, LoginMoves, MovesKeep
  <2> QED BY <1>0, <2>1, <2>2, CredentialKept
<1>2. ASSUME NEW s \in Slots, Rotate(s) PROVE CredentialAgrees'
  <2>1. CASE overlapped'
    BY <2>1 DEF CredentialAgrees
  <2>2. CASE ~overlapped'
    <3>1. source.at # "loading" /\ \A t \in Slots \ {s} : call[t].at \notin Publishing
      BY <1>2, <2>2 DEF Rotate
    <3>2. secret' = call[s].value /\ UNCHANGED source BY <1>2 DEF Rotate
    <3>3. call[s] = [at |-> call[s].at, value |-> call[s].value]
      BY <1>0, <1>2 DEF Rotate, At, CallsFine, CallFine, HoldsValue
    <3>4. [call[s] EXCEPT !.at = "publish"] = [at |-> "publish", value |-> call[s].value]
      BY <3>3
    <3>5. call' = [call EXCEPT ![s] = [at |-> "publish", value |-> call[s].value]]
      BY <1>2, <3>4 DEF Rotate, Goto
    <3>6. /\ call'[s].at \in Publishing /\ call'[s].value = call[s].value
          /\ \A t \in Slots \ {s} : call'[t] = call[t]
      BY <1>0, <3>5 DEF Publishing, CallsFine
    <3> QED BY <3>1, <3>2, <3>6 DEF CredentialAgrees
  <2> QED BY <2>1, <2>2
<1>3. ASSUME NEW s \in Slots, Publish(s) PROVE CredentialAgrees'
  <2>1. /\ call[s].at \in Publishing /\ credential' = call[s].value
        /\ UNCHANGED <<secret, source, overlapped>>
    BY <1>3 DEF Publish, history
  <2>2. call[s] = [at |-> call[s].at, value |-> call[s].value]
    BY <1>0, <2>1 DEF CallsFine, CallFine, HoldsValue
  <2>3. [call[s] EXCEPT !.at = "republish"] = [at |-> "republish", value |-> call[s].value]
    BY <2>2
  <2>4. \/ call' = [call EXCEPT ![s] = [at |-> "republish", value |-> call[s].value]]
        \/ call' = [call EXCEPT ![s] = Idle]
        \/ call' = [call EXCEPT ![s] = [at |-> "forget"]]
    BY <1>3, <2>3 DEF Publish, Goto
  <2>5. /\ call'[s].at \in Publishing => call'[s].value = call[s].value
        /\ \A t \in Slots \ {s} : call'[t] = call[t]
    BY <1>0, <2>4 DEF Publishing, Idle, CallsFine
  <2> QED BY <1>0, <2>1, <2>5 DEF CredentialAgrees
<1>4. ASSUME NEW s \in Slots,
             (ChangeStep(s) /\ ~WriteDisk(s) /\ ~WriteLive(s)) \/ BindStep(s) \/ Fail(s)
      PROVE  CredentialAgrees'
  <2>1. UNCHANGED <<credential, secret, source, overlapped>>
    BY <1>4 DEF ChangeStep, Subscribe, Unsubscribe, SetPaused, Unbind, Change, BindStep, BindStart,
                StoreChallenge, BindVerify, Verify, Mismatch, ClearChallenge, Fail, stores, history
  <2> QED BY <1>0, <1>4, <2>1, OthersKeep, CredentialKept
<1>5. ASSUME NEW s \in Slots, WriteDisk(s) PROVE CredentialAgrees'
  <2>1. UNCHANGED <<credential, secret, source>> BY <1>5 DEF WriteDisk
  <2>2. overlapped => overlapped' BY <1>5, Zenon DEF WriteDisk
  <2>3. \A t \in Slots : \/ call'[t] = call[t]
                         \/ call[t].at \notin Publishing /\ call'[t].at \notin Publishing
    BY <1>0, <1>5, WriteDiskMoves DEF Holding, Publishing
  <2>4. KeepsPublishing BY <2>3 DEF KeepsPublishing
  <2> QED BY <1>0, <2>1, <2>2, <2>4, CredentialKept
<1>6. ASSUME NEW s \in Slots, WriteLive(s) PROVE CredentialAgrees'
  <2>1. UNCHANGED <<credential, secret, source, overlapped>> BY <1>6 DEF WriteLive
  <2>2. \A t \in Slots : \/ call'[t] = call[t]
                         \/ call[t].at \notin Publishing /\ call'[t].at \notin Publishing
    BY <1>0, <1>6, WriteLiveMoves DEF Publishing
  <2>3. KeepsPublishing BY <2>2 DEF KeepsPublishing
  <2> QED BY <1>0, <2>1, <2>3, CredentialKept
<1>7. CASE SourceReads
  <2>1. source' = [at |-> "loading", read |-> secret] BY <1>7 DEF SourceReads
  <2>2. source'.at = "loading" /\ source'.read = secret BY <2>1
  <2>3. UNCHANGED <<call, secret, overlapped>> BY <1>7 DEF SourceReads, stores, history
  <2> QED BY <1>0, <2>2, <2>3 DEF CredentialAgrees
<1>8. CASE SourceLoads
  <2>1. source.at = "loading" /\ credential' = source.read /\ UNCHANGED <<call, secret, overlapped>>
    BY <1>8 DEF SourceLoads, history
  <2>2. source'.at = "running" BY <1>8 DEF SourceLoads
  <2> QED BY <1>0, <2>1, <2>2 DEF CredentialAgrees
<1>9. CASE SourceStops
  <2>1. source'.at = "stopped" BY <1>9 DEF SourceStops, Restarts
  <2>2. UNCHANGED <<call, secret, overlapped>> BY <1>9 DEF SourceStops, history
  <2> QED BY <1>0, <2>1, <2>2 DEF CredentialAgrees
<1>10. CASE Crash
  <2>1. source'.at = "stopped" BY <1>10 DEF Crash, Restarts
  <2>2. \A s \in Slots : call'[s].at \notin Publishing BY <1>10 DEF Crash, Idle, Publishing
  <2> QED BY <2>1, <2>2 DEF CredentialAgrees
<1>11. CASE \E u \in Uids : Sign(u)
  <2>1. UNCHANGED <<call, credential, secret, source, overlapped>> BY <1>11 DEF Sign, stores
  <2>2. KeepsPublishing BY <2>1 DEF KeepsPublishing
  <2> QED BY <1>0, <2>1, <2>2, CredentialKept
<1> QED BY <1>1, <1>2, <1>3, <1>4, <1>5, <1>6, <1>7, <1>8, <1>9, <1>10, <1>11
        DEF ManagementNext, ChangeStep

LEMMA ManagementStep == ASSUME ManagementInv, ManagementNext PROVE ManagementInv'
BY CallsStep, StoresStep, ConfigurationStep, CredentialStep DEF ManagementInv

LEMMA ManagementUnchanged == ASSUME ManagementInv, UNCHANGED managementVars PROVE ManagementInv'
<1>1. UNCHANGED <<live, disk, credential, secret, challenge, call, source, bilibili, proven,
                  overlapped>>
  BY DEF managementVars, stores, tables, history
<1> QED BY <1>1 DEF ManagementInv, CallsFine, StoresFine, ConfigurationAgrees, CredentialAgrees,
                    Unwritten, At

-----------------------------------------------------------------------------
(* Pauses.  A copy that is not outdated was taken from the product file,   *)
(* which nobody has written since.                                         *)

KeptIn(S) == \A x \in S : x.id \in paused => x.paused

\* The copy s holds is as good as the product file.
UpToDate(s) ==
  /\ \A t \in Slots : ~At(t, "live")
  /\ KeptIn(call[s].copy)
  /\ At(s, "profile") => SelfId(s, call[s].owner) \notin paused

FreshCopies ==
  /\ KeptIn(disk)
  /\ \A s, t \in Slots : At(s, "live") /\ At(t, "live") => s = t
  /\ (\A s \in Slots : ~At(s, "live")) => live = disk
  /\ \A s \in Slots : At(s, "live") => disk = call[s].copy
  /\ \A s \in Slots : call[s].at \in Holding => call[s].outdated \/ UpToDate(s)
  /\ \A s \in Slots : InFlight(s) =>
       \A x \in call[s].copy : x.id \in call[s].pauses => x.paused
  /\ \A s \in Slots : At(s, "profile") => call[s].pauses = {}

PauseInv == stale \/ FreshCopies

LEMMA PausesInitially == ASSUME ManagementInit PROVE PauseInv
BY DEF ManagementInit, PauseInv, FreshCopies, KeptIn, At, InFlight, Holding, Idle

\* A step that neither writes the configuration nor touches a request that holds a copy,
\* but for letting go of it before it is on disk.
LEMMA AsideKeepsPauses ==
  ASSUME FreshCopies, UNCHANGED <<live, disk>>, paused' \subseteq paused,
         \A t \in Slots : InFlight(t)' \/ At(t, "live") => call'[t] = call[t]
  PROVE  FreshCopies'
<1>1. \A t \in Slots : At(t, "live")' <=> At(t, "live")
  BY DEF At, InFlight
<1>2. KeptIn(disk)'
  BY DEF FreshCopies, KeptIn
<1>3. ASSUME NEW s \in Slots, call'[s].at \in Holding PROVE call'[s].outdated \/ UpToDate(s)'
  <2>1. call'[s] = call[s]
    BY <1>3 DEF InFlight
  <2>2. call[s].outdated \/ UpToDate(s)
    BY <1>3, <2>1 DEF FreshCopies
  <2> QED BY <1>1, <2>1, <2>2 DEF UpToDate, KeptIn, At
<1>4. ASSUME NEW s \in Slots, InFlight(s)'
      PROVE  \A x \in call'[s].copy : x.id \in call'[s].pauses => x.paused
  <2>1. call'[s] = call[s] /\ InFlight(s)
    BY <1>4 DEF InFlight
  <2> QED BY <2>1 DEF FreshCopies
<1>5. \A s \in Slots : At(s, "live")' => disk' = call'[s].copy
  BY <1>1 DEF FreshCopies, At
<1>6. /\ \A s, t \in Slots : At(s, "live")' /\ At(t, "live")' => s = t
      /\ (\A s \in Slots : ~At(s, "live")') => live' = disk'
  BY <1>1 DEF FreshCopies
<1>7. \A s \in Slots : At(s, "profile")' => call'[s].pauses = {}
  <2>1. \A s \in Slots : At(s, "profile")' => call'[s] = call[s]
    BY DEF At, InFlight, Holding
  <2> QED BY <2>1 DEF FreshCopies, At
<1> QED BY <1>2, <1>3, <1>4, <1>5, <1>6, <1>7 DEF FreshCopies

\* Taking a copy: what is changed in it has lost its pause, or is paused.
LEMMA TakeKeepsPauses ==
  ASSUME CallsFine, FreshCopies, UNCHANGED <<live, disk>>,
         NEW s \in Slots, At(s, "idle"), NEW stage \in Holding, NEW next, NEW pauses, NEW about,
         NEW owner, Take(s, stage, next, pauses, about, owner),
         live = disk => \A x \in next : x.id \in paused \ (about \ pauses) => x.paused,
         \A x \in next : x.id \in pauses => x.paused,
         stage = "profile" => pauses = {} /\ SelfId(s, owner) \in about
  PROVE  FreshCopies'
<1>1. /\ call'[s].at = stage /\ call'[s].copy = next /\ call'[s].owner = owner
      /\ call'[s].pauses \subseteq pauses
      /\ call'[s].outdated = \E r \in Slots : At(r, "live")
  BY DEF Take
<1>2. paused' = paused \ (about \ pauses)
  BY DEF Take
<1>3. ASSUME NEW t \in Slots \ {s}
      PROVE  \/ call'[t] = call[t] /\ ~InFlight(t)
             \/ /\ InFlight(t)
                /\ call'[t].at = call[t].at /\ call'[t].copy = call[t].copy
                /\ call'[t].owner = call[t].owner /\ call'[t].outdated = call[t].outdated
                /\ call'[t].pauses \subseteq call[t].pauses
  <2>1. CASE ~InFlight(t)
    BY <2>1 DEF Take
  <2>2. CASE InFlight(t)
    <3> DEFINE c == call[t]
    <3>1. HoldsCopy(c) BY <2>2 DEF CallsFine, CallFine, InFlight
    <3>2. call'[t] = [c EXCEPT !.pauses = @ \ about] BY <2>2 DEF Take
    <3> HIDE DEF c
    <3>3. call'[t] = [at |-> c.at, copy |-> c.copy, owner |-> c.owner, about |-> c.about,
                      pauses |-> c.pauses \ about, outdated |-> c.outdated, code |-> c.code]
      BY <3>1, <3>2 DEF HoldsCopy
    <3>4. /\ call'[t].at = c.at /\ call'[t].copy = c.copy /\ call'[t].owner = c.owner
          /\ call'[t].outdated = c.outdated /\ call'[t].pauses = c.pauses \ about
      BY <3>3
    <3> QED BY <2>2, <3>4 DEF c
  <2> QED BY <2>1, <2>2
<1>4. \A t \in Slots : At(t, "live")' <=> At(t, "live")
  <2>1. stage # "live" BY DEF Holding
  <2> QED BY <1>1, <1>3, <2>1 DEF At
<1>5. KeptIn(disk)'
  BY <1>2 DEF FreshCopies, KeptIn
<1>6. ASSUME NEW t \in Slots, call'[t].at \in Holding PROVE call'[t].outdated \/ UpToDate(t)'
  <2>1. CASE t = s
    <3> SUFFICES ASSUME \A r \in Slots : ~At(r, "live") PROVE UpToDate(t)'
      BY <1>1, <2>1
    <3>1. live = disk BY DEF FreshCopies
    <3> QED BY <1>1, <1>2, <1>4, <2>1, <3>1 DEF UpToDate, KeptIn, At
  <2>2. CASE t # s
    <3>1. /\ call'[t].at = call[t].at /\ call'[t].copy = call[t].copy
          /\ call'[t].owner = call[t].owner /\ call'[t].outdated = call[t].outdated
      BY <1>3, <2>2
    <3>2. call[t].outdated \/ UpToDate(t) BY <1>6, <3>1 DEF FreshCopies
    <3> QED BY <1>2, <1>4, <3>1, <3>2 DEF UpToDate, KeptIn, At
  <2> QED BY <2>1, <2>2
<1>7. ASSUME NEW t \in Slots, InFlight(t)', NEW x \in call'[t].copy, x.id \in call'[t].pauses
      PROVE  x.paused
  <2>1. CASE t = s BY <1>1, <1>7, <2>1
  <2>2. CASE t # s
    <3>1. InFlight(t) /\ call'[t].copy = call[t].copy /\ call'[t].pauses \subseteq call[t].pauses
      BY <1>3, <1>7, <2>2 DEF InFlight
    <3> QED BY <1>7, <3>1 DEF FreshCopies
  <2> QED BY <2>1, <2>2
<1>8. \A t \in Slots : At(t, "live")' => disk' = call'[t].copy
  <2>1. \A t \in Slots : At(t, "live") => t # s BY DEF At
  <2> QED BY <1>3, <1>4, <2>1 DEF FreshCopies
<1>9. /\ \A r, t \in Slots : At(r, "live")' /\ At(t, "live")' => r = t
      /\ (\A r \in Slots : ~At(r, "live")') => live' = disk'
  BY <1>4 DEF FreshCopies
<1>10. \A t \in Slots : At(t, "profile")' => call'[t].pauses = {}
  <2>1. At(s, "profile")' => call'[s].pauses = {} BY <1>1 DEF At
  <2>2. \A t \in Slots \ {s} : At(t, "profile")' => call'[t].pauses = {}
    <3>1. \A t \in Slots : At(t, "profile") => InFlight(t) BY DEF At, InFlight, Holding
    <3> QED BY <1>3, <3>1 DEF FreshCopies, At, InFlight, Holding
  <2> QED BY <2>1, <2>2
<1> QED BY <1>5, <1>6, <1>7, <1>8, <1>9, <1>10 DEF FreshCopies

\* A change of the subscriptions: refused, or taken as a copy for the product file.
LEMMA ChangeKeepsPauses ==
  ASSUME CallsFine, FreshCopies, NEW s \in Slots, NEW operation, NEW next, NEW pauses, NEW about,
         Change(s, operation, next, pauses, about),
         UniqueIds(next) => /\ \A x \in next : x.id \in pauses => x.paused
                            /\ KeptIn(live) => \A x \in next : x.id \in paused \ (about \ pauses) => x.paused
  PROVE  FreshCopies'
<1>1. UNCHANGED <<live, disk>> /\ At(s, "idle")
  BY DEF Change, Begins, stores
<1>2. CASE UniqueIds(next)
  <2>1. Take(s, "disk", next, pauses, about, Nobody) BY <1>2 DEF Change
  <2>2. live = disk => KeptIn(live) BY DEF FreshCopies
  <2>3. "disk" \in Holding /\ "disk" # "profile" BY DEF Holding
  <2>4. live = disk => \A x \in next : x.id \in paused \ (about \ pauses) => x.paused
    BY <1>2, <2>2
  <2>5. \A x \in next : x.id \in pauses => x.paused BY <1>2
  <2> QED BY <1>1, <2>1, <2>3, <2>4, <2>5, TakeKeepsPauses
<1>3. CASE ~UniqueIds(next)
  <2>1. UNCHANGED <<call, paused>> BY <1>3 DEF Change
  <2> QED BY <1>1, <2>1, AsideKeepsPauses
<1> QED BY <1>2, <1>3

LEMMA ChangesKeepPauses ==
  ASSUME ManagementInv, FreshCopies, NEW s \in Slots,
         Subscribe(s) \/ Unsubscribe(s) \/ SetPaused(s) \/ Unbind(s)
  PROVE  FreshCopies'
<1>0. CallsFine /\ SoundFor(live, proven)
  BY DEF ManagementInv, StoresFine
<1>1. CASE Subscribe(s)
  <2>1. PICK id \in AdminIds, u \in Uids :
          Change(s, "subscribe", WithoutId(live, id) \cup {Entry(id, u, Nobody)}, {}, {id})
    BY <1>1 DEF Subscribe
  <2> DEFINE next == WithoutId(live, id) \cup {Entry(id, u, Nobody)}
  <2>2. \A x \in next : x \in live \/ x.id = id BY DEF WithoutId, Entry
  <2>3. KeptIn(live) => \A x \in next : x.id \in paused \ ({id} \ {}) => x.paused
    BY <2>2 DEF KeptIn
  <2> HIDE DEF next
  <2>4. Change(s, "subscribe", next, {}, {id}) BY <2>1 DEF next
  <2> QED BY <1>0, <2>3, <2>4, ChangeKeepsPauses
<1>2. CASE Unsubscribe(s)
  <2>1. PICK x \in live : Change(s, "unsubscribe", WithoutId(live, x.id), {}, {x.id})
    BY <1>2 DEF Unsubscribe
  <2>2. KeptIn(live) => \A y \in WithoutId(live, x.id) : y.id \in paused \ ({x.id} \ {}) => y.paused
    BY DEF KeptIn, WithoutId
  <2> QED BY <1>0, <2>1, <2>2, ChangeKeepsPauses
<1>3. CASE Unbind(s)
  <2>1. PICK o \in Operators : Change(s, "unbind", WithoutOwner(live, o), {},
                                      IdsOf(live \ WithoutOwner(live, o)))
    BY <1>3 DEF Unbind
  <2>2. KeptIn(live) => \A y \in WithoutOwner(live, o) :
          y.id \in paused \ (IdsOf(live \ WithoutOwner(live, o)) \ {}) => y.paused
    BY DEF KeptIn, WithoutOwner, OthersThan
  <2> QED BY <1>0, <2>1, <2>2, ChangeKeepsPauses
<1>4. CASE SetPaused(s)
  <2>1. PICK x \in live, value \in BOOLEAN :
          Change(s, "pause", (live \ {x}) \cup {[x EXCEPT !.paused = value]},
                 {id \in {x.id} : value}, {x.id})
    BY <1>4 DEF SetPaused
  <2> DEFINE y == [x EXCEPT !.paused = value]
             next == (live \ {x}) \cup {y}
             pauses == {id \in {x.id} : value}
  <2>2. x = [id |-> x.id, uid |-> x.uid, owner |-> x.owner, paused |-> x.paused]
    BY <1>0 DEF SoundFor, IsEntry
  <2>3. y = [id |-> x.id, uid |-> x.uid, owner |-> x.owner, paused |-> value]
    BY <2>2
  <2>4. y.id = x.id /\ y.paused = value BY <2>3
  <2> HIDE DEF y
  <2>5. UniqueIds(next) => \A z \in next : z.id \in pauses => z.paused
    <3> SUFFICES ASSUME UniqueIds(next), NEW z \in next, z.id \in pauses PROVE z.paused
      OBVIOUS
    <3>1. z.id = y.id /\ value BY <2>4
    <3>2. z = y BY <3>1 DEF UniqueIds
    <3>3. z.paused = value BY <2>4, <3>2
    <3> QED BY <3>1, <3>3
  <2>6. KeptIn(live) => \A z \in next : z.id \in paused \ ({x.id} \ pauses) => z.paused
    <3> SUFFICES ASSUME KeptIn(live), NEW z \in next, z.id \in paused, z.id \notin {x.id} \ pauses
                 PROVE  z.paused
      OBVIOUS
    <3>1. CASE z \in live BY <3>1 DEF KeptIn
    <3>2. CASE z = y
      <4>1. x.id \in pauses BY <2>4, <3>2
      <4>2. value BY <4>1
      <4>3. z.paused = value BY <2>4, <3>2
      <4> QED BY <4>2, <4>3
    <3> QED BY <3>1, <3>2
  <2>7. Change(s, "pause", next, pauses, {x.id}) BY <2>1 DEF y
  <2> HIDE DEF next, pauses
  <2> QED BY <1>0, <2>5, <2>6, <2>7, ChangeKeepsPauses
<1> QED BY <1>1, <1>2, <1>3, <1>4

\* One request goes elsewhere without a copy.
LEMMA LeavesPauses ==
  ASSUME CallsFine, FreshCopies, NEW s \in Slots, NEW c, ~At(s, "live"),
         c.at \notin Holding \cup {"live"}, call' = [call EXCEPT ![s] = c],
         UNCHANGED <<live, disk, paused>>
  PROVE  FreshCopies'
<1>1. call'[s] = c /\ \A t \in Slots \ {s} : call'[t] = call[t]
  BY DEF CallsFine
<1>2. \A t \in Slots : InFlight(t)' \/ At(t, "live") => call'[t] = call[t]
  BY <1>1 DEF InFlight
<1> QED BY <1>2, AsideKeepsPauses

LEMMA LoginKeepsPauses ==
  ASSUME CallsFine, FreshCopies, NEW s \in Slots, LoginStep(s) PROVE FreshCopies'
<1>0. DOMAIN call = Slots
  BY DEF CallsFine
<1>1. UNCHANGED <<live, disk, paused>>
  BY DEF LoginStep, LoginStart, StoreSession, LoginPoll, QrPending, QrExpired, QrConfirmed,
         CredentialClear, Rotate, Publish, ForgetSession, stores, history
<1> DEFINE Away(c) == call' = [call EXCEPT ![s] = c] /\ c.at \notin Holding \cup {"live"}
<1>2. ~At(s, "live") /\ \E c : Away(c)
  <2>1. CASE Rotate(s) \/ Publish(s)
    <3>1. call[s] = [at |-> call[s].at, value |-> call[s].value] /\ ~At(s, "live")
      BY <2>1 DEF Rotate, Publish, At, CallsFine, CallFine, HoldsValue, Publishing
    <3>2. \A stage : [call[s] EXCEPT !.at = stage] = [at |-> stage, value |-> call[s].value]
      BY <3>1
    <3>3. \/ call' = [call EXCEPT ![s] = [at |-> "publish", value |-> call[s].value]]
          \/ call' = [call EXCEPT ![s] = [at |-> "republish", value |-> call[s].value]]
          \/ call' = [call EXCEPT ![s] = Idle]
          \/ call' = [call EXCEPT ![s] = [at |-> "forget"]]
      BY <2>1, <3>2 DEF Rotate, Publish, Goto
    <3>4. Away([at |-> "publish", value |-> call[s].value])
          \/ Away([at |-> "republish", value |-> call[s].value])
          \/ Away(Idle) \/ Away([at |-> "forget"])
      BY <3>3 DEF Idle, Holding
    <3> HIDE DEF Away
    <3> QED BY <3>1, <3>4
  <2>2. CASE ~(Rotate(s) \/ Publish(s))
    <3>1. ~At(s, "live")
      BY <2>2 DEF LoginStep, LoginStart, StoreSession, LoginPoll, QrPending, QrExpired,
                  QrConfirmed, CredentialClear, ForgetSession, Begins, At
    <3>2. \/ Away([at |-> "session", key |-> bilibili.issued + 1])
          \/ Away(Idle)
          \/ Away([at |-> "qr", key |-> qrSession[Platform(s)]])
          \/ Away([at |-> "forget"])
          \/ Away([at |-> "rotate", value |-> call[s].key])
          \/ Away([at |-> "rotate", value |-> 0])
      BY <2>2 DEF LoginStep, LoginStart, StoreSession, LoginPoll, QrPending, QrExpired,
                  QrConfirmed, CredentialClear, ForgetSession, Goto, Idle, Holding
    <3> HIDE DEF Away
    <3> QED BY <3>1, <3>2
  <2> QED BY <2>1, <2>2
<1>3. PICK c : Away(c)
  BY <1>2
<1> QED BY <1>1, <1>2, <1>3, LeavesPauses

LEMMA BindKeepsPauses ==
  ASSUME CallsFine, FreshCopies, NEW s \in Slots, BindStep(s) \/ Fail(s) PROVE FreshCopies'
<1>1. UNCHANGED <<live, disk>> /\ (paused' = paused \/ BindVerify(s))
  BY DEF BindStep, BindStart, StoreChallenge, BindVerify, Verify, Mismatch, ClearChallenge, Fail,
         stores, history
<1>2. CASE BindStart(s)
  <2>1. ~At(s, "live") /\ paused' = paused
    BY <1>2 DEF BindStart, Begins, At, history
  <2>2. PICK o, u : call' = [call EXCEPT ![s] = [at |-> "challenge", owner |-> o,
                                                 code |-> Code(s, o, u)]]
    BY <1>2 DEF BindStart, Goto
  <2> DEFINE c == [at |-> "challenge", owner |-> o, code |-> Code(s, o, u)]
  <2>3. call' = [call EXCEPT ![s] = c] BY <2>2
  <2>4. c.at \notin Holding \cup {"live"} BY DEF Holding
  <2> HIDE DEF c
  <2> QED BY <1>1, <2>1, <2>3, <2>4, LeavesPauses
<1>3. CASE StoreChallenge(s) \/ Mismatch(s) \/ ClearChallenge(s) \/ Fail(s)
  <2>1. ~At(s, "live") /\ call' = [call EXCEPT ![s] = Idle] /\ paused' = paused
    BY <1>3 DEF StoreChallenge, Mismatch, ClearChallenge, Fail, At, Goto, history
  <2>2. Idle.at \notin Holding \cup {"live"} BY DEF Idle, Holding
  <2> QED BY <1>1, <2>1, <2>2, LeavesPauses
<1>4. CASE BindVerify(s)
  <2>1. At(s, "idle") BY <1>4 DEF BindVerify, Begins
  <2>2. PICK o \in Operators : Take(s, "profile", live, {},
                                    {SelfId(s, o)} \cup IdsOf(live \ OthersThan(live, o)), o)
    BY <1>4 DEF BindVerify
  <2> DEFINE about == {SelfId(s, o)} \cup IdsOf(live \ OthersThan(live, o))
  <2>3. SelfId(s, o) \in about OBVIOUS
  <2> HIDE DEF about
  <2>4. Take(s, "profile", live, {}, about, o) BY <2>2 DEF about
  <2>5. live = disk => \A x \in live : x.id \in paused \ (about \ {}) => x.paused
    BY DEF FreshCopies, KeptIn
  <2>6. "profile" \in Holding BY DEF Holding
  <2> QED BY <1>1, <2>1, <2>3, <2>4, <2>5, <2>6, TakeKeepsPauses
<1>5. CASE Verify(s)
  <2> DEFINE c == call[s]
             next == WithoutOwner(c.copy, c.owner) \cup {Entry(SelfId(s, c.owner), c.code[2], c.owner)}
             d == [c EXCEPT !.at = "disk", !.copy = next]
  <2>1. c.at = "profile" /\ HoldsCopy(c)
    BY <1>5 DEF Verify, At, CallsFine, CallFine, Holding
  <2>2. call' = [call EXCEPT ![s] = IF UniqueIds(next) THEN d ELSE Idle]
        /\ UNCHANGED <<live, disk, paused>>
    BY <1>5 DEF Verify, Goto, stores, history
  <2>3. d.at = "disk" /\ d.copy = next /\ d.pauses = c.pauses /\ d.outdated = c.outdated
    BY <2>1, CopyMoved
  <2>4. \A x \in next : x \in c.copy \/ x.id = SelfId(s, c.owner)
    BY DEF WithoutOwner, OthersThan, Entry
  <2>5. c.pauses = {} /\ (c.outdated \/ UpToDate(s))
    BY <2>1 DEF FreshCopies, At, Holding
  <2>6. UpToDate(s) => KeptIn(next)
    BY <2>1, <2>4 DEF UpToDate, KeptIn, At
  <2>7. CASE ~UniqueIds(next)
    <3>1. call' = [call EXCEPT ![s] = Idle] BY <2>2, <2>7
    <3>2. Idle.at \notin Holding \cup {"live"} /\ ~At(s, "live") BY <2>1 DEF Idle, Holding, At
    <3> QED BY <2>2, <3>1, <3>2, LeavesPauses
  <2>8. CASE UniqueIds(next)
    <3> HIDE DEF d, next
    <3>1. call'[s] = d /\ \A t \in Slots \ {s} : call'[t] = call[t]
      BY <2>2, <2>8 DEF CallsFine
    <3>2. \A t \in Slots : At(t, "live")' <=> At(t, "live")
      BY <2>1, <2>3, <3>1 DEF At
    <3>3. \A t \in Slots : call'[t].at \in Holding => call'[t].outdated \/ UpToDate(t)'
      <4>1. call'[s].outdated \/ UpToDate(s)'
        BY <2>2, <2>3, <2>5, <2>6, <3>1, <3>2 DEF UpToDate, KeptIn, At
      <4>2. ASSUME NEW t \in Slots \ {s}, call'[t].at \in Holding
            PROVE  call'[t].outdated \/ UpToDate(t)'
        <5>1. call[t].outdated \/ UpToDate(t) BY <3>1, <4>2 DEF FreshCopies
        <5> QED BY <2>2, <3>1, <3>2, <4>2, <5>1 DEF UpToDate, KeptIn, At
      <4> QED BY <4>1, <4>2
    <3>4. \A t \in Slots : InFlight(t)' =>
            \A x \in call'[t].copy : x.id \in call'[t].pauses => x.paused
      BY <2>3, <2>5, <3>1 DEF FreshCopies, InFlight
    <3>5. \A t \in Slots : At(t, "profile")' => call'[t].pauses = {}
      BY <2>3, <3>1 DEF FreshCopies, At
    <3>6. \A t \in Slots : At(t, "live")' => disk' = call'[t].copy
      BY <2>1, <2>2, <3>1, <3>2 DEF FreshCopies, At
    <3>7. /\ KeptIn(disk)'
          /\ \A r, t \in Slots : At(r, "live")' /\ At(t, "live")' => r = t
          /\ (\A r \in Slots : ~At(r, "live")') => live' = disk'
      BY <2>2, <3>2 DEF FreshCopies, KeptIn
    <3> QED BY <3>3, <3>4, <3>5, <3>6, <3>7 DEF FreshCopies
  <2> QED BY <2>7, <2>8
<1> QED BY <1>2, <1>3, <1>4, <1>5 DEF BindStep

\* Writing the product file: every other copy is outdated from now on.
LEMMA WriteDiskKeepsPauses ==
  ASSUME CallsFine, PauseInv, NEW s \in Slots, WriteDisk(s) PROVE PauseInv'
<1>1. CASE stale \/ call[s].outdated
  BY <1>1, Zenon DEF WriteDisk, PauseInv
<1>2. CASE ~stale /\ ~call[s].outdated
  <2>1. FreshCopies /\ call[s].at = "disk" /\ HoldsCopy(call[s])
    BY <1>2 DEF PauseInv, WriteDisk, At, CallsFine, CallFine, Holding
  <2>2. UpToDate(s)
    BY <1>2, <2>1 DEF FreshCopies, Holding
  <2>3. disk' = call[s].copy /\ UNCHANGED <<live, paused>>
    BY DEF WriteDisk
  <2>4. /\ call'[s].at = "live" /\ call'[s].copy = call[s].copy
        /\ call'[s].pauses = call[s].pauses
    <3> DEFINE c == call[s]
    <3>1. call'[s] = [c EXCEPT !.at = "live"] BY DEF WriteDisk
    <3>2. HoldsCopy(c) BY <2>1
    <3> HIDE DEF c
    <3>3. /\ call'[s].at = "live" /\ call'[s].copy = c.copy /\ call'[s].pauses = c.pauses
      BY <3>1, <3>2 DEF HoldsCopy
    <3> QED BY <3>3 DEF c
  <2>5. ASSUME NEW t \in Slots \ {s}
        PROVE  /\ ~At(t, "live")'
               /\ call'[t].at \in Holding =>
                    /\ call'[t].at = call[t].at /\ call'[t].outdated
                    /\ call'[t].copy = call[t].copy /\ call'[t].pauses = call[t].pauses
    <3> DEFINE c == call[t]
    <3>1. c.at # "live" BY <2>2 DEF UpToDate, At
    <3>2. CASE c.at \notin Holding
      <4>1. call'[t] = c BY <3>2 DEF WriteDisk
      <4> QED BY <3>1, <3>2, <4>1 DEF At
    <3>3. CASE c.at \in Holding
      <4>1. call'[t] = [c EXCEPT !.outdated = TRUE] BY <3>3 DEF WriteDisk
      <4>2. HoldsCopy(c) BY <3>3 DEF CallsFine, CallFine
      <4> HIDE DEF c
      <4>3. /\ call'[t].at = c.at /\ call'[t].outdated
            /\ call'[t].copy = c.copy /\ call'[t].pauses = c.pauses
        BY <4>1, <4>2 DEF HoldsCopy
      <4> QED BY <3>1, <4>3 DEF At, c
    <3> QED BY <3>2, <3>3
  <2>6. KeptIn(disk)'
    BY <2>2, <2>3 DEF UpToDate, KeptIn
  <2>7. /\ \A r, t \in Slots : At(r, "live")' /\ At(t, "live")' => r = t
        /\ (\A r \in Slots : ~At(r, "live")') => live' = disk'
        /\ \A t \in Slots : At(t, "live")' => disk' = call'[t].copy
    BY <2>3, <2>4, <2>5 DEF At
  <2>8. \A t \in Slots : call'[t].at \in Holding => call'[t].outdated \/ UpToDate(t)'
    BY <2>4, <2>5 DEF Holding
  <2>9. \A t \in Slots : InFlight(t)' =>
          \A x \in call'[t].copy : x.id \in call'[t].pauses => x.paused
    <3>1. InFlight(s) BY <2>1 DEF InFlight, Holding
    <3>2. \A t \in Slots \ {s} : InFlight(t)' => call'[t].at \in Holding
      BY <2>5 DEF InFlight, At
    <3>3. \A x \in call'[s].copy : x.id \in call'[s].pauses => x.paused
      BY <2>1, <2>4, <3>1 DEF FreshCopies
    <3>4. ASSUME NEW t \in Slots \ {s}, InFlight(t)'
          PROVE  \A x \in call'[t].copy : x.id \in call'[t].pauses => x.paused
      <4>1. /\ call'[t].at = call[t].at /\ call[t].at \in Holding
            /\ call'[t].copy = call[t].copy /\ call'[t].pauses = call[t].pauses
        BY <2>5, <3>2, <3>4
      <4>2. InFlight(t) BY <4>1 DEF InFlight
      <4> QED BY <2>1, <4>1, <4>2 DEF FreshCopies
    <3> QED BY <3>3, <3>4
  <2>10. \A t \in Slots : At(t, "profile")' => call'[t].pauses = {}
    BY <2>1, <2>4, <2>5 DEF FreshCopies, At, Holding
  <2>11. FreshCopies'
    BY <2>6, <2>7, <2>8, <2>9, <2>10 DEF FreshCopies
  <2> QED BY <2>11 DEF PauseInv
<1> QED BY <1>1, <1>2

\* Writing the memory: the pauses of the copy are acknowledged, and in the product file.
LEMMA WriteLiveKeepsPauses ==
  ASSUME CallsFine, FreshCopies, NEW s \in Slots, WriteLive(s) PROVE FreshCopies'
<1>1. /\ At(s, "live") /\ live' = call[s].copy /\ paused' = paused \cup call[s].pauses
      /\ UNCHANGED disk
  BY DEF WriteLive
<1>2. /\ call'[s].at \in {"idle", "verified"} /\ \A t \in Slots \ {s} : call'[t] = call[t]
  BY WriteLiveMoves
<1>3. disk = call[s].copy /\ InFlight(s) /\ \A t \in Slots \ {s} : ~At(t, "live")
  BY <1>1 DEF FreshCopies, InFlight, At
<1>4. \A t \in Slots : ~At(t, "live")'
  BY <1>2, <1>3 DEF At
<1>5. KeptIn(disk)'
  BY <1>1, <1>3 DEF FreshCopies, KeptIn
<1>6. \A t \in Slots : call'[t].at \in Holding => call'[t].outdated
  <2>1. \A t \in Slots : ~UpToDate(t) BY <1>1 DEF UpToDate
  <2> QED BY <1>2, <2>1 DEF FreshCopies, Holding
<1>7. \A t \in Slots : InFlight(t)' =>
        \A x \in call'[t].copy : x.id \in call'[t].pauses => x.paused
  BY <1>2 DEF FreshCopies, InFlight, Holding
<1>8. \A t \in Slots : At(t, "profile")' => call'[t].pauses = {}
  BY <1>2 DEF FreshCopies, At
<1>9. live' = disk'
  BY <1>1, <1>3
<1> QED BY <1>4, <1>5, <1>6, <1>7, <1>8, <1>9 DEF FreshCopies

LEMMA PauseStep ==
  ASSUME ManagementInv, PauseInv, ManagementNext PROVE PauseInv'
<1>0. CallsFine
  BY DEF ManagementInv
<1>1. CASE \E s \in Slots : WriteDisk(s)
  BY <1>0, <1>1, WriteDiskKeepsPauses
<1>2. CASE ~\E s \in Slots : WriteDisk(s)
  <2>1. stale' = stale
    BY <1>2 DEF ManagementNext, LoginStep, LoginStart, StoreSession, LoginPoll, QrPending,
         QrExpired, QrConfirmed, CredentialClear, Rotate, Publish, ForgetSession, ChangeStep,
         Subscribe, Unsubscribe, SetPaused, Unbind, Change, WriteLive, BindStep, BindStart,
         StoreChallenge, BindVerify, Verify, Mismatch, ClearChallenge, Fail, Sign, SourceReads,
         SourceLoads, SourceStops, Crash, history
  <2> SUFFICES ASSUME FreshCopies PROVE FreshCopies'
    BY <2>1 DEF PauseInv
  <2>2. ASSUME NEW s \in Slots, LoginStep(s) \/ ChangeStep(s) \/ BindStep(s) \/ Fail(s)
        PROVE  FreshCopies'
    BY <1>0, <1>2, <2>2, LoginKeepsPauses, ChangesKeepPauses, BindKeepsPauses, WriteLiveKeepsPauses
       DEF ChangeStep
  <2>3. CASE (\E u \in Uids : Sign(u)) \/ SourceReads \/ SourceLoads \/ SourceStops
    <3>1. UNCHANGED <<live, disk, call, paused>>
      BY <2>3 DEF Sign, SourceReads, SourceLoads, SourceStops, stores, history
    <3> QED BY <3>1, AsideKeepsPauses
  <2>4. CASE Crash
    <3>1. live' = disk /\ UNCHANGED <<disk, paused>> /\ \A s \in Slots : call'[s] = Idle
      BY <2>4 DEF Crash
    <3>2. \A s \in Slots : ~At(s, "live")' /\ ~At(s, "profile")' /\ call'[s].at \notin Holding
      BY <3>1 DEF At, Idle, Holding
    <3>3. KeptIn(disk)' BY <3>1 DEF FreshCopies, KeptIn
    <3> QED BY <3>1, <3>2, <3>3 DEF FreshCopies, InFlight, At
  <2> QED BY <2>2, <2>3, <2>4 DEF ManagementNext
<1> QED BY <1>1, <1>2

LEMMA PausesUnchanged == ASSUME PauseInv, UNCHANGED managementVars PROVE PauseInv'
<1>1. UNCHANGED <<live, disk, call, paused, stale>>
  BY DEF managementVars, stores, history
<1> QED BY <1>1 DEF PauseInv, FreshCopies, KeptIn, UpToDate, InFlight, At

-----------------------------------------------------------------------------
(* The configurations.                                                     *)

\* For each backend, by cases on what the configuration switches on: what is
\* validated keeps an open_platform backend from what only a cookie can do.
LEMMA ProtocolsServed ==
  ASSUME NEW c \in Configurations, Validates(c)
  PROVE  /\ ManifestProtocols(c) = RunnerProtocols(c)
         /\ Asked(c) \subseteq RunnerProtocols(c)
<1>0. /\ c.backend \in {"web_cookie", "open_platform"}
      /\ c.subscription.kinds \subseteq {"Live", "Dynamic", "Video"}
  BY DEF Configurations, Backends, SubscriptionSettings, Kinds
<1> DEFINE polls(K) == {PollProtocol(k) : k \in K}
<1>1. /\ polls({"Live", "Video"}) = {PollProtocol("Live"), PollProtocol("Video")}
      /\ polls(Kinds) = {PollProtocol("Live"), PollProtocol("Dynamic"), PollProtocol("Video")}
  BY DEF Kinds
<1>2. ManifestProtocols(c) = RunnerProtocols(c)
  BY <1>0, <1>1 DEF ManifestProtocols, RunnerProtocols
<1>3. CASE c.backend = "web_cookie"
  <2>1. polls(c.subscription.kinds \cup (IF c.management THEN Kinds ELSE {})) \subseteq polls(Kinds)
    BY <1>0 DEF Kinds
  <2> HIDE DEF polls
  <2>2. /\ Asked(c) = polls(c.subscription.kinds \cup (IF c.management THEN Kinds ELSE {}))
                        \cup (IF c.linkResolver THEN {<<"link">>} ELSE {})
                        \cup (IF c.management THEN {<<"command">>} ELSE {})
        /\ RunnerProtocols(c) = polls(Kinds) \cup {<<"link">>}
                                  \cup (IF c.management THEN {<<"command">>} ELSE {})
    BY <1>3 DEF Asked, RunnerProtocols, polls
  <2> QED BY <1>2, <2>1, <2>2
<1>4. CASE c.backend = "open_platform"
  <2>1. ~c.management /\ ~c.linkResolver /\ c.subscription.kinds \subseteq {"Live", "Video"}
    BY <1>0, <1>4 DEF Validates, OpenPlatformRules
  <2>2. polls(c.subscription.kinds) \subseteq polls({"Live", "Video"})
    BY <2>1
  <2> HIDE DEF polls
  <2>3. Asked(c) = polls(c.subscription.kinds) /\ RunnerProtocols(c) = polls({"Live", "Video"})
    BY <1>4, <2>1 DEF Asked, RunnerProtocols, polls
  <2> QED BY <1>2, <2>2, <2>3
<1> QED BY <1>0, <1>3, <1>4

LEMMA PollsReadBack == \A kind \in Kinds : PollKind(PollProtocol(kind)) = kind
BY DEF PollKind, PollProtocol

LEMMA ModesServed == Modes \subseteq ServedModes
BY ProtocolsServed, PollsReadBack DEF ServedModes

-----------------------------------------------------------------------------
(* The theorems.                                                           *)

BackendInv == OAuthInv /\ ManagementInv /\ PauseInv /\ mode \in ServedModes

LEMMA BackendStep == ASSUME BackendInv, [BackendNext]_backendVars PROVE BackendInv'
<1>0. OAuthInv /\ ManagementInv /\ PauseInv
  BY DEF BackendInv
<1>m. (mode \in ServedModes)'
  <2>1. mode' = mode BY DEF BackendNext, backendVars
  <2> QED BY <2>1 DEF BackendInv, ServedModes
<1> SUFFICES OAuthInv' /\ ManagementInv' /\ PauseInv'
  BY <1>m DEF BackendInv
<1>1. CASE mode = "managed" /\ ManagementNext /\ UNCHANGED <<mode, oauthVars, backoff>>
  BY <1>0, <1>1, ManagementStep, PauseStep, OAuthUnchanged
<1>2. CASE /\ mode = "unmanaged"
           /\ \/ (SourceReads \/ SourceLoads \/ SourceStops) /\ UNCHANGED backoff
              \/ (PollGoesWrong \/ PollGoesWell) /\ UNCHANGED managementVars
           /\ UNCHANGED <<mode, oauthVars>>
  <2>1. ManagementNext \/ UNCHANGED managementVars BY <1>2 DEF ManagementNext
  <2> QED BY <1>0, <1>2, <2>1, ManagementStep, PauseStep, ManagementUnchanged, PausesUnchanged,
             OAuthUnchanged
<1>3. CASE mode = "open_platform" /\ OAuthNext /\ UNCHANGED <<mode, managementVars, backoff>>
  BY <1>0, <1>3, OAuthStep, ManagementUnchanged, PausesUnchanged
<1>4. CASE UNCHANGED backendVars
  <2>1. UNCHANGED managementVars /\ UNCHANGED oauthVars BY <1>4 DEF backendVars
  <2> QED BY <1>0, <2>1, OAuthUnchanged, ManagementUnchanged, PausesUnchanged
<1> QED BY <1>1, <1>2, <1>3, <1>4 DEF BackendNext

\* The invariants of both backends hold whatever the configuration selects and
\* however requests, polls, the source and the process interleave.
THEOREM BackendInvariant == BackendSpec => []BackendInv
<1>1. ASSUME BackendInit PROVE BackendInv
  BY <1>1, OAuthInitially, ManagementInitially, PausesInitially, ModesServed
     DEF BackendInit, BackendInv
<1> QED BY <1>1, BackendStep, PTL DEF BackendSpec

\* The Host secret holds the refresh token the server will take, or the poll that
\* received it is about to store it, unless the answer was lost, the secret could
\* not be written or the process died in between (refresh_bundle, open_platform.rs).
THEOREM AuthorisationIsKept == BackendSpec => []AuthorisationKept
<1>1. BackendInv => AuthorisationKept
  BY DEF BackendInv, OAuthInv
<1> QED BY <1>1, BackendInvariant, PTL

\* A spent refresh token is sent again only if its successor was lost or the
\* source loaded the old bundle while a refresh stored the new (refresh_bundle).
THEOREM TokenIsUsedOnce == BackendSpec => []TokenUsedOnce
<1>1. BackendInv => TokenUsedOnce
  BY DEF BackendInv, OAuthInv, HoldersCurrent, TokenUsedOnce
<1> QED BY <1>1, BackendInvariant, PTL

\* An operator's subscription is for an account that carried a code given to that
\* operator, and there is one, in memory and in the product file (bind_verify).
THEOREM BindingsAreProven == BackendSpec => []OnlyProvenBindings
<1>1. BackendInv => OnlyProvenBindings
  BY DEF BackendInv, ManagementInv, StoresFine, SoundFor, OnlyProvenBindings, Sound
<1> QED BY <1>1, BackendInvariant, PTL

\* With no request under way memory and product file agree, and the credential
\* of a running source and the Host secret, unless publications overlapped
\* (persist, login_poll, credential_clear, the load of the source).
THEOREM StoresDoAgree == BackendSpec => []StoresAgree
<1>1. BackendInv => StoresAgree
  <2> SUFFICES ASSUME BackendInv, AtRest, ~overlapped
               PROVE  live = disk /\ (source.at = "running" => credential = secret)
    BY DEF StoresAgree
  <2>1. \A s \in Slots : call[s].at # "live" /\ call[s].at \notin Publishing
    BY DEF AtRest, Idle, Publishing
  <2> QED BY <2>1 DEF BackendInv, ManagementInv, ConfigurationAgrees, CredentialAgrees, Unwritten, At
<1> QED BY <1>1, BackendInvariant, PTL

\* The product file keeps every pause that was acknowledged and not revoked, until
\* a request has written back a copy older than the file: no other interleaving of
\* changes, bindings, failures and crashes undoes one (set_paused, bind_verify, persist).
THEOREM PausesAreLostOnlyByStaleCopies == BackendSpec => []PauseLostOnlyByStaleCopy
<1>1. BackendInv => PauseLostOnlyByStaleCopy
  BY DEF BackendInv, PauseInv, FreshCopies, KeptIn, PauseLostOnlyByStaleCopy, PauseKept
<1> QED BY <1>1, BackendInvariant, PTL

\* Every configuration that is validated, of the backend that runs, is served: its
\* manifest declares what its runner takes, which is all it makes the plugin ask for
\* (validate, manifest_for_backend, runner_descriptor).
THEOREM RequestsAreServed == BackendSpec => []EveryRequestServed
<1>1. BackendInv => EveryRequestServed
  BY DEF BackendInv, EveryRequestServed
<1> QED BY <1>1, BackendInvariant, PTL

-----------------------------------------------------------------------------
(* The delay after failed polls.  The provers know nothing of powers; 2^n  *)
(* is the number of subsets of 1..n.                                       *)

LEMMA PowerIsSubsets ==
  ASSUME NEW n \in Nat
  PROVE  /\ IsFiniteSet(SUBSET (1..n))
         /\ 2^n = Cardinality(SUBSET (1..n)) /\ 2^n \in Nat \ {0}
<1>1. IsFiniteSet(1..n) /\ Cardinality(1..n) = n
  BY FS_Interval
<1>2. IsFiniteSet(SUBSET (1..n)) /\ Cardinality(SUBSET (1..n)) = 2^n
  <2>1. Cardinality(SUBSET (1..n)) = 2^Cardinality(1..n)
    BY <1>1, FS_SUBSET
  <2> QED
    BY <1>1, <2>1, FS_SUBSET
<1>3. SUBSET (1..n) # {}
  <2>1. {} \in SUBSET (1..n)
    OBVIOUS
  <2> QED
    BY <2>1
<1>4. Cardinality(SUBSET (1..n)) \in Nat /\ Cardinality(SUBSET (1..n)) # 0
  BY <1>2, <1>3, FS_CardinalityType, FS_EmptySet
<1> QED
  BY <1>2, <1>4

LEMMA PowerGrows ==
  ASSUME NEW m \in Nat, NEW n \in Nat, m < n
  PROVE  2^m \in Nat \ {0} /\ 2^n \in Nat \ {0} /\ 2^m < 2^n
<1>1. PICK A : A = SUBSET (1..m)
  OBVIOUS
<1>2. PICK B : B = SUBSET (1..n)
  OBVIOUS
<1>3. IsFiniteSet(A) /\ IsFiniteSet(B) /\ 2^m = Cardinality(A) /\ 2^n = Cardinality(B)
  BY <1>1, <1>2, PowerIsSubsets
<1>4. 1..n \notin A /\ A \cup {1..n} \subseteq B
  <2>1. 1..m \subseteq 1..n /\ n \in 1..n /\ n \notin 1..m
    OBVIOUS
  <2> QED
    BY <1>1, <1>2, <2>1
<1>5. Cardinality(A \cup {1..n}) = 2^m + 1
  BY <1>3, <1>4, FS_AddElement
<1>6. Cardinality(A \cup {1..n}) <= 2^n
  BY <1>3, <1>4, FS_Subset
<1>7. 2^m \in Nat \ {0} /\ 2^n \in Nat \ {0}
  BY PowerIsSubsets
<1> QED
  BY <1>5, <1>6, <1>7

\* The factor of the delay does not shrink, up to the width of the word and beyond it.
LEMMA MultiplierGrows ==
  ASSUME NEW m \in Nat, NEW n \in Nat, m <= n
  PROVE  /\ Multiplier(m) \in Nat \ {0} /\ Multiplier(n) \in Nat \ {0}
         /\ Multiplier(m) <= Multiplier(n)
<1>1. WordBits \in Nat \ {0}
  BY WordAssumption
<1>2. PICK w \in Nat : w = 2^WordBits /\ w > 1
  <2>1. 2^0 \in Nat \ {0} /\ 2^0 < 2^WordBits /\ 2^WordBits \in Nat
    BY <1>1, PowerGrows
  <2> QED
    BY <2>1
<1>3. ASSUME NEW k \in Nat PROVE Multiplier(k) \in 1..w - 1
  <2>1. CASE k < WordBits
    <3>1. 2^k \in Nat \ {0} /\ 2^k < w
      BY <1>1, <1>2, <2>1, PowerGrows
    <3> QED
      BY <1>2, <2>1, <3>1 DEF Multiplier
  <2>2. CASE ~(k < WordBits)
    BY <1>2, <2>2 DEF Multiplier
  <2> QED
    BY <2>1, <2>2
<1>4. CASE m = n
  BY <1>2, <1>3, <1>4
<1>5. CASE m < n /\ n < WordBits
  <2>1. m < WordBits
    BY <1>1, <1>5
  <2>2. 2^m \in Nat /\ 2^n \in Nat /\ 2^m < 2^n
    BY <1>5, PowerGrows
  <2>3. Multiplier(m) = 2^m /\ Multiplier(n) = 2^n
    BY <1>5, <2>1 DEF Multiplier
  <2> QED
    BY <1>2, <1>3, <2>2, <2>3
<1>6. CASE ~(n < WordBits)
  <2>1. Multiplier(n) = w - 1
    BY <1>2, <1>6 DEF Multiplier
  <2> QED
    BY <1>2, <1>3, <2>1
<1> QED
  BY <1>4, <1>5, <1>6

LEMMA ProductGrows ==
  ASSUME NEW i \in Nat, NEW x \in Nat, NEW y \in Nat, x <= y
  PROVE  i * x \in Nat /\ i * y \in Nat /\ i * x <= i * y
<1>1. PICK d \in Nat : y = x + d
  BY y - x \in Nat
<1>2. i * y = i * x + i * d
  BY <1>1
<1>3. i * x \in Nat /\ i * d \in Nat
  OBVIOUS
<1> QED
  BY <1>2, <1>3

\* A delay stays between the configured ones, and does not shrink with the failures.
LEMMA DelayFacts ==
  ASSUME retry \in Retries, NEW m \in 1..retry.limit, NEW n \in 1..retry.limit, m <= n
  PROVE  /\ RetryDelay(n) \in retry.initial..retry.max
         /\ RetryDelay(m) \in Int /\ RetryDelay(m) <= RetryDelay(n)
<1>1. PICK w : w = 2^WordBits
  OBVIOUS
<1>2. w \in Nat \ {0} /\ WordBits \in Nat
  BY <1>1, WordAssumption, PowerIsSubsets
<1>3. PICK i : i = retry.initial
  OBVIOUS
<1>4. PICK h : h = retry.max
  OBVIOUS
<1>5. /\ i \in 1..w - 1 /\ h \in 1..w - 1 /\ i <= h /\ retry.limit \in Nat
  BY <1>1, <1>2, <1>3, <1>4 DEF Retries
<1>6. PICK x : x = Multiplier(m - 1)
  OBVIOUS
<1>7. PICK y : y = Multiplier(n - 1)
  OBVIOUS
<1>8. x \in Nat \ {0} /\ y \in Nat \ {0} /\ x <= y
  <2>1. m - 1 \in Nat /\ n - 1 \in Nat /\ m - 1 <= n - 1
    BY <1>5
  <2> QED
    BY <1>6, <1>7, <2>1, MultiplierGrows
<1>9. PICK p : p = i * x
  OBVIOUS
<1>10. PICK q : q = i * y
  OBVIOUS
<1>11. p \in Nat /\ q \in Nat /\ i <= p /\ p <= q
  <2>1. i \in Nat /\ x \in Nat /\ y \in Nat /\ 1 <= x /\ x <= y
    BY <1>5, <1>8
  <2>2. p \in Nat /\ q \in Nat /\ p <= q
    BY <1>9, <1>10, <2>1, ProductGrows
  <2>3. i * 1 <= i * x /\ i * 1 = i
    BY <2>1, ProductGrows
  <2> QED
    BY <1>9, <2>2, <2>3
<1>12. RetryDelay(m) = IF (IF p < w THEN p ELSE w - 1) < h THEN (IF p < w THEN p ELSE w - 1) ELSE h
  BY <1>1, <1>3, <1>4, <1>6, <1>9 DEF RetryDelay, Saturated
<1>13. RetryDelay(n) = IF (IF q < w THEN q ELSE w - 1) < h THEN (IF q < w THEN q ELSE w - 1) ELSE h
  BY <1>1, <1>3, <1>4, <1>7, <1>10 DEF RetryDelay, Saturated
<1>14. ASSUME NEW r \in Nat, i <= r
       PROVE  (IF (IF r < w THEN r ELSE w - 1) < h THEN (IF r < w THEN r ELSE w - 1) ELSE h) \in i..h
  BY <1>2, <1>5, <1>14
<1>15. RetryDelay(m) \in i..h /\ RetryDelay(n) \in i..h
  BY <1>5, <1>11, <1>12, <1>13, <1>14
<1>16. RetryDelay(m) <= RetryDelay(n)
  BY <1>2, <1>5, <1>11, <1>12, <1>13
<1> QED
  BY <1>3, <1>4, <1>5, <1>15, <1>16

\* The delay is the one of the failures counted.
BackoffInv ==
  /\ retry \in Retries
  /\ attempts \in 0..retry.limit
  /\ delay = IF attempts = 0 THEN 0 ELSE RetryDelay(attempts)

LEMMA RetryTypes == ASSUME retry \in Retries PROVE retry.limit \in Nat \ {0}
BY WordAssumption DEF Retries

LEMMA BackoffInitially == ASSUME BackendInit PROVE BackoffInv
<1>1. retry \in Retries /\ attempts = 0 /\ delay = 0
  <2>1. CASE mode = "unmanaged"
    BY <2>1 DEF BackendInit, BackoffInit
  <2>2. CASE mode # "unmanaged"
    <3>1. retry = [initial |-> 1, max |-> 1, limit |-> 1] /\ attempts = 0 /\ delay = 0
      BY <2>2 DEF BackendInit
    <3>2. 2^0 \in Nat \ {0} /\ 2^0 < 2^WordBits /\ 2^WordBits \in Nat
      BY WordAssumption, PowerGrows
    <3>3. 1 \in 1..2^WordBits - 1 /\ 1 \in 1..WordBits + 2
      BY <3>2, WordAssumption
    <3> QED
      BY <3>1, <3>3 DEF Retries
  <2> QED
    BY <2>1, <2>2
<1> QED
  BY <1>1, RetryTypes DEF BackoffInv

\* What one step does to attempts and delay.
LEMMA BackoffSteps ==
  ASSUME [BackendNext]_backendVars
  PROVE  PollGoesWrong \/ PollGoesWell \/ UNCHANGED backoff
BY DEF BackendNext, backendVars

LEMMA BackoffStep ==
  ASSUME BackoffInv, [BackendNext]_backendVars
  PROVE  /\ BackoffInv'
         /\ attempts' > 0 =>
              UNCHANGED backoff \/ (delay' \in retry.initial..retry.max /\ delay <= delay')
<1>1. CASE UNCHANGED backoff
  BY <1>1 DEF backoff, BackoffInv, RetryDelay
<1>2. CASE PollGoesWell
  BY <1>2, RetryTypes DEF PollGoesWell, BackoffInv
<1>3. CASE PollGoesWrong
  <2>1. retry' = retry /\ retry \in Retries /\ retry.limit \in Nat \ {0} /\ attempts \in 0..retry.limit
    BY <1>3, RetryTypes DEF PollGoesWrong, BackoffInv
  <2>2. attempts' \in 1..retry.limit /\ attempts <= attempts'
    BY <1>3, <2>1 DEF PollGoesWrong
  <2>3. PICK n \in 1..retry.limit : n = attempts'
    BY <2>2
  <2>4. delay' = RetryDelay(n)
    BY <1>3, <2>3 DEF PollGoesWrong
  <2>5. RetryDelay(n) \in retry.initial..retry.max
    <3>1. n <= n
      BY <2>1
    <3> QED
      BY <2>1, <3>1, DelayFacts
  <2>6. delay <= delay'
    <3>1. CASE attempts = 0
      BY <2>1, <2>4, <2>5, <3>1 DEF BackoffInv, Retries
    <3>2. CASE attempts # 0
      <4>1. attempts \in 1..retry.limit /\ attempts <= n
        BY <2>1, <2>2, <2>3, <3>2
      <4>2. RetryDelay(attempts) <= RetryDelay(n)
        BY <2>1, <4>1, DelayFacts
      <4> QED
        BY <2>4, <3>2, <4>2 DEF BackoffInv
    <3> QED
      BY <3>1, <3>2
  <2>7. BackoffInv'
    <3>1. delay' = RetryDelay(attempts)'
      BY <1>3, <2>1 DEF PollGoesWrong, RetryDelay
    <3> QED
      BY <2>1, <2>2, <3>1 DEF BackoffInv
  <2> QED
    BY <2>4, <2>5, <2>6, <2>7
<1> QED
  BY <1>1, <1>2, <1>3, BackoffSteps

\* Between two successes the delay of a key starts at the configured one, never
\* shrinks and never exceeds the largest, for any width of the word and any number
\* of failures: the shift and the product saturate where they would wrap (retry_delay).
THEOREM DelaysNeverShrink == BackendSpec => DelayNeverShrinks
<1>1. BackoffInv /\ [BackendNext]_backendVars =>
        /\ BackoffInv'
        /\ [attempts' > 0 => /\ delay' \in retry.initial..retry.max
                             /\ delay <= delay']_backoff
  BY BackoffStep
<1> QED
  BY <1>1, BackoffInitially, PTL DEF BackendSpec, DelayNeverShrinks
=============================================================================
