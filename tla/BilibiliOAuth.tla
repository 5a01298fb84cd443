--------------------------- MODULE BilibiliOAuth ---------------------------
(***************************************************************************)
(* The open_platform backend of the Bilibili plugin                        *)
(* (plugin-bot-bilibili/src/open_platform.rs): signed polls with an OAuth  *)
(* bundle whose refresh token can be used once.  A refresh is answered     *)
(* with a new bundle, which the transport stores in the Host secret and    *)
(* then publishes to the credential it reads.                              *)
(*                                                                         *)
(* The runner executes one poll at a time; the event source, which loads   *)
(* the bundle when it starts and clears it when it stops, and the process  *)
(* may stop at any time.  Bundles are numbered by the server's refreshes.  *)
(* The signature, the app secret and the contents of polls are left out;   *)
(* the clock is left to Ages, which makes a bundle due, and Expires, which *)
(* makes the server refuse it: one may come without the other.  A          *)
(* definition named after a slip is a mutant of the one that follows it.   *)
(***************************************************************************)
EXTENDS Naturals

CONSTANTS MaxRefreshes, MaxOAuthFaults, MaxSourceStops   \* bounds

ASSUME OAuthAssumption == {MaxRefreshes, MaxOAuthFaults, MaxSourceStops} \subseteq Nat

VARIABLES
  bundle, stored,   \* oauth_credential and the Host secret; 0 is none
  server,           \* the Open Platform: current bundle, whether it has expired
  due,              \* bundles whose expires_at is at most a minute away
  unforeseen,       \* bundles whose expires_at was put too late
  scopeless,        \* bundles that came without the scope that is polled
  poll,             \* the poll under way
  loader,           \* the event source
  oauthBounds,
  lost, raced,      \* history: a bundle was lost; a load raced a refresh
  spent             \* history: a spent refresh token was sent

facts == <<due, unforeseen, scopeless>>
oauthHistory == <<lost, raced, spent>>
oauthVars == <<bundle, stored, server, facts, poll, loader, oauthBounds, oauthHistory>>

\* What success_data makes of the code of an answer; the codes of a rejected
\* signature, of a refused permission and of a limit all fail the poll.
Class(code) == IF code = 0 THEN "ok"
               ELSE IF code \in {127001, 122007} THEN "expired" ELSE "failed"

\* expires_in may be a duration or an instant: refresh goes by its size.
Now == 10000
Lifetimes == {100, 7200}
NextExpiry(expiresIn, now) == IF expiresIn > now + 300 THEN expiresIn ELSE now + expiresIn
PutTooLate(life, instant) ==
  NextExpiry(IF instant THEN Now + life ELSE life, Now) > Now + life

NoPoll == [at |-> "idle"]

OAuthInit ==
  /\ bundle = 0 /\ stored = 1
  /\ server = [current |-> 1, expired |-> FALSE]
  /\ due = {} /\ unforeseen = {} /\ scopeless = {}
  /\ poll = NoPoll
  /\ loader = [at |-> "stopped", read |-> 0]
  /\ oauthBounds = [faults |-> 0, stops |-> 0]
  /\ lost = FALSE /\ raced = FALSE /\ spent = FALSE

PollAt(stage) == poll.at = stage
Fault == /\ oauthBounds.faults < MaxOAuthFaults
         /\ oauthBounds' = [oauthBounds EXCEPT !.faults = @ + 1]
NewPoll(stage) == [at |-> stage, with |-> bundle, retried |-> FALSE]

\* credential_for_scope.
BeginPoll ==
  /\ PollAt("idle") /\ bundle # 0 /\ bundle \notin scopeless
  /\ poll' = NewPoll(IF bundle \in due THEN "refresh" ELSE "request")
  /\ UNCHANGED <<bundle, stored, server, facts, loader, oauthBounds, oauthHistory>>

-----------------------------------------------------------------------------
(* refresh.                                                                *)

\* The server takes the token and issues the next bundle.
Refreshes ==
  /\ PollAt("refresh") /\ poll.with = server.current
  /\ server.current <= MaxRefreshes
  /\ server' = [current |-> server.current + 1, expired |-> FALSE]
  /\ scopeless' \in {scopeless, scopeless \cup {server.current + 1}}
  /\ \E life \in Lifetimes, instant \in BOOLEAN :
       unforeseen' = IF PutTooLate(life, instant) THEN unforeseen \cup {server.current + 1}
                     ELSE unforeseen

Refresh ==
  /\ Refreshes
  /\ poll' = [poll EXCEPT !.at = "rotate", !.with = server.current + 1]
  /\ UNCHANGED <<bundle, stored, due, loader, oauthBounds, oauthHistory>>

AnswerLost ==
  /\ Refreshes /\ Fault
  /\ poll' = NoPoll /\ lost' = TRUE
  /\ UNCHANGED <<bundle, stored, due, loader, raced, spent>>

Refused ==
  /\ PollAt("refresh") /\ poll.with # server.current
  /\ poll' = NoPoll /\ spent' = TRUE
  /\ UNCHANGED <<bundle, stored, server, facts, loader, oauthBounds, lost, raced>>

\* The call, the secret file or the answer's contents fail, or the server answers
\* with a code that fails the poll.
CallFails ==
  /\ poll.at \in {"refresh", "request", "rotate"} /\ Fault
  /\ poll' = NoPoll
  /\ lost' = (lost \/ PollAt("rotate"))
  /\ UNCHANGED <<bundle, stored, server, facts, loader, raced, spent>>

RotateForgotten ==
  /\ PollAt("rotate")
  /\ poll' = [poll EXCEPT !.at = "publish"]
  /\ UNCHANGED <<bundle, stored, server, facts, loader, oauthBounds, oauthHistory>>
RotateBundle ==
  /\ PollAt("rotate")
  /\ stored' = poll.with
  /\ raced' = (raced \/ loader.at = "loading")
  /\ poll' = [poll EXCEPT !.at = "publish"]
  /\ UNCHANGED <<bundle, server, facts, loader, oauthBounds, lost, spent>>

\* The store publishes the bundle, then the transport does.
PublishForgotten ==
  /\ poll.at \in {"publish", "republish"}
  /\ poll' = IF PollAt("publish") THEN [poll EXCEPT !.at = "republish"]
             ELSE IF poll.with \in scopeless THEN NoPoll
             ELSE [poll EXCEPT !.at = "request"]
  /\ UNCHANGED <<bundle, stored, server, facts, loader, oauthBounds, oauthHistory>>
PublishBundle ==
  /\ poll.at \in {"publish", "republish"}
  /\ bundle' = poll.with
  /\ poll' = IF PollAt("publish") THEN [poll EXCEPT !.at = "republish"]
             ELSE IF poll.with \in scopeless THEN NoPoll
             ELSE [poll EXCEPT !.at = "request"]
  /\ UNCHANGED <<stored, server, facts, loader, oauthBounds, oauthHistory>>

-----------------------------------------------------------------------------
(* signed_request: one more attempt after the answer that the token has    *)
(* expired.                                                                *)

Accepted == poll.with = server.current /\ ~server.expired
Answers == IF Accepted THEN {0} ELSE {127001, 122007}

Served ==
  /\ PollAt("request") /\ \E code \in Answers : Class(code) = "ok"
  /\ poll' = NoPoll
  /\ UNCHANGED <<bundle, stored, server, facts, loader, oauthBounds, oauthHistory>>

NeverRetry ==
  /\ PollAt("request") /\ \E code \in Answers : Class(code) = "expired"
  /\ poll' = NoPoll
  /\ UNCHANGED <<bundle, stored, server, facts, loader, oauthBounds, oauthHistory>>
Expired ==
  /\ PollAt("request") /\ \E code \in Answers : Class(code) = "expired"
  /\ poll' = IF poll.retried THEN NoPoll
             ELSE [poll EXCEPT !.at = "refresh", !.retried = TRUE]
  /\ UNCHANGED <<bundle, stored, server, facts, loader, oauthBounds, oauthHistory>>

-----------------------------------------------------------------------------
(* The clock, the event source and the process.                            *)

Ages ==
  /\ server.current \notin due \cup unforeseen
  /\ due' = due \cup {server.current}
  /\ UNCHANGED <<bundle, stored, server, unforeseen, scopeless, poll, loader, oauthBounds, oauthHistory>>

\* The server still has a bundle to give after this one.
Expires ==
  /\ ~server.expired /\ server.current <= MaxRefreshes
  /\ server' = [server EXCEPT !.expired = TRUE]
  /\ UNCHANGED <<bundle, stored, facts, poll, loader, oauthBounds, oauthHistory>>

LoaderReads ==
  /\ loader.at = "stopped"
  /\ loader' = [at |-> "loading", read |-> stored]
  /\ UNCHANGED <<bundle, stored, server, facts, poll, oauthBounds, oauthHistory>>

LoaderLoads ==
  /\ loader.at = "loading"
  /\ bundle' = loader.read
  /\ loader' = [at |-> "running", read |-> 0]
  /\ UNCHANGED <<stored, server, facts, poll, oauthBounds, oauthHistory>>

Stops == /\ oauthBounds.stops < MaxSourceStops
         /\ oauthBounds' = [oauthBounds EXCEPT !.stops = @ + 1]
         /\ loader' = [at |-> "stopped", read |-> 0]
         /\ bundle' = 0

LoaderStops ==
  /\ loader.at = "running" /\ Stops
  /\ UNCHANGED <<stored, server, facts, poll, oauthHistory>>

ProcessDies ==
  /\ Stops
  /\ poll' = NoPoll
  /\ lost' = (lost \/ PollAt("rotate"))
  /\ UNCHANGED <<stored, server, facts, raced, spent>>

PollStep == \/ Refresh \/ Refused \/ RotateBundle \/ PublishBundle \/ Served \/ Expired
Load == LoaderReads \/ LoaderLoads

OAuthNext == \/ BeginPoll \/ PollStep \/ AnswerLost \/ CallFails
             \/ Ages \/ Expires \/ Load \/ LoaderStops \/ ProcessDies

\* The source goes on scheduling polls, the Core runs what it has admitted, and
\* the host starts its event sources.
OAuthFairness == WF_oauthVars(BeginPoll) /\ WF_oauthVars(PollStep) /\ WF_oauthVars(Load)
OAuthSpec == OAuthInit /\ [][OAuthNext]_oauthVars /\ OAuthFairness

-----------------------------------------------------------------------------
\* The Host secret holds the refresh token the server will take, but for the
\* moment between the server's answer and rotate, unless the answer was lost,
\* the secret could not be written or the process died in that moment.
AuthorisationKept ==
  \/ stored = server.current \/ lost
  \/ PollAt("rotate") /\ poll.with = server.current

\* A refresh token is sent a second time only if its successor was lost, or if
\* the event source was loading the old bundle while a refresh stored the new.
TokenUsedOnce == spent => lost \/ raced

\* When the server refuses an expired access token, a poll refreshes it in the
\* end, even if the local clock did not foresee it (an expires_in taken for the
\* wrong kind of time), unless the refresh token or the scope is gone.
Recovers == server.expired ~> \/ ~server.expired \/ lost \/ spent
                              \/ server.current \in scopeless
=============================================================================
