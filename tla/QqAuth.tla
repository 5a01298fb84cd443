------------------------------- MODULE QqAuth -------------------------------
(***************************************************************************)
(* The access token of a QQ account, shared by everyone who calls the      *)
(* OpenAPI: QqAuthManager and SharedQqCredentials (api/client.rs), the     *)
(* call loop of QqOpenApiTransport (api/transport.rs), and the lease of    *)
(* the event source that sets the secret and takes it back                 *)
(* (event_source.rs).                                                      *)
(*                                                                         *)
(* A thread is one caller with a transport of its own: the OpenAPI runner, *)
(* or the blocking task of the event source, which may outlive it.  Tokens *)
(* are numbered in the order of their issue, 0 is none.  Time is counted   *)
(* in units of expires_in's scale; sleeps and time limits are steps that   *)
(* come whenever they come.  An OpenAPI request is judged by the server    *)
(* when its answer is handled: a refused token stays refused, so a 401     *)
(* that is late comes to the same.  A definition named after a slip is a   *)
(* mutant of the one that follows it and no part of the model.             *)
(***************************************************************************)
EXTENDS Integers, Sequences

CONSTANTS
  Threads,
  Ttl,          \* expires_in of every token
  Margin,       \* token_refresh_margin_secs
  MaxAttempts,  \* max_retry_attempts, at least 1 after the max(1) of its readers
  MaxTime,      \* bound on the clock
  MaxCalls,     \* bound on the calls of execute_json
  MaxStarts,    \* bound on the starts of the event source
  MaxFaults     \* bound on lost or failed requests, revocations and close codes

Nobody == "nobody"

ASSUME AuthAssumption ==
  /\ {Ttl, Margin, MaxTime, MaxCalls, MaxStarts, MaxFaults} \subseteq Nat
  /\ MaxAttempts \in Nat \ {0}
  /\ Nobody \notin Threads

VARIABLES
  cell,        \* token: Mutex<Option<AccessToken>>
  refresh,     \* who holds the refresh mutex, or Nobody
  secret,      \* SharedQqCredentials holds a secret
  lease,       \* GatewayCredentialLease: held, half dropped, or none
  thread,      \* where each caller stands
  clock,
  issuedAt,    \* server: when each token was issued
  revoked,     \* server: the tokens that are refused before their time
  lateStores,  \* history: tokens stored since the secret was cleared
  calls, starts, faults

server == <<issuedAt, revoked>>
leaseVars == <<secret, lease, lateStores, starts>>
authVars == <<cell, refresh, thread, clock, server, leaseVars, calls, faults>>

None == 0
Empty == [token |-> None, expires |-> 0]

Places == {"idle", "begin", "check", "lock", "recheck", "ask", "store", "send"}

\* Where a call stands: now is the clock it read, token the one it asks with or has
\* got, tries and attempt count token and OpenAPI requests.  refused and sends are
\* history: the token a 401 came for, and the OpenAPI requests of this call.
CallState ==
  [at : Places, now : Nat, token : Nat, tries : Nat, attempt : Nat, refreshed : BOOLEAN,
   refused : Nat, sends : Nat]

IdleThread ==
  [at |-> "idle", now |-> 0, token |-> None, tries |-> 0, attempt |-> 1,
   refreshed |-> FALSE, refused |-> None, sends |-> 0]

Fresh(now) == cell.token # None /\ cell.expires > now + Margin

Valid(token) == token \notin revoked /\ clock < issuedAt[token] + Ttl

Fault == faults < MaxFaults /\ faults' = faults + 1

\* The call returns, with an answer or an error.
Return(t) == thread' = [thread EXCEPT ![t] = IdleThread]

-----------------------------------------------------------------------------
(* execute_json and bearer_token_at.                                       *)

StartCall(t) ==
  /\ thread[t].at = "idle"
  /\ calls < MaxCalls
  /\ calls' = calls + 1
  /\ thread' = [thread EXCEPT ![t].at = "begin"]
  /\ UNCHANGED <<cell, refresh, clock, server, leaseVars, faults>>

\* bearer_token reads the clock once ...
ReadClock(t) ==
  /\ thread[t].at = "begin"
  /\ thread' = [thread EXCEPT ![t].at = "check", ![t].now = clock]
  /\ UNCHANGED <<cell, refresh, clock, server, leaseVars, calls, faults>>

\* ... and compares it with the cell, at first without the refresh mutex.
CheckCell(t) ==
  /\ thread[t].at = "check"
  /\ thread' = IF Fresh(thread[t].now)
               THEN [thread EXCEPT ![t].at = "send", ![t].token = cell.token]
               ELSE [thread EXCEPT ![t].at = "lock"]
  /\ UNCHANGED <<cell, refresh, clock, server, leaseVars, calls, faults>>

LockRefresh(t) ==
  /\ thread[t].at = "lock"
  /\ refresh = Nobody
  /\ refresh' = t
  /\ thread' = [thread EXCEPT ![t].at = "recheck"]
  /\ UNCHANGED <<cell, clock, server, leaseVars, calls, faults>>

\* Under the mutex the cell is compared again, and then the secret is read: nobody
\* else fills the cell in between.
AskWithoutRecheck(t) ==
  /\ thread[t].at = "recheck"
  /\ secret
  /\ thread' = [thread EXCEPT ![t].at = "ask", ![t].tries = 1]
  /\ UNCHANGED <<cell, refresh, clock, server, leaseVars, calls, faults>>
AskWithoutSecret(t) ==
  /\ thread[t].at = "recheck"
  /\ IF Fresh(thread[t].now)
     THEN /\ thread' = [thread EXCEPT ![t].at = "send", ![t].token = cell.token]
          /\ refresh' = Nobody
     ELSE /\ thread' = [thread EXCEPT ![t].at = "ask", ![t].tries = 1]
          /\ UNCHANGED refresh
  /\ UNCHANGED <<cell, clock, server, leaseVars, calls, faults>>
Recheck(t) ==
  /\ thread[t].at = "recheck"
  /\ \/ /\ Fresh(thread[t].now)
        /\ thread' = [thread EXCEPT ![t].at = "send", ![t].token = cell.token]
        /\ refresh' = Nobody
     \/ /\ ~Fresh(thread[t].now) /\ secret
        /\ thread' = [thread EXCEPT ![t].at = "ask", ![t].tries = 1]
        /\ UNCHANGED refresh
     \/ /\ ~Fresh(thread[t].now) /\ ~secret
        /\ Return(t)
        /\ refresh' = Nobody
  /\ UNCHANGED <<cell, clock, server, leaseVars, calls, faults>>

\* The token server issues a token ...
TokenIssued(t) ==
  /\ thread[t].at = "ask"
  /\ issuedAt' = Append(issuedAt, clock)
  /\ thread' = [thread EXCEPT ![t].at = "store", ![t].token = Len(issuedAt) + 1]
  /\ UNCHANGED <<cell, refresh, clock, revoked, leaseVars, calls, faults>>

\* ... or there is no answer, or 429 or 5xx, and the request is repeated ...
Again(count) == count < MaxAttempts

TokenAgain(t) ==
  /\ thread[t].at = "ask"
  /\ Fault
  /\ Again(thread[t].tries)
  /\ thread' = [thread EXCEPT ![t].tries = @ + 1]
  /\ UNCHANGED <<cell, refresh, clock, server, leaseVars, calls>>

\* ... or that was the last attempt, or the answer is final.
TokenFails(t) ==
  /\ thread[t].at = "ask"
  /\ Fault
  /\ Return(t)
  /\ refresh' = Nobody
  /\ UNCHANGED <<cell, clock, server, leaseVars, calls>>

\* The expiry counts from the clock read before the request.
ExpiryOf(t) == thread[t].now + Ttl

StoreToken(t) ==
  /\ thread[t].at = "store"
  /\ cell' = [token |-> thread[t].token, expires |-> ExpiryOf(t)]
  /\ refresh' = Nobody
  /\ thread' = [thread EXCEPT ![t].at = "send"]
  /\ lateStores' = IF secret THEN lateStores ELSE lateStores + 1
  /\ UNCHANGED <<clock, server, secret, lease, starts, calls, faults>>

\* The OpenAPI request with the token: answered with 2xx ...
Answered(t) ==
  /\ thread[t].at = "send"
  /\ Valid(thread[t].token)
  /\ Return(t)
  /\ UNCHANGED <<cell, refresh, clock, server, leaseVars, calls, faults>>

\* ... or refused with 401: once per call the token is dropped and the request
\* repeated ...
RefusedKeepingToken(t) ==
  /\ thread[t].at = "send"
  /\ ~Valid(thread[t].token) /\ ~thread[t].refreshed
  /\ thread' = [thread EXCEPT ![t].at = "begin", ![t].refreshed = TRUE,
                              ![t].refused = thread[t].token, ![t].sends = @ + 1]
  /\ UNCHANGED <<cell, refresh, clock, server, leaseVars, calls, faults>>
RefusedForgetful(t) ==
  /\ thread[t].at = "send"
  /\ ~Valid(thread[t].token)
  /\ thread' = [thread EXCEPT ![t].at = "begin"]
  /\ UNCHANGED <<cell, refresh, clock, server, leaseVars, calls, faults>>
Refused(t) ==
  /\ thread[t].at = "send"
  /\ ~Valid(thread[t].token) /\ ~thread[t].refreshed
  /\ cell' = Empty
  /\ thread' = [thread EXCEPT ![t].at = "begin", ![t].refreshed = TRUE,
                              ![t].refused = thread[t].token, ![t].sends = @ + 1]
  /\ UNCHANGED <<refresh, clock, server, leaseVars, calls, faults>>

RefusedAgain(t) ==
  /\ thread[t].at = "send"
  /\ ~Valid(thread[t].token) /\ thread[t].refreshed
  /\ Return(t)
  /\ UNCHANGED <<cell, refresh, clock, server, leaseVars, calls, faults>>

\* ... or lost, or answered with 429 or 5xx, and repeated after a while ...
SendAgain(t) ==
  /\ thread[t].at = "send"
  /\ Fault
  /\ Again(thread[t].attempt)
  /\ thread' = [thread EXCEPT ![t].at = "begin", ![t].attempt = @ + 1, ![t].sends = @ + 1]
  /\ UNCHANGED <<cell, refresh, clock, server, leaseVars, calls>>

\* ... or that was the last attempt, or the answer is final.
SendFails(t) ==
  /\ thread[t].at = "send"
  /\ Fault
  /\ Return(t)
  /\ UNCHANGED <<cell, refresh, clock, server, leaseVars, calls>>

-----------------------------------------------------------------------------
(* The event source.                                                       *)

StartSource ==
  /\ lease = "none"
  /\ starts < MaxStarts
  /\ starts' = starts + 1
  /\ lease' = "held"
  /\ secret' = TRUE
  /\ lateStores' = 0
  /\ UNCHANGED <<cell, refresh, thread, clock, server, calls, faults>>

\* invalidate_token after a close code.
CloseInvalidates ==
  /\ lease = "held"
  /\ Fault
  /\ cell' = Empty
  /\ UNCHANGED <<refresh, thread, clock, server, leaseVars, calls>>

\* Drop of GatewayCredentialLease: first the token ...
LeaseInvalidates ==
  /\ lease = "held"
  /\ lease' = "dropping"
  /\ cell' = Empty
  /\ UNCHANGED <<refresh, thread, clock, server, secret, lateStores, starts, calls, faults>>

\* ... then the secret.
LeaseClears ==
  /\ lease = "dropping"
  /\ lease' = "none"
  /\ secret' = FALSE
  /\ UNCHANGED <<cell, refresh, thread, clock, server, lateStores, starts, calls, faults>>

-----------------------------------------------------------------------------
(* The server and time.                                                    *)

Revoke ==
  /\ Fault
  /\ \E token \in 1..Len(issuedAt) \ revoked : revoked' = revoked \cup {token}
  /\ UNCHANGED <<cell, refresh, thread, clock, issuedAt, leaseVars, calls>>

Tick ==
  /\ clock < MaxTime
  /\ clock' = clock + 1
  /\ UNCHANGED <<cell, refresh, thread, server, leaseVars, calls, faults>>

-----------------------------------------------------------------------------
AuthInit ==
  /\ cell = Empty
  /\ refresh = Nobody
  /\ secret = FALSE /\ lease = "none"
  /\ thread = [t \in Threads |-> IdleThread]
  /\ clock = 0
  /\ issuedAt = <<>> /\ revoked = {}
  /\ lateStores = 0
  /\ calls = 0 /\ starts = 0 /\ faults = 0

\* What a call does by itself once it has started.
CallStep(t) ==
  \/ ReadClock(t) \/ CheckCell(t) \/ LockRefresh(t) \/ Recheck(t)
  \/ TokenIssued(t) \/ StoreToken(t)
  \/ Answered(t) \/ Refused(t) \/ RefusedAgain(t)

CallFault(t) == TokenAgain(t) \/ TokenFails(t) \/ SendAgain(t) \/ SendFails(t)

ThreadNext(t) == StartCall(t) \/ CallStep(t) \/ CallFault(t)

SourceNext == StartSource \/ CloseInvalidates \/ LeaseInvalidates \/ LeaseClears

AuthNext == (\E t \in Threads : ThreadNext(t)) \/ SourceNext \/ Revoke \/ Tick

AuthSpec == AuthInit /\ [][AuthNext]_authVars

\* Threads run, requests are answered or time out, and the refresh mutex does not
\* starve a waiting thread.
FairAuthSpec == AuthSpec /\ \A t \in Threads : WF_authVars(CallStep(t))

-----------------------------------------------------------------------------
(* Properties.                                                             *)

\* Type invariant: calls, cell and mutex, and the bounds of the retry counters.
AuthTypeOK ==
  /\ cell \in [token : 0..Len(issuedAt), expires : Nat]
  /\ refresh \in Threads \cup {Nobody}
  /\ secret \in BOOLEAN /\ lease \in {"held", "dropping", "none"}
  /\ thread \in [Threads -> CallState]
  /\ \A t \in Threads :
       /\ thread[t].tries \in 0..MaxAttempts
       /\ thread[t].attempt \in 1..MaxAttempts
       /\ thread[t].token \in 0..Len(issuedAt)
  /\ clock \in Nat
  /\ issuedAt \in Seq(Nat) /\ revoked \subseteq 1..Len(issuedAt)
  /\ lateStores \in Nat /\ calls \in Nat /\ starts \in Nat /\ faults \in Nat

\* The single flight of refreshes: nobody asks for a token while the cell has one
\* that is good enough, however long the asker had to wait for the mutex.
AskedOnlyWhenStale ==
  \A t \in Threads : thread[t].at \in {"ask", "store"} => ~Fresh(thread[t].now)

\* The cell never takes a token for longer-lived than the server does, however long
\* mutex, retries and answer take.
ExpiryNotOverestimated ==
  cell.token # None => cell.expires <= issuedAt[cell.token] + Ttl

\* "HTTP 401 refreshes once; retries are bounded by config" (qqbot-adapter.md):
\* whatever the other threads do to the cell, a call sends at most one request more
\* than max_retry_attempts.
SendsBounded ==
  \A t \in Threads :
    thread[t].at = "send" => thread[t].sends < MaxAttempts + 1

\* The request repeated after a 401 goes out with another token.
RetryUsesAnotherToken ==
  \A t \in Threads :
    thread[t].at = "send" /\ thread[t].refused # None => thread[t].token # thread[t].refused

\* A refresh under way when the lease is dropped may still fill the cell, but only
\* that one: later ones find no secret.
LateStoreAtMostOnce == lateStores <= 1

\* Every call returns: no thread waits for the refresh mutex or repeats its request
\* for ever.
CallsEnd == \A t \in Threads : thread[t].at # "idle" ~> thread[t].at = "idle"
=============================================================================
