---------------------------- MODULE QqAuthProofs ----------------------------
(***************************************************************************)
(* Theorems about QqAuth, for any number of threads, attempts, calls and   *)
(* faults: type correctness first, then AuthInv, the conjunction of what a *)
(* single call knows (CallInv), what two calls know of each other          *)
(* (PairInv) and what is known of the cell (CellInv).  Its core is that    *)
(* the thread between recheck and store owns the refresh mutex, and that   *)
(* the token it is about to store is one that nobody has seen yet.         *)
(***************************************************************************)
EXTENDS QqAuth, TLAPS

-----------------------------------------------------------------------------
(* Type correctness.                                                       *)

LEMMA InitAuthTypeOK == AuthInit => AuthTypeOK
  <1> SUFFICES ASSUME AuthInit PROVE AuthTypeOK
    OBVIOUS
  <1>1. IdleThread \in CallState
    BY DEF IdleThread, CallState, Places, None
  <1>2. thread \in [Threads -> CallState]
    BY <1>1 DEF AuthInit
  <1>3. /\ issuedAt \in Seq(Nat) /\ Len(issuedAt) = 0 /\ revoked \subseteq 1..Len(issuedAt)
        /\ cell \in [token : 0..Len(issuedAt), expires : Nat]
    BY DEF AuthInit, Empty, None
  <1>4. \A t \in Threads :
          /\ thread[t].tries \in 0..MaxAttempts
          /\ thread[t].attempt \in 1..MaxAttempts
          /\ thread[t].token \in 0..Len(issuedAt)
    <2> TAKE t \in Threads
    <2>1. thread[t] = IdleThread
      BY DEF AuthInit
    <2>2. IdleThread.tries = 0 /\ IdleThread.attempt = 1 /\ IdleThread.token = 0
      BY DEF IdleThread, None
    <2>3. MaxAttempts \in Nat \ {0}
      BY AuthAssumption
    <2>4. Len(issuedAt) = 0
      BY <1>3
    <2> QED
      BY <2>1, <2>2, <2>3, <2>4
  <1> QED
    BY <1>2, <1>3, <1>4 DEF AuthInit, AuthTypeOK

Typed(call) ==
  /\ call \in CallState
  /\ call.tries \in 0..MaxAttempts
  /\ call.attempt \in 1..MaxAttempts
  /\ call.token \in 0..Len(issuedAt)

\* What a step has to show when it changes one call, and no more than empties the
\* cell and takes or frees the mutex.
LEMMA OneCallType ==
  ASSUME AuthTypeOK, NEW t \in Threads, NEW STATE call,
         Typed(call),
         thread' = [thread EXCEPT ![t] = call],
         cell' = cell \/ cell' = Empty,
         refresh' \in {refresh, t, Nobody},
         calls' \in Nat, faults' \in Nat,
         UNCHANGED <<clock, issuedAt, revoked, secret, lease, lateStores, starts>>
  PROVE  AuthTypeOK'
  <1>1. thread' \in [Threads -> CallState]
    BY DEF AuthTypeOK, Typed
  <1>2. \A u \in Threads : thread'[u] = IF u = t THEN call ELSE thread[u]
    BY DEF AuthTypeOK
  <1>3. \A u \in Threads :
          /\ thread'[u].tries \in 0..MaxAttempts
          /\ thread'[u].attempt \in 1..MaxAttempts
          /\ thread'[u].token \in 0..Len(issuedAt)
    BY <1>2 DEF AuthTypeOK, Typed
  <1>4. cell' \in [token : 0..Len(issuedAt), expires : Nat]
    <2>1. Empty \in [token : 0..Len(issuedAt), expires : Nat]
      BY DEF AuthTypeOK, Empty, None
    <2> QED
      BY <2>1 DEF AuthTypeOK
  <1>5. refresh' \in Threads \cup {Nobody}
    BY DEF AuthTypeOK
  <1> QED
    BY <1>1, <1>3, <1>4, <1>5 DEF AuthTypeOK

\* What the types say of one call, and of the idle one.
LEMMA CallTypes ==
  ASSUME AuthTypeOK, NEW t \in Threads
  PROVE  Typed(thread[t])
  BY DEF AuthTypeOK, Typed

LEMMA CallNumbers ==
  ASSUME AuthTypeOK, NEW t \in Threads
  PROVE  /\ thread[t].now \in Nat /\ thread[t].tries \in Nat /\ thread[t].attempt \in Nat
         /\ thread[t].token \in Nat /\ thread[t].refused \in Nat /\ thread[t].sends \in Nat
         /\ thread[t].refreshed \in BOOLEAN /\ thread[t].at \in Places
  BY DEF AuthTypeOK, CallState

LEMMA IdleTypes ==
  ASSUME AuthTypeOK
  PROVE  Typed(IdleThread)
  <1>1. /\ IdleThread \in CallState
        /\ IdleThread.tries = 0 /\ IdleThread.attempt = 1 /\ IdleThread.token = 0
    BY DEF IdleThread, CallState, Places, None
  <1>2. MaxAttempts \in Nat \ {0}
    BY AuthAssumption
  <1>3. Len(issuedAt) \in Nat
    BY DEF AuthTypeOK
  <1> QED
    BY <1>1, <1>2, <1>3 DEF Typed

LEMMA StateNumbers ==
  ASSUME AuthTypeOK
  PROVE  /\ issuedAt \in Seq(Nat) /\ Len(issuedAt) \in Nat
         /\ cell.token \in 0..Len(issuedAt) /\ cell.token \in Nat
         /\ clock \in Nat /\ calls \in Nat /\ faults \in Nat
         /\ MaxAttempts \in Nat /\ 1 \in 0..MaxAttempts
  <1>1. MaxAttempts \in Nat \ {0}
    BY AuthAssumption
  <1>2. cell.token \in 0..Len(issuedAt) /\ Len(issuedAt) \in Nat
    BY DEF AuthTypeOK
  <1> QED
    BY <1>1, <1>2 DEF AuthTypeOK

LEMMA ThreadTypeOK ==
  ASSUME AuthTypeOK, NEW t \in Threads, ThreadNext(t)
  PROVE  AuthTypeOK'
  <1>a. Typed(thread[t]) /\ Typed(IdleThread)
    BY CallTypes, IdleTypes
  <1>b. /\ thread[t].now \in Nat /\ thread[t].tries \in Nat /\ thread[t].attempt \in Nat
        /\ thread[t].token \in Nat /\ thread[t].refused \in Nat /\ thread[t].sends \in Nat
        /\ thread[t].refreshed \in BOOLEAN /\ thread[t].at \in Places
    BY CallNumbers
  <1>c. /\ Len(issuedAt) \in Nat
        /\ cell.token \in 0..Len(issuedAt) /\ cell.token \in Nat
        /\ clock \in Nat /\ calls \in Nat /\ faults \in Nat
        /\ MaxAttempts \in Nat /\ 1 \in 0..MaxAttempts
    BY StateNumbers
  <1>1. CASE StartCall(t)
    <2> DEFINE call == [thread[t] EXCEPT !.at = "begin"]
    <2>1. thread' = [thread EXCEPT ![t] = call]
      BY <1>1 DEF StartCall
    <2>2. Typed(call)
      BY <1>a DEF CallState, Places, Typed
    <2>3. UNCHANGED <<clock, issuedAt, revoked, secret, lease, lateStores, starts>>
      BY <1>1 DEF StartCall, server, leaseVars
    <2>4. /\ cell' = cell \/ cell' = Empty
          /\ refresh' \in {refresh, t, Nobody}
          /\ calls' \in Nat /\ faults' \in Nat
      BY <1>1, <1>c DEF StartCall, Fault
    <2> HIDE DEF call
    <2> QED
      BY <2>1, <2>2, <2>3, <2>4, OneCallType
  <1>2. CASE ReadClock(t)
    <2> DEFINE call == [thread[t] EXCEPT !.at = "check", !.now = clock]
    <2>1. thread' = [thread EXCEPT ![t] = call]
      BY <1>2 DEF ReadClock
    <2>2. Typed(call)
      BY <1>a, <1>c DEF CallState, Places, Typed
    <2>3. UNCHANGED <<clock, issuedAt, revoked, secret, lease, lateStores, starts>>
      BY <1>2 DEF ReadClock, server, leaseVars
    <2>4. /\ cell' = cell \/ cell' = Empty
          /\ refresh' \in {refresh, t, Nobody}
          /\ calls' \in Nat /\ faults' \in Nat
      BY <1>2, <1>c DEF ReadClock, Fault
    <2> HIDE DEF call
    <2> QED
      BY <2>1, <2>2, <2>3, <2>4, OneCallType
  <1>3. CASE Recheck(t) \/ CheckCell(t)
    <2>1. PICK call \in {[thread[t] EXCEPT !.at = "send", !.token = cell.token],
                         [thread[t] EXCEPT !.at = "lock"],
                         [thread[t] EXCEPT !.at = "ask", !.tries = 1], IdleThread} :
            thread' = [thread EXCEPT ![t] = call]
      BY <1>3 DEF Recheck, CheckCell, Return
    <2>2. Typed(call)
      <3>1. Typed([thread[t] EXCEPT !.at = "send", !.token = cell.token])
        BY <1>a, <1>c DEF CallState, Places, Typed
      <3>2. Typed([thread[t] EXCEPT !.at = "lock"])
        BY <1>a DEF CallState, Places, Typed
      <3>3. Typed([thread[t] EXCEPT !.at = "ask", !.tries = 1])
        BY <1>a, <1>c DEF CallState, Places, Typed
      <3> QED
        BY <1>a, <3>1, <3>2, <3>3
    <2>3. UNCHANGED <<clock, issuedAt, revoked, secret, lease, lateStores, starts>>
      BY <1>3 DEF Recheck, CheckCell, server, leaseVars
    <2>4. /\ cell' = cell \/ cell' = Empty
          /\ refresh' \in {refresh, t, Nobody}
          /\ calls' \in Nat /\ faults' \in Nat
      BY <1>3, <1>c DEF Recheck, CheckCell, Fault
    <2> QED
      BY <2>1, <2>2, <2>3, <2>4, OneCallType
  <1>4. CASE LockRefresh(t)
    <2> DEFINE call == [thread[t] EXCEPT !.at = "recheck"]
    <2>1. thread' = [thread EXCEPT ![t] = call]
      BY <1>4 DEF LockRefresh
    <2>2. Typed(call)
      BY <1>a DEF CallState, Places, Typed
    <2>3. UNCHANGED <<clock, issuedAt, revoked, secret, lease, lateStores, starts>>
      BY <1>4 DEF LockRefresh, server, leaseVars
    <2>4. /\ cell' = cell \/ cell' = Empty
          /\ refresh' \in {refresh, t, Nobody}
          /\ calls' \in Nat /\ faults' \in Nat
      BY <1>4, <1>c DEF LockRefresh, Fault
    <2> HIDE DEF call
    <2> QED
      BY <2>1, <2>2, <2>3, <2>4, OneCallType
  <1>5. CASE TokenIssued(t)
    <2> DEFINE id == Len(issuedAt) + 1
               call == [thread[t] EXCEPT !.at = "store", !.token = id]
    <2>1. thread' = [thread EXCEPT ![t] = call] /\ issuedAt' = Append(issuedAt, clock)
      BY <1>5 DEF TokenIssued
    <2>2. call \in CallState /\ call.tries \in 0..MaxAttempts
          /\ call.attempt \in 1..MaxAttempts /\ call.token = id
      <3>1. id \in Nat
        BY <1>c
      <3> HIDE DEF id
      <3> QED
        BY <1>a, <3>1 DEF CallState, Places, Typed
    <2>3. issuedAt' \in Seq(Nat) /\ Len(issuedAt') = id
      BY <2>1, <1>c DEF AuthTypeOK
    <2>4. thread' \in [Threads -> CallState]
      BY <2>1, <2>2 DEF AuthTypeOK, Typed
    <2>5. \A u \in Threads : thread'[u] = IF u = t THEN call ELSE thread[u]
      BY <2>1 DEF AuthTypeOK
    <2> HIDE DEF call
    <2>6. \A u \in Threads :
            /\ thread'[u].tries \in 0..MaxAttempts
            /\ thread'[u].attempt \in 1..MaxAttempts
            /\ thread'[u].token \in 0..id
      <3> TAKE u \in Threads
      <3>1. thread[u].token \in 0..Len(issuedAt) /\ id \in 0..id
        BY <1>c DEF AuthTypeOK
      <3>2. thread[u].token \in 0..id
        BY <1>c, <3>1
      <3> HIDE DEF id
      <3> QED
        BY <2>2, <2>5, <3>1, <3>2 DEF AuthTypeOK
    <2>7. cell' \in [token : 0..id, expires : Nat] /\ revoked' \subseteq 1..id
      BY <1>5, <1>c DEF TokenIssued, AuthTypeOK
    <2> HIDE DEF id
    <2> QED
      BY <1>5, <2>3, <2>4, <2>6, <2>7 DEF TokenIssued, AuthTypeOK, leaseVars
  <1>6. CASE StoreToken(t)
    <2> DEFINE call == [thread[t] EXCEPT !.at = "send"]
    <2>1. thread' = [thread EXCEPT ![t] = call]
      BY <1>6 DEF StoreToken
    <2>2. Typed(call)
      BY <1>a DEF CallState, Places, Typed
    <2>3. \A u \in Threads : thread'[u] = IF u = t THEN call ELSE thread[u]
      BY <2>1 DEF AuthTypeOK
    <2>4. thread' \in [Threads -> CallState]
      BY <2>1, <2>2 DEF AuthTypeOK, Typed
    <2> HIDE DEF call
    <2>5. \A u \in Threads :
            /\ thread'[u].tries \in 0..MaxAttempts
            /\ thread'[u].attempt \in 1..MaxAttempts
            /\ thread'[u].token \in 0..Len(issuedAt)
      BY <2>2, <2>3 DEF AuthTypeOK, Typed
    <2>6. ExpiryOf(t) \in Nat
      <3>1. thread[t].now \in Nat /\ Ttl \in Nat
        BY AuthAssumption, <1>b
      <3> QED
        BY <3>1 DEF ExpiryOf
    <2>7. cell' \in [token : 0..Len(issuedAt), expires : Nat]
      BY <1>6, <2>6, <1>a DEF StoreToken, Typed
    <2>8. lateStores' \in Nat
      BY <1>6 DEF StoreToken, AuthTypeOK
    <2> QED
      BY <1>6, <2>4, <2>5, <2>7, <2>8 DEF StoreToken, AuthTypeOK, server
  <1>7. CASE Answered(t) \/ RefusedAgain(t) \/ SendFails(t) \/ TokenFails(t)
    <2>1. thread' = [thread EXCEPT ![t] = IdleThread]
      BY <1>7 DEF Answered, RefusedAgain, SendFails, TokenFails, Return
    <2>2. Typed(IdleThread)
      BY <1>a
    <2>3. UNCHANGED <<clock, issuedAt, revoked, secret, lease, lateStores, starts>>
      BY <1>7 DEF Answered, RefusedAgain, SendFails, TokenFails, server, leaseVars
    <2>4. /\ cell' = cell \/ cell' = Empty
          /\ refresh' \in {refresh, t, Nobody}
          /\ calls' \in Nat /\ faults' \in Nat
      BY <1>7, <1>c DEF Answered, RefusedAgain, SendFails, TokenFails, Fault
    <2> QED
      BY <2>1, <2>2, <2>3, <2>4, OneCallType
  <1>8. CASE Refused(t)
    <2> DEFINE call == [thread[t] EXCEPT !.at = "begin", !.refreshed = TRUE,
                                         !.refused = thread[t].token, !.sends = @ + 1]
    <2>1. thread' = [thread EXCEPT ![t] = call]
      BY <1>8 DEF Refused
    <2>2. Typed(call)
      <3>1. thread[t].sends + 1 \in Nat
        BY <1>b
      <3> QED
        BY <1>a, <1>b, <3>1 DEF CallState, Places, Typed
    <2>3. UNCHANGED <<clock, issuedAt, revoked, secret, lease, lateStores, starts>>
      BY <1>8 DEF Refused, server, leaseVars
    <2>4. /\ cell' = cell \/ cell' = Empty
          /\ refresh' \in {refresh, t, Nobody}
          /\ calls' \in Nat /\ faults' \in Nat
      BY <1>8, <1>c DEF Refused, Fault
    <2> HIDE DEF call
    <2> QED
      BY <2>1, <2>2, <2>3, <2>4, OneCallType
  <1>9. CASE TokenAgain(t)
    <2> DEFINE call == [thread[t] EXCEPT !.tries = @ + 1]
    <2>1. thread' = [thread EXCEPT ![t] = call]
      BY <1>9 DEF TokenAgain
    <2>2. Typed(call)
      <3>1. thread[t].tries + 1 \in 0..MaxAttempts /\ thread[t].tries + 1 \in Nat
        <4>1. thread[t].tries < MaxAttempts
          BY <1>9 DEF TokenAgain, Again
        <4> QED
          BY <4>1, <1>b, <1>c
      <3> QED
        BY <1>a, <3>1 DEF CallState, Typed
    <2>3. UNCHANGED <<clock, issuedAt, revoked, secret, lease, lateStores, starts>>
      BY <1>9 DEF TokenAgain, server, leaseVars
    <2>4. /\ cell' = cell \/ cell' = Empty
          /\ refresh' \in {refresh, t, Nobody}
          /\ calls' \in Nat /\ faults' \in Nat
      BY <1>9, <1>c DEF TokenAgain, Fault
    <2> HIDE DEF call
    <2> QED
      BY <2>1, <2>2, <2>3, <2>4, OneCallType
  <1>10. CASE SendAgain(t)
    <2> DEFINE call == [thread[t] EXCEPT !.at = "begin", !.attempt = @ + 1, !.sends = @ + 1]
    <2>1. thread' = [thread EXCEPT ![t] = call]
      BY <1>10 DEF SendAgain
    <2>2. Typed(call)
      <3>1. /\ thread[t].attempt + 1 \in 1..MaxAttempts /\ thread[t].attempt + 1 \in Nat
            /\ thread[t].sends + 1 \in Nat
        <4>1. thread[t].attempt < MaxAttempts
          BY <1>10 DEF SendAgain, Again
        <4> QED
          BY <4>1, <1>b, <1>c
      <3> QED
        BY <1>a, <3>1 DEF CallState, Places, Typed
    <2>3. UNCHANGED <<clock, issuedAt, revoked, secret, lease, lateStores, starts>>
      BY <1>10 DEF SendAgain, server, leaseVars
    <2>4. /\ cell' = cell \/ cell' = Empty
          /\ refresh' \in {refresh, t, Nobody}
          /\ calls' \in Nat /\ faults' \in Nat
      BY <1>10, <1>c DEF SendAgain, Fault
    <2> HIDE DEF call
    <2> QED
      BY <2>1, <2>2, <2>3, <2>4, OneCallType
  <1> QED
    BY <1>1, <1>2, <1>3, <1>4, <1>5, <1>6, <1>7, <1>8, <1>9, <1>10
    DEF ThreadNext, CallStep, CallFault

LEMMA NextAuthTypeOK == AuthTypeOK /\ [AuthNext]_authVars => AuthTypeOK'
  <1> SUFFICES ASSUME AuthTypeOK, [AuthNext]_authVars PROVE AuthTypeOK'
    OBVIOUS
  <1>1. ASSUME NEW t \in Threads, ThreadNext(t) PROVE AuthTypeOK'
    BY <1>1, ThreadTypeOK
  <1>2. CASE SourceNext
    <2>1. cell' = cell \/ cell' = Empty
      BY <1>2 DEF SourceNext, StartSource, CloseInvalidates, LeaseInvalidates, LeaseClears
    <2>2. Empty \in [token : 0..Len(issuedAt), expires : Nat]
      BY DEF AuthTypeOK, Empty, None
    <2>3. /\ secret' \in BOOLEAN /\ lease' \in {"held", "dropping", "none"}
      BY <1>2 DEF SourceNext, StartSource, CloseInvalidates, LeaseInvalidates, LeaseClears,
                  AuthTypeOK, leaseVars
    <2>4. /\ lateStores' \in Nat /\ starts' \in Nat /\ faults' \in Nat
      BY <1>2 DEF SourceNext, StartSource, CloseInvalidates, LeaseInvalidates, LeaseClears,
                  AuthTypeOK, leaseVars, Fault
    <2>5. UNCHANGED <<refresh, thread, clock, issuedAt, revoked, calls>>
      BY <1>2 DEF SourceNext, StartSource, CloseInvalidates, LeaseInvalidates, LeaseClears,
                  server
    <2> QED
      BY <2>1, <2>2, <2>3, <2>4, <2>5 DEF AuthTypeOK
  <1>3. CASE Revoke
    BY <1>3 DEF Revoke, Fault, AuthTypeOK, leaseVars
  <1>4. CASE Tick
    BY <1>4 DEF Tick, AuthTypeOK, leaseVars, server
  <1>5. CASE UNCHANGED authVars
    BY <1>5 DEF authVars, AuthTypeOK, leaseVars, server
  <1> QED
    BY <1>1, <1>2, <1>3, <1>4, <1>5 DEF AuthNext

\* Every variable keeps its type, and both retry counters stay within
\* max_retry_attempts.
THEOREM AuthTypeCorrect == AuthSpec => []AuthTypeOK
  <1> QED
    BY InitAuthTypeOK, NextAuthTypeOK, PTL DEF AuthSpec

-----------------------------------------------------------------------------
(* The inductive invariant.                                                *)

\* Between recheck and store a call owns the refresh mutex.
OwnsRefresh(t) == thread[t].at \in {"recheck", "ask", "store"} => refresh = t

\* While it asks the cell stays stale for the clock it read.
CellStale(t) == thread[t].at \in {"ask", "store"} => ~Fresh(thread[t].now)

ClockRead(t) ==
  thread[t].at \in {"check", "lock", "recheck", "ask", "store"} => thread[t].now <= clock

\* The token about to be stored is no older than the clock it is counted from.
TokenNew(t) ==
  thread[t].at = "store" =>
    /\ thread[t].token \in 1..Len(issuedAt)
    /\ thread[t].now <= issuedAt[thread[t].token]
    /\ cell.token # thread[t].token

SecretRead(t) == thread[t].at \in {"ask", "store"} => secret \/ lateStores = 0

SendsCounted(t) ==
  thread[t].sends <= thread[t].attempt - 1 + (IF thread[t].refreshed THEN 1 ELSE 0)

\* A refused token has left the cell, and the next request goes out with another.
RefusedGone(t) ==
  thread[t].refused # None =>
    /\ thread[t].refused \in 1..Len(issuedAt)
    /\ thread[t].refreshed
    /\ cell.token # thread[t].refused
    /\ thread[t].at = "send" => thread[t].token # thread[t].refused

CallInv(t) ==
  /\ OwnsRefresh(t)
  /\ CellStale(t)
  /\ ClockRead(t)
  /\ TokenNew(t)
  /\ SecretRead(t)
  /\ SendsCounted(t)
  /\ RefusedGone(t)

\* Nobody else has seen the token that u is about to store.
PairInv(t, u) ==
  thread[u].at = "store" =>
    /\ thread[t].refused # thread[u].token
    /\ t # u => thread[t].token # thread[u].token

CellInv ==
  /\ ExpiryNotOverestimated
  /\ lease # "none" => secret
  /\ secret => lateStores = 0
  /\ lateStores <= 1

AuthInv ==
  /\ AuthTypeOK
  /\ \A t \in Threads : CallInv(t)
  /\ \A t, u \in Threads : PairInv(t, u)
  /\ CellInv

LEMMA InitAuthInv == AuthInit => AuthInv
  <1> SUFFICES ASSUME AuthInit PROVE AuthInv
    OBVIOUS
  <1>1. AuthTypeOK
    BY InitAuthTypeOK
  <1>2. \A t \in Threads :
          /\ thread[t].at = "idle" /\ thread[t].refused = 0 /\ thread[t].sends = 0
          /\ thread[t].attempt = 1 /\ thread[t].refreshed = FALSE
    <2>1. \A t \in Threads : thread[t] = IdleThread
      BY DEF AuthInit
    <2>2. /\ IdleThread.at = "idle" /\ IdleThread.refused = 0 /\ IdleThread.sends = 0
          /\ IdleThread.attempt = 1 /\ IdleThread.refreshed = FALSE
      BY DEF IdleThread, None
    <2> HIDE DEF IdleThread
    <2> QED
      BY <2>1, <2>2
  <1>3. \A t \in Threads : CallInv(t)
    <2> TAKE t \in Threads
    <2>1. SendsCounted(t)
      <3>1. 0 <= 1 - 1 + 0
        OBVIOUS
      <3> QED
        BY <1>2, <3>1 DEF SendsCounted
    <2> QED
      BY <1>2, <2>1 DEF CallInv, OwnsRefresh, CellStale, ClockRead, TokenNew, SecretRead,
                        RefusedGone, None
  <1>4. \A t, u \in Threads : PairInv(t, u)
    BY <1>2 DEF PairInv
  <1>5. CellInv
    BY DEF AuthInit, CellInv, ExpiryNotOverestimated, Empty, None
  <1> QED
    BY <1>1, <1>3, <1>4, <1>5 DEF AuthInv

\* A call keeps its part of the invariant while others empty the cell, or fill it when
\* they hold the mutex.
LEMMA OtherCall ==
  ASSUME AuthInv, NEW u \in Threads, thread'[u] = thread[u],
         refresh = u => refresh' = u,
         Len(issuedAt') \in Nat, Len(issuedAt) <= Len(issuedAt'),
         \A i \in 1..Len(issuedAt) : issuedAt'[i] = issuedAt[i],
         clock' \in Nat, clock <= clock',
         \/ cell' = cell
         \/ cell' = Empty
         \/ /\ refresh # u
            /\ \E v \in Threads : thread[v].at = "store" /\ cell'.token = thread[v].token,
         thread[u].at \in {"ask", "store"} => secret' \/ lateStores' = 0
  PROVE  CallInv(u)'
  <1>1. AuthTypeOK /\ CallInv(u) /\ \A v \in Threads : PairInv(u, v)
    BY DEF AuthInv
  <1>2. Len(issuedAt) \in Nat /\ clock \in Nat /\ thread[u].now \in Nat
    BY <1>1, StateNumbers, CallNumbers
  <1>3. OwnsRefresh(u)'
    BY <1>1 DEF CallInv, OwnsRefresh
  <1>4. CellStale(u)'
    <2>1. CASE cell' = cell
      BY <1>1, <2>1 DEF CallInv, CellStale, Fresh
    <2>2. CASE cell' = Empty
      BY <2>2 DEF CellStale, Fresh, Empty
    <2>3. CASE refresh # u
      BY <1>1, <2>3 DEF CallInv, CellStale, OwnsRefresh
    <2> QED
      BY <2>1, <2>2, <2>3
  <1>5. ClockRead(u)'
    <2>1. thread[u].now <= clock => thread[u].now <= clock'
      BY <1>2
    <2> QED
      BY <1>1, <2>1 DEF CallInv, ClockRead
  <1>6. TokenNew(u)'
    <2> SUFFICES ASSUME thread[u].at = "store"
                 PROVE  /\ thread[u].token \in 1..Len(issuedAt')
                        /\ thread[u].now <= issuedAt'[thread[u].token]
                        /\ cell'.token # thread[u].token
      BY DEF TokenNew
    <2>1. /\ thread[u].token \in 1..Len(issuedAt)
          /\ thread[u].now <= issuedAt[thread[u].token]
          /\ cell.token # thread[u].token
          /\ refresh = u
      BY <1>1 DEF CallInv, TokenNew, OwnsRefresh
    <2>2. thread[u].token \in 1..Len(issuedAt') /\ thread[u].token # 0
      BY <1>2, <2>1
    <2>3. cell'.token # thread[u].token
      BY <2>1, <2>2 DEF Empty, None
    <2> QED
      BY <2>1, <2>2, <2>3
  <1>7. SecretRead(u)'
    BY DEF SecretRead
  <1>8. SendsCounted(u)'
    BY <1>1 DEF CallInv, SendsCounted
  <1>9. RefusedGone(u)'
    <2> SUFFICES ASSUME thread[u].refused # None
                 PROVE  /\ thread[u].refused \in 1..Len(issuedAt')
                        /\ thread[u].refreshed
                        /\ cell'.token # thread[u].refused
                        /\ thread[u].at = "send" => thread[u].token # thread[u].refused
      BY DEF RefusedGone
    <2>1. /\ thread[u].refused \in 1..Len(issuedAt)
          /\ thread[u].refreshed
          /\ cell.token # thread[u].refused
          /\ thread[u].at = "send" => thread[u].token # thread[u].refused
      BY <1>1 DEF CallInv, RefusedGone
    <2>2. thread[u].refused \in 1..Len(issuedAt')
      BY <1>2, <2>1
    <2>3. \A v \in Threads : thread[v].at = "store" => thread[v].token # thread[u].refused
      BY <1>1 DEF PairInv
    <2>4. cell'.token # thread[u].refused
      BY <2>1, <2>3 DEF Empty
    <2> QED
      BY <2>1, <2>2, <2>4
  <1> QED
    BY <1>3, <1>4, <1>5, <1>6, <1>7, <1>8, <1>9 DEF CallInv

\* A call that ends up elsewhere than before its store has no token that somebody else
\* is about to store.
LEMMA PairsKept ==
  ASSUME AuthInv, NEW t \in Threads,
         \A u \in Threads : u # t => thread'[u] = thread[u],
         thread'[t].at # "store",
         thread'[t].token \in {thread[t].token, cell.token, None},
         thread'[t].refused \in {thread[t].refused, thread[t].token, None}
  PROVE  \A u, v \in Threads : PairInv(u, v)'
  <1> TAKE u, v \in Threads
  <1> SUFFICES ASSUME thread'[v].at = "store"
               PROVE  /\ thread'[u].refused # thread'[v].token
                      /\ u # v => thread'[u].token # thread'[v].token
    BY DEF PairInv
  <1>1. v # t /\ thread'[v] = thread[v]
    OBVIOUS
  <1>2. PairInv(u, v) /\ PairInv(t, v) /\ TokenNew(v)
    BY DEF AuthInv, CallInv
  <1>3. cell.token # thread[v].token /\ thread[v].token \in 1..Len(issuedAt)
    BY <1>1, <1>2 DEF TokenNew
  <1>4. thread[v].token # None
    BY <1>3 DEF None
  <1>5. thread[t].refused # thread[v].token /\ thread[t].token # thread[v].token
    BY <1>1, <1>2 DEF PairInv
  <1>6. CASE u = t
    BY <1>1, <1>3, <1>4, <1>5, <1>6
  <1>7. CASE u # t
    BY <1>1, <1>2, <1>7 DEF PairInv
  <1> QED
    BY <1>6, <1>7

LEMMA CellKept ==
  ASSUME AuthInv, cell' = cell \/ cell' = Empty,
         \A i \in 1..Len(issuedAt) : issuedAt'[i] = issuedAt[i],
         UNCHANGED <<secret, lease, lateStores>>
  PROVE  CellInv'
  <1>1. AuthTypeOK /\ CellInv
    BY DEF AuthInv
  <1>2. ExpiryNotOverestimated'
    <2>1. CASE cell' = Empty
      BY <2>1 DEF ExpiryNotOverestimated, Empty
    <2>2. CASE cell' = cell
      <3>1. cell.token # None => cell.token \in 1..Len(issuedAt)
        BY <1>1, StateNumbers DEF None
      <3> QED
        BY <1>1, <2>2, <3>1 DEF CellInv, ExpiryNotOverestimated
    <2> QED
      BY <2>1, <2>2
  <1> QED
    BY <1>1, <1>2 DEF CellInv

\* What a step has to show of the call it changes when it issues and stores no token.
LEMMA OneCallInv ==
  ASSUME AuthInv, AuthTypeOK', NEW t \in Threads, NEW STATE call,
         thread' = [thread EXCEPT ![t] = call],
         call.at # "store",
         call.token \in {thread[t].token, cell.token, None},
         call.refused \in {thread[t].refused, thread[t].token, None},
         cell' = cell \/ cell' = Empty,
         refresh = t \/ refresh = Nobody \/ refresh' = refresh,
         UNCHANGED <<clock, issuedAt, secret, lease, lateStores>>,
         CallInv(t)'
  PROVE  AuthInv'
  <1>1. AuthTypeOK
    BY DEF AuthInv
  <1>2. thread'[t] = call /\ \A u \in Threads : u # t => thread'[u] = thread[u]
    BY <1>1 DEF AuthTypeOK
  <1>3. \A u \in Threads : CallInv(u)'
    <2> TAKE u \in Threads
    <2>1. CASE u = t
      BY <2>1
    <2>2. CASE u # t
      <3>1. refresh = u => refresh' = u
        BY <2>2, AuthAssumption
      <3>2. thread[u].at \in {"ask", "store"} => secret' \/ lateStores' = 0
        BY DEF AuthInv, CallInv, SecretRead
      <3>3. /\ Len(issuedAt') \in Nat /\ Len(issuedAt) <= Len(issuedAt')
            /\ clock' \in Nat /\ clock <= clock'
        BY <1>1, StateNumbers
      <3> QED
        BY <1>2, <2>2, <3>1, <3>2, <3>3, OtherCall
    <2> QED
      BY <2>1, <2>2
  <1>4. \A u, v \in Threads : PairInv(u, v)'
    BY <1>2, PairsKept
  <1>5. CellInv'
    BY CellKept
  <1> QED
    BY <1>3, <1>4, <1>5 DEF AuthInv

LEMMA StartCallStep ==
  ASSUME AuthInv, AuthTypeOK', NEW t \in Threads, StartCall(t)
  PROVE  AuthInv'
  <1> DEFINE call == [thread[t] EXCEPT !.at = "begin"]
  <1>1. CallInv(t) /\ Typed(thread[t]) /\ AuthTypeOK
    BY CallTypes DEF AuthInv
  <1>2. thread' = [thread EXCEPT ![t] = call] /\ thread'[t] = call
    BY <1>1 DEF StartCall, AuthTypeOK
  <1>3. /\ call.at = "begin" /\ call.token = thread[t].token
        /\ call.refused = thread[t].refused /\ call.sends = thread[t].sends
        /\ call.attempt = thread[t].attempt /\ call.refreshed = thread[t].refreshed
    BY <1>1 DEF Typed, CallState
  <1>4. UNCHANGED <<cell, refresh, clock, issuedAt, secret, lease, lateStores>>
    BY DEF StartCall, server, leaseVars
  <1> HIDE DEF call
  <1>5. CallInv(t)'
    BY <1>1, <1>2, <1>3, <1>4 DEF CallInv, OwnsRefresh, CellStale, ClockRead, TokenNew,
                                  SecretRead, SendsCounted, RefusedGone
  <1> QED
    BY <1>2, <1>3, <1>4, <1>5, OneCallInv

LEMMA ReadClockStep ==
  ASSUME AuthInv, AuthTypeOK', NEW t \in Threads, ReadClock(t)
  PROVE  AuthInv'
  <1> DEFINE call == [thread[t] EXCEPT !.at = "check", !.now = clock]
  <1>1. CallInv(t) /\ Typed(thread[t]) /\ AuthTypeOK
    BY CallTypes DEF AuthInv
  <1>2. thread' = [thread EXCEPT ![t] = call] /\ thread'[t] = call
    BY <1>1 DEF ReadClock, AuthTypeOK
  <1>3. /\ call.at = "check" /\ call.token = thread[t].token /\ call.now = clock
        /\ call.refused = thread[t].refused /\ call.sends = thread[t].sends
        /\ call.attempt = thread[t].attempt /\ call.refreshed = thread[t].refreshed
    BY <1>1 DEF Typed, CallState
  <1>4. UNCHANGED <<cell, refresh, clock, issuedAt, secret, lease, lateStores>>
    BY DEF ReadClock, server, leaseVars
  <1>5. call.now <= clock'
    BY <1>1, <1>3, <1>4, StateNumbers
  <1> HIDE DEF call
  <1>6. CallInv(t)'
    BY <1>1, <1>2, <1>3, <1>4, <1>5
    DEF CallInv, OwnsRefresh, CellStale, ClockRead, TokenNew, SecretRead, SendsCounted,
        RefusedGone
  <1> QED
    BY <1>2, <1>3, <1>4, <1>6, OneCallInv

LEMMA LockRefreshStep ==
  ASSUME AuthInv, AuthTypeOK', NEW t \in Threads, LockRefresh(t)
  PROVE  AuthInv'
  <1> DEFINE call == [thread[t] EXCEPT !.at = "recheck"]
  <1>1. CallInv(t) /\ Typed(thread[t]) /\ AuthTypeOK
    BY CallTypes DEF AuthInv
  <1>2. thread' = [thread EXCEPT ![t] = call] /\ thread'[t] = call
    BY <1>1 DEF LockRefresh, AuthTypeOK
  <1>3. /\ call.at = "recheck" /\ call.token = thread[t].token
        /\ call.now = thread[t].now
        /\ call.refused = thread[t].refused /\ call.sends = thread[t].sends
        /\ call.attempt = thread[t].attempt /\ call.refreshed = thread[t].refreshed
    BY <1>1 DEF Typed, CallState
  <1>4. UNCHANGED <<cell, clock, issuedAt, secret, lease, lateStores>>
    BY DEF LockRefresh, server, leaseVars
  <1>5. refresh' = t /\ refresh = Nobody /\ thread[t].at = "lock"
    BY DEF LockRefresh
  <1> HIDE DEF call
  <1>6. CallInv(t)'
    BY <1>1, <1>2, <1>3, <1>4, <1>5
    DEF CallInv, OwnsRefresh, CellStale, ClockRead, TokenNew, SecretRead,
        SendsCounted, RefusedGone
  <1> QED
    BY <1>2, <1>3, <1>4, <1>5, <1>6, OneCallInv

LEMMA TokenAgainStep ==
  ASSUME AuthInv, AuthTypeOK', NEW t \in Threads, TokenAgain(t)
  PROVE  AuthInv'
  <1> DEFINE call == [thread[t] EXCEPT !.tries = @ + 1]
  <1>1. CallInv(t) /\ Typed(thread[t]) /\ AuthTypeOK
    BY CallTypes DEF AuthInv
  <1>2. thread' = [thread EXCEPT ![t] = call] /\ thread'[t] = call
    BY <1>1 DEF TokenAgain, AuthTypeOK
  <1>3. /\ call.at = thread[t].at /\ call.token = thread[t].token
        /\ call.now = thread[t].now
        /\ call.refused = thread[t].refused /\ call.sends = thread[t].sends
        /\ call.attempt = thread[t].attempt /\ call.refreshed = thread[t].refreshed
    BY <1>1 DEF Typed, CallState
  <1>4. UNCHANGED <<cell, refresh, clock, issuedAt, secret, lease, lateStores>>
    BY DEF TokenAgain, server, leaseVars
  <1>5. thread[t].at = "ask"
    BY DEF TokenAgain
  <1> HIDE DEF call
  <1>6. CallInv(t)'
    BY <1>1, <1>2, <1>3, <1>4, <1>5
    DEF CallInv, OwnsRefresh, CellStale, ClockRead, TokenNew, SecretRead,
        SendsCounted, RefusedGone, Fresh
  <1> QED
    BY <1>2, <1>3, <1>4, <1>5, <1>6, OneCallInv

\* Every way a call returns: none keeps the mutex of somebody else.
LEMMA ReturnStep ==
  ASSUME AuthInv, AuthTypeOK', NEW t \in Threads,
         Answered(t) \/ RefusedAgain(t) \/ SendFails(t) \/ TokenFails(t)
  PROVE  AuthInv'
  <1>1. CallInv(t) /\ AuthTypeOK
    BY DEF AuthInv
  <1>2. thread' = [thread EXCEPT ![t] = IdleThread] /\ thread'[t] = IdleThread
    BY <1>1 DEF Answered, RefusedAgain, SendFails, TokenFails, Return, AuthTypeOK
  <1>3. UNCHANGED <<cell, clock, issuedAt, secret, lease, lateStores>>
    BY DEF Answered, RefusedAgain, SendFails, TokenFails, server, leaseVars
  <1>4. refresh = t \/ refresh' = refresh
    <2>1. CASE TokenFails(t)
      BY <1>1, <2>1 DEF TokenFails, CallInv, OwnsRefresh
    <2>2. CASE Answered(t) \/ RefusedAgain(t) \/ SendFails(t)
      BY <2>2 DEF Answered, RefusedAgain, SendFails
    <2> QED
      BY <2>1, <2>2
  <1>5. /\ IdleThread.at = "idle" /\ IdleThread.token = None /\ IdleThread.refused = None
        /\ IdleThread.sends = 0 /\ IdleThread.attempt = 1 /\ IdleThread.refreshed = FALSE
    BY DEF IdleThread
  <1>6. SendsCounted(t)'
    <2>1. 0 <= 1 - 1 + 0
      OBVIOUS
    <2> QED
      BY <1>2, <1>5, <2>1 DEF SendsCounted
  <1>7. CallInv(t)'
    BY <1>2, <1>5, <1>6
    DEF CallInv, OwnsRefresh, CellStale, ClockRead, TokenNew, SecretRead, RefusedGone
  <1> HIDE DEF IdleThread
  <1> QED
    BY <1>2, <1>3, <1>4, <1>5, <1>7, OneCallInv

LEMMA CheckCellStep ==
  ASSUME AuthInv, AuthTypeOK', NEW t \in Threads, CheckCell(t)
  PROVE  AuthInv'
  <1>1. CallInv(t) /\ Typed(thread[t]) /\ AuthTypeOK
    BY CallTypes DEF AuthInv
  <1>2. UNCHANGED <<cell, refresh, clock, issuedAt, secret, lease, lateStores>>
    BY DEF CheckCell, server, leaseVars
  <1>3. CASE Fresh(thread[t].now)
    <2> DEFINE call == [thread[t] EXCEPT !.at = "send", !.token = cell.token]
    <2>1. thread' = [thread EXCEPT ![t] = call] /\ thread'[t] = call
      BY <1>1, <1>3 DEF CheckCell, AuthTypeOK
    <2>2. /\ call.at = "send" /\ call.token = cell.token
          /\ call.refused = thread[t].refused /\ call.sends = thread[t].sends
          /\ call.attempt = thread[t].attempt /\ call.refreshed = thread[t].refreshed
      BY <1>1 DEF Typed, CallState
    <2> HIDE DEF call
    <2>3. CallInv(t)'
      BY <1>1, <1>2, <2>1, <2>2 DEF CallInv, OwnsRefresh, CellStale, ClockRead, TokenNew,
                                    SecretRead, SendsCounted, RefusedGone
    <2> QED
      BY <1>2, <2>1, <2>2, <2>3, OneCallInv
  <1>4. CASE ~Fresh(thread[t].now)
    <2> DEFINE call == [thread[t] EXCEPT !.at = "lock"]
    <2>1. thread' = [thread EXCEPT ![t] = call] /\ thread'[t] = call /\ thread[t].at = "check"
      BY <1>1, <1>4 DEF CheckCell, AuthTypeOK
    <2>2. /\ call.at = "lock" /\ call.token = thread[t].token /\ call.now = thread[t].now
          /\ call.refused = thread[t].refused /\ call.sends = thread[t].sends
          /\ call.attempt = thread[t].attempt /\ call.refreshed = thread[t].refreshed
      BY <1>1 DEF Typed, CallState
    <2> HIDE DEF call
    <2>3. CallInv(t)'
      BY <1>1, <1>2, <2>1, <2>2 DEF CallInv, OwnsRefresh, CellStale, ClockRead, TokenNew,
                                    SecretRead, SendsCounted, RefusedGone
    <2> QED
      BY <1>2, <2>1, <2>2, <2>3, OneCallInv
  <1> QED
    BY <1>3, <1>4

LEMMA RecheckStep ==
  ASSUME AuthInv, AuthTypeOK', NEW t \in Threads, Recheck(t)
  PROVE  AuthInv'
  <1>1. CallInv(t) /\ Typed(thread[t]) /\ AuthTypeOK
    BY CallTypes DEF AuthInv
  <1>2. UNCHANGED <<cell, clock, issuedAt, secret, lease, lateStores>>
    BY DEF Recheck, server, leaseVars
  <1>3. refresh = t /\ thread[t].at = "recheck"
    BY <1>1 DEF Recheck, CallInv, OwnsRefresh
  <1>4. CASE thread' = [thread EXCEPT ![t].at = "send", ![t].token = cell.token]
    <2> DEFINE call == [thread[t] EXCEPT !.at = "send", !.token = cell.token]
    <2>1. thread' = [thread EXCEPT ![t] = call] /\ thread'[t] = call
      BY <1>1, <1>4 DEF AuthTypeOK
    <2>2. /\ call.at = "send" /\ call.token = cell.token
          /\ call.refused = thread[t].refused /\ call.sends = thread[t].sends
          /\ call.attempt = thread[t].attempt /\ call.refreshed = thread[t].refreshed
      BY <1>1 DEF Typed, CallState
    <2> HIDE DEF call
    <2>3. CallInv(t)'
      BY <1>1, <1>2, <2>1, <2>2 DEF CallInv, OwnsRefresh, CellStale, ClockRead, TokenNew,
                                    SecretRead, SendsCounted, RefusedGone
    <2> QED
      BY <1>2, <1>3, <2>1, <2>2, <2>3, OneCallInv
  <1>5. CASE /\ ~Fresh(thread[t].now) /\ secret /\ UNCHANGED refresh
             /\ thread' = [thread EXCEPT ![t].at = "ask", ![t].tries = 1]
    <2> DEFINE call == [thread[t] EXCEPT !.at = "ask", !.tries = 1]
    <2>1. thread' = [thread EXCEPT ![t] = call] /\ thread'[t] = call
      BY <1>1, <1>5 DEF AuthTypeOK
    <2>2. /\ call.at = "ask" /\ call.token = thread[t].token /\ call.now = thread[t].now
          /\ call.refused = thread[t].refused /\ call.sends = thread[t].sends
          /\ call.attempt = thread[t].attempt /\ call.refreshed = thread[t].refreshed
      BY <1>1 DEF Typed, CallState
    <2> HIDE DEF call
    <2>3. CallInv(t)'
      BY <1>1, <1>2, <1>3, <1>5, <2>1, <2>2
      DEF CallInv, OwnsRefresh, CellStale, ClockRead, TokenNew, SecretRead, SendsCounted,
          RefusedGone, Fresh
    <2> QED
      BY <1>2, <1>3, <2>1, <2>2, <2>3, OneCallInv
  <1>6. CASE thread' = [thread EXCEPT ![t] = IdleThread]
    <2>1. thread'[t] = IdleThread
      BY <1>1, <1>6 DEF AuthTypeOK
    <2>2. /\ IdleThread.at = "idle" /\ IdleThread.token = None /\ IdleThread.refused = None
          /\ IdleThread.sends = 0 /\ IdleThread.attempt = 1 /\ IdleThread.refreshed = FALSE
      BY DEF IdleThread
    <2>3. SendsCounted(t)'
      <3>1. 0 <= 1 - 1 + 0
        OBVIOUS
      <3> QED
        BY <2>1, <2>2, <3>1 DEF SendsCounted
    <2>4. CallInv(t)'
      BY <2>1, <2>2, <2>3
      DEF CallInv, OwnsRefresh, CellStale, ClockRead, TokenNew, SecretRead, RefusedGone
    <2> QED
      BY <1>2, <1>3, <1>6, <2>2, <2>4, OneCallInv
  <1> QED
    BY <1>4, <1>5, <1>6 DEF Recheck, Return

LEMMA RefusedStep ==
  ASSUME AuthInv, AuthTypeOK', NEW t \in Threads, Refused(t)
  PROVE  AuthInv'
  <1> DEFINE call == [thread[t] EXCEPT !.at = "begin", !.refreshed = TRUE,
                                       !.refused = thread[t].token, !.sends = @ + 1]
  <1>1. CallInv(t) /\ Typed(thread[t]) /\ AuthTypeOK
    BY CallTypes DEF AuthInv
  <1>2. thread' = [thread EXCEPT ![t] = call] /\ thread'[t] = call
    BY <1>1 DEF Refused, AuthTypeOK
  <1>3. /\ call.at = "begin" /\ call.token = thread[t].token /\ call.refused = thread[t].token
        /\ call.sends = thread[t].sends + 1
        /\ call.attempt = thread[t].attempt /\ call.refreshed = TRUE
    BY <1>1 DEF Typed, CallState
  <1>4. /\ UNCHANGED <<refresh, clock, issuedAt, secret, lease, lateStores>>
        /\ cell' = Empty /\ thread[t].refreshed = FALSE
    BY <1>1, CallNumbers DEF Refused, server, leaseVars
  <1>5. call.sends <= call.attempt - 1 + 1
    <2>1. thread[t].sends <= thread[t].attempt - 1 + 0
      BY <1>1, <1>4 DEF CallInv, SendsCounted
    <2>2. thread[t].sends \in Nat /\ thread[t].attempt \in Nat
      BY <1>1, CallNumbers
    <2> HIDE DEF call
    <2> QED
      BY <1>3, <2>1, <2>2
  <1>6. thread[t].token \in 0..Len(issuedAt) /\ Len(issuedAt) \in Nat
    BY <1>1, StateNumbers DEF Typed
  <1> HIDE DEF call
  <1>7. SendsCounted(t)'
    BY <1>2, <1>3, <1>5 DEF SendsCounted
  <1>8. RefusedGone(t)'
    <2>1. thread[t].token # None => thread[t].token \in 1..Len(issuedAt)
      BY <1>6 DEF None
    <2> QED
      BY <1>2, <1>3, <1>4, <2>1 DEF RefusedGone, Empty
  <1>9. CallInv(t)'
    BY <1>2, <1>3, <1>7, <1>8
    DEF CallInv, OwnsRefresh, CellStale, ClockRead, TokenNew, SecretRead
  <1> QED
    BY <1>2, <1>3, <1>4, <1>9, OneCallInv

LEMMA SendAgainStep ==
  ASSUME AuthInv, AuthTypeOK', NEW t \in Threads, SendAgain(t)
  PROVE  AuthInv'
  <1> DEFINE call == [thread[t] EXCEPT !.at = "begin", !.attempt = @ + 1, !.sends = @ + 1]
  <1>1. CallInv(t) /\ Typed(thread[t]) /\ AuthTypeOK
    BY CallTypes DEF AuthInv
  <1>2. thread' = [thread EXCEPT ![t] = call] /\ thread'[t] = call
    BY <1>1 DEF SendAgain, AuthTypeOK
  <1>3. /\ call.at = "begin" /\ call.token = thread[t].token
        /\ call.refused = thread[t].refused
        /\ call.sends = thread[t].sends + 1
        /\ call.attempt = thread[t].attempt + 1 /\ call.refreshed = thread[t].refreshed
    BY <1>1 DEF Typed, CallState
  <1>4. UNCHANGED <<cell, refresh, clock, issuedAt, secret, lease, lateStores>>
    BY DEF SendAgain, server, leaseVars
  <1> HIDE DEF call
  <1>5. SendsCounted(t)'
    <2>1. thread[t].sends \in Nat /\ thread[t].attempt \in Nat
      BY <1>1, CallNumbers
    <2>2. /\ thread'[t].sends = thread[t].sends + 1
          /\ thread'[t].attempt = thread[t].attempt + 1
          /\ thread'[t].refreshed = thread[t].refreshed
      BY <1>2, <1>3
    <2>3. CASE thread[t].refreshed
      <3>1. thread[t].sends <= thread[t].attempt - 1 + 1
        BY <1>1, <2>3 DEF CallInv, SendsCounted
      <3>2. thread[t].sends + 1 <= thread[t].attempt + 1 - 1 + 1
        BY <2>1, <3>1
      <3> QED
        BY <2>1, <2>2, <2>3, <3>2 DEF SendsCounted
    <2>4. CASE ~thread[t].refreshed
      <3>1. thread[t].sends <= thread[t].attempt - 1 + 0
        BY <1>1, <2>4 DEF CallInv, SendsCounted
      <3>2. thread[t].sends + 1 <= thread[t].attempt + 1 - 1 + 0
        BY <2>1, <3>1
      <3> QED
        BY <2>1, <2>2, <2>4, <3>2 DEF SendsCounted
    <2> QED
      BY <2>3, <2>4
  <1>6. CallInv(t)'
    BY <1>1, <1>2, <1>3, <1>4, <1>5
    DEF CallInv, OwnsRefresh, CellStale, ClockRead, TokenNew, SecretRead, RefusedGone
  <1> QED
    BY <1>2, <1>3, <1>4, <1>6, OneCallInv

\* The new token is one that nobody has seen yet.
LEMMA TokenIssuedStep ==
  ASSUME AuthInv, AuthTypeOK', NEW t \in Threads, TokenIssued(t)
  PROVE  AuthInv'
  <1> DEFINE id == Len(issuedAt) + 1
             call == [thread[t] EXCEPT !.at = "store", !.token = id]
  <1>1. CallInv(t) /\ Typed(thread[t]) /\ AuthTypeOK /\ CellInv
    BY CallTypes DEF AuthInv
  <1>2. /\ thread' = [thread EXCEPT ![t] = call] /\ thread'[t] = call
        /\ \A u \in Threads : u # t => thread'[u] = thread[u]
    BY <1>1 DEF TokenIssued, AuthTypeOK
  <1>3. /\ call.at = "store" /\ call.token = id /\ call.now = thread[t].now
        /\ call.refused = thread[t].refused /\ call.sends = thread[t].sends
        /\ call.attempt = thread[t].attempt /\ call.refreshed = thread[t].refreshed
    BY <1>1 DEF Typed, CallState
  <1>4. /\ UNCHANGED <<cell, refresh, clock, secret, lease, lateStores>>
        /\ thread[t].at = "ask" /\ issuedAt' = Append(issuedAt, clock)
    BY DEF TokenIssued, leaseVars
  <1>5. /\ Len(issuedAt') = id /\ issuedAt'[id] = clock
        /\ \A i \in 1..Len(issuedAt) : issuedAt'[i] = issuedAt[i]
        /\ id \in Nat /\ Len(issuedAt) \in Nat /\ Len(issuedAt) < id
    BY <1>1, <1>4, StateNumbers
  <1> HIDE DEF call, id
  <1>6. cell.token # id /\ thread[t].now <= clock /\ refresh = t
    <2>1. cell.token \in 0..Len(issuedAt)
      BY <1>1, StateNumbers
    <2>2. cell.token # id
      BY <1>5, <2>1
    <2> QED
      BY <1>1, <1>4, <2>2 DEF CallInv, ClockRead, OwnsRefresh
  <1>7. \A u \in Threads :
          /\ thread[u].token \in 0..Len(issuedAt) /\ thread[u].token # id
          /\ thread[u].refused # id
    <2> TAKE u \in Threads
    <2>1. thread[u].token \in 0..Len(issuedAt)
      BY <1>1, CallTypes DEF Typed
    <2>2. thread[u].refused \in 1..Len(issuedAt) \/ thread[u].refused = 0
      BY DEF AuthInv, CallInv, RefusedGone, None
    <2> QED
      BY <1>5, <2>1, <2>2
  <1>8. CallInv(t)'
    <2>1. TokenNew(t)'
      <3>1. id \in 1..id
        BY <1>5
      <3> QED
        BY <1>2, <1>3, <1>4, <1>5, <1>6, <3>1 DEF TokenNew
    <2>2. RefusedGone(t)'
      <3>1. thread[t].refused \in 1..Len(issuedAt) => thread[t].refused \in 1..id
        BY <1>5
      <3> QED
        BY <1>1, <1>2, <1>3, <1>4, <1>5, <3>1 DEF CallInv, RefusedGone
    <2>3. CellStale(t)'
      BY <1>1, <1>2, <1>3, <1>4 DEF CallInv, CellStale, Fresh
    <2> QED
      BY <1>1, <1>2, <1>3, <1>4, <1>6, <2>1, <2>2, <2>3
      DEF CallInv, OwnsRefresh, ClockRead, SecretRead, SendsCounted
  <1>9. \A u \in Threads : CallInv(u)'
    <2> TAKE u \in Threads
    <2>1. CASE u # t
      <3>1. thread[u].at \in {"ask", "store"} => secret' \/ lateStores' = 0
        BY <1>4 DEF AuthInv, CallInv, SecretRead
      <3>2. /\ Len(issuedAt') \in Nat /\ Len(issuedAt) <= Len(issuedAt')
            /\ clock' \in Nat /\ clock <= clock'
        BY <1>1, <1>4, <1>5, StateNumbers
      <3> QED
        BY <1>2, <1>4, <1>5, <2>1, <3>1, <3>2, OtherCall
    <2> QED
      BY <1>8, <2>1
  <1>10. \A u, v \in Threads : PairInv(u, v)'
    <2> TAKE u, v \in Threads
    <2> SUFFICES ASSUME thread'[v].at = "store"
                 PROVE  /\ thread'[u].refused # thread'[v].token
                        /\ u # v => thread'[u].token # thread'[v].token
      BY DEF PairInv
    <2>1. v = t
      BY <1>2, <1>6 DEF AuthInv, CallInv, OwnsRefresh
    <2>2. thread'[u].refused = thread[u].refused /\ (u # t => thread'[u] = thread[u])
      BY <1>2, <1>3
    <2> QED
      BY <1>2, <1>3, <1>7, <2>1, <2>2
  <1>11. CellInv'
    BY <1>4, <1>5, CellKept
  <1> QED
    BY <1>9, <1>10, <1>11 DEF AuthInv

LEMMA StoreTokenStep ==
  ASSUME AuthInv, AuthTypeOK', NEW t \in Threads, StoreToken(t)
  PROVE  AuthInv'
  <1> DEFINE call == [thread[t] EXCEPT !.at = "send"]
  <1>1. CallInv(t) /\ Typed(thread[t]) /\ AuthTypeOK /\ CellInv
    BY CallTypes DEF AuthInv
  <1>2. /\ thread' = [thread EXCEPT ![t] = call] /\ thread'[t] = call
        /\ \A u \in Threads : u # t => thread'[u] = thread[u]
    BY <1>1 DEF StoreToken, AuthTypeOK
  <1>3. /\ call.at = "send" /\ call.token = thread[t].token
        /\ call.refused = thread[t].refused /\ call.sends = thread[t].sends
        /\ call.attempt = thread[t].attempt /\ call.refreshed = thread[t].refreshed
    BY <1>1 DEF Typed, CallState
  <1>4. /\ UNCHANGED <<clock, issuedAt, secret, lease>> /\ thread[t].at = "store"
        /\ cell'.token = thread[t].token /\ cell'.expires = thread[t].now + Ttl
        /\ lateStores' = IF secret THEN lateStores ELSE lateStores + 1
    BY DEF StoreToken, server, ExpiryOf
  <1> HIDE DEF call
  <1>5. /\ refresh = t /\ thread[t].now <= issuedAt[thread[t].token]
        /\ thread[t].token \in 1..Len(issuedAt)
        /\ secret \/ lateStores = 0
        /\ thread[t].refused # thread[t].token
    BY <1>1, <1>4 DEF AuthInv, CallInv, OwnsRefresh, TokenNew, SecretRead, PairInv
  <1>6. CallInv(t)'
    BY <1>1, <1>2, <1>3, <1>4, <1>5
    DEF CallInv, OwnsRefresh, CellStale, ClockRead, TokenNew, SecretRead, SendsCounted,
        RefusedGone
  <1>7. \A u \in Threads : CallInv(u)'
    <2> TAKE u \in Threads
    <2>1. CASE u # t
      <3>1. ~(thread[u].at \in {"ask", "store"})
        BY <1>5, <2>1 DEF AuthInv, CallInv, OwnsRefresh
      <3>2. /\ Len(issuedAt') \in Nat /\ Len(issuedAt) <= Len(issuedAt')
            /\ clock' \in Nat /\ clock <= clock'
            /\ \A i \in 1..Len(issuedAt) : issuedAt'[i] = issuedAt[i]
        BY <1>1, <1>4, StateNumbers
      <3> QED
        BY <1>2, <1>4, <1>5, <2>1, <3>1, <3>2, OtherCall
    <2> QED
      BY <1>6, <2>1
  <1>8. \A u, v \in Threads : PairInv(u, v)'
    BY <1>2, <1>3, PairsKept
  <1>9. CellInv'
    <2>1. thread[t].now + Ttl <= issuedAt[thread[t].token] + Ttl
      <3>1. /\ thread[t].now \in Nat /\ Ttl \in Nat
        BY <1>1, AuthAssumption, CallNumbers
      <3>2. issuedAt[thread[t].token] \in Nat
        BY <1>1, <1>5, StateNumbers
      <3> QED
        BY <1>5, <3>1, <3>2
    <2>2. ExpiryNotOverestimated'
      BY <1>4, <2>1 DEF ExpiryNotOverestimated
    <2>3. lateStores' <= 1 /\ (secret' => lateStores' = 0)
      BY <1>1, <1>4, <1>5 DEF CellInv
    <2> QED
      BY <1>1, <1>4, <2>2, <2>3 DEF CellInv
  <1> QED
    BY <1>7, <1>8, <1>9 DEF AuthInv

\* The steps of the event source, of the server and of time change no call.
LEMMA OutsideStep ==
  ASSUME AuthInv, AuthTypeOK', SourceNext \/ Revoke \/ Tick \/ UNCHANGED authVars
  PROVE  AuthInv'
  <1>1. AuthTypeOK /\ CellInv
    BY DEF AuthInv
  <1>2. UNCHANGED <<thread, refresh, issuedAt>>
    BY DEF SourceNext, StartSource, CloseInvalidates, LeaseInvalidates, LeaseClears,
           Revoke, Tick, authVars, server
  <1>3. cell' = cell \/ cell' = Empty
    BY DEF SourceNext, StartSource, CloseInvalidates, LeaseInvalidates, LeaseClears,
           Revoke, Tick, authVars
  <1>4. clock' \in Nat /\ clock <= clock'
    <2>1. clock' = clock \/ clock' = clock + 1
      BY DEF SourceNext, StartSource, CloseInvalidates, LeaseInvalidates, LeaseClears,
             Revoke, Tick, authVars, server
    <2> QED
      BY <1>1, <2>1, StateNumbers
  <1>5. \/ UNCHANGED <<secret, lease, lateStores>>
        \/ lease' = "held" /\ secret' = TRUE /\ lateStores' = 0
        \/ lease = "held" /\ lease' = "dropping" /\ UNCHANGED <<secret, lateStores>>
        \/ lease = "dropping" /\ lease' = "none" /\ secret' = FALSE /\ UNCHANGED lateStores
    BY DEF SourceNext, StartSource, CloseInvalidates, LeaseInvalidates, LeaseClears,
           Revoke, Tick, authVars, leaseVars
  <1>6. /\ lease' # "none" => secret'
        /\ secret' => lateStores' = 0
        /\ lateStores' <= 1
    BY <1>1, <1>5 DEF CellInv
  <1>7. \A u \in Threads : CallInv(u)'
    <2> TAKE u \in Threads
    <2>1. thread[u].at \in {"ask", "store"} => secret \/ lateStores = 0
      BY DEF AuthInv, CallInv, SecretRead
    <2>2. thread[u].at \in {"ask", "store"} => secret' \/ lateStores' = 0
      BY <1>1, <1>5, <2>1 DEF CellInv
    <2>3. Len(issuedAt') \in Nat /\ Len(issuedAt) <= Len(issuedAt')
      BY <1>1, <1>2, StateNumbers
    <2> QED
      BY <1>2, <1>3, <1>4, <2>2, <2>3, OtherCall
  <1>8. \A u, v \in Threads : PairInv(u, v)'
    BY <1>2 DEF AuthInv, PairInv
  <1>9. ExpiryNotOverestimated'
    <2>1. CASE cell' = cell
      BY <1>1, <1>2, <2>1 DEF CellInv, ExpiryNotOverestimated
    <2>2. CASE cell' = Empty
      BY <2>2 DEF ExpiryNotOverestimated, Empty
    <2> QED
      BY <1>3, <2>1, <2>2
  <1> QED
    BY <1>6, <1>7, <1>8, <1>9 DEF AuthInv, CellInv

LEMMA NextAuthInv == AuthInv /\ [AuthNext]_authVars => AuthInv'
  <1> SUFFICES ASSUME AuthInv, [AuthNext]_authVars PROVE AuthInv'
    OBVIOUS
  <1>1. AuthTypeOK'
    BY NextAuthTypeOK DEF AuthInv
  <1>2. ASSUME NEW t \in Threads, ThreadNext(t) PROVE AuthInv'
    BY <1>1, <1>2, StartCallStep, ReadClockStep, CheckCellStep, LockRefreshStep,
       RecheckStep, TokenIssuedStep, StoreTokenStep, RefusedStep, TokenAgainStep,
       SendAgainStep, ReturnStep
    DEF ThreadNext, CallStep, CallFault
  <1> QED
    BY <1>1, <1>2, OutsideStep DEF AuthNext

\* The calls, pairs of calls and the cell keep what they know of each other.
THEOREM AuthInvariant == AuthSpec => []AuthInv
  <1> QED
    BY InitAuthInv, NextAuthInv, PTL DEF AuthSpec

\* The refresh is a single flight: nobody asks for a token that the cell already has.
THEOREM SingleFlight == AuthSpec => []AskedOnlyWhenStale
  <1>1. AuthInv => AskedOnlyWhenStale
    BY DEF AuthInv, CallInv, CellStale, AskedOnlyWhenStale
  <1> QED
    BY <1>1, AuthInvariant, PTL

\* The cached expiry never lies beyond the server's.
THEOREM ExpiryCorrect == AuthSpec => []ExpiryNotOverestimated
  <1>1. AuthInv => ExpiryNotOverestimated
    BY DEF AuthInv, CellInv
  <1> QED
    BY <1>1, AuthInvariant, PTL

\* A call sends at most max_retry_attempts requests and one more after a 401.
THEOREM SendsAreBounded == AuthSpec => []SendsBounded
  <1>1. AuthInv => SendsBounded
    <2> SUFFICES ASSUME AuthInv, NEW t \in Threads
                 PROVE  thread[t].sends < MaxAttempts + 1
      BY DEF SendsBounded
    <2>1. AuthTypeOK /\ SendsCounted(t)
      BY DEF AuthInv, CallInv
    <2>2. thread[t].attempt \in 1..MaxAttempts
      BY <2>1, CallTypes DEF Typed
    <2>3. thread[t].sends \in Nat /\ thread[t].attempt \in Nat /\ MaxAttempts \in Nat
      BY <2>1, CallNumbers, StateNumbers
    <2>4. thread[t].sends <= thread[t].attempt - 1 + 1
      BY <2>1, <2>3 DEF SendsCounted
    <2> QED
      BY <2>2, <2>3, <2>4
  <1> QED
    BY <1>1, AuthInvariant, PTL

\* The request repeated after a 401 goes out with another token, whoever refreshed it.
THEOREM RetryDiffers == AuthSpec => []RetryUsesAnotherToken
  <1>1. AuthInv => RetryUsesAnotherToken
    BY DEF AuthInv, CallInv, RefusedGone, RetryUsesAnotherToken
  <1> QED
    BY <1>1, AuthInvariant, PTL

\* At most one token enters the cell after the secret has been cleared.
THEOREM LateStoreBounded == AuthSpec => []LateStoreAtMostOnce
  <1>1. AuthInv => LateStoreAtMostOnce
    BY DEF AuthInv, CellInv, LateStoreAtMostOnce
  <1> QED
    BY <1>1, AuthInvariant, PTL
=============================================================================
