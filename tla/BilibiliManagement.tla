------------------------- MODULE BilibiliManagement -------------------------
(***************************************************************************)
(* Management of the Bilibili plugin with the web_cookie backend           *)
(* (plugin-bot-bilibili/src/management.rs): QR login, the cookie, the      *)
(* subscriptions and the binding of an operator to an account, called from *)
(* chat commands, one at a time, and from the web console, concurrently.   *)
(*                                                                         *)
(* A request holds no lock between its steps: it reads, calls Bilibili,    *)
(* writes the product file or the Host secret, then the copy in memory.    *)
(* A call to Bilibili is one step, for the mutex of the transport admits   *)
(* one at a time and nothing else is read while it lasts.  The wording of  *)
(* answers, QR images, targets and notification kinds are left out, and so *)
(* are status, list and preview, which change nothing.  A definition named *)
(* after a slip, such as AnyAccount, is a mutant of the one after it.    *)
(***************************************************************************)
EXTENDS Naturals, FiniteSets

CONSTANTS
  Slots,      \* requests that can be under way at once
  Chats,      \* those that carry the commands of a chat; the others are web RPCs
  Writers,    \* web callers with runtime.write; the others have runtime.read
  Operators,  \* users who can bind themselves
  Admins,     \* admin_user_ids
  Uids,       \* Bilibili accounts
  AdminIds,   \* subscription ids administrators use
  MaxRequests, MaxFaults, MaxSigns, MaxRestarts   \* bounds

Nobody == "nobody"   \* the owner of a subscription without owner_user_id

ASSUME ManagementAssumption ==
  /\ Nobody \notin Operators
  /\ Chats \subseteq Slots /\ Writers \subseteq Slots \ Chats /\ Admins \subseteq Operators
  /\ {MaxRequests, MaxFaults, MaxSigns, MaxRestarts} \subseteq Nat

VARIABLES
  live, disk,          \* SharedBilibiliConfig and the product file: subscriptions
  credential, secret,  \* SharedBilibiliCredential and the Host secret; 0 is none
  qrSession, challenge,   \* tables of the repository
  call,                \* what each request is at
  source,              \* the polling event source, which loads the credential
  bilibili,            \* keys issued and confirmed, signatures of the accounts
  bounds,
  proven,              \* history: codes that stood in the signature of their account
  paused,              \* history: ids whose pause was acknowledged and not revoked
  stale, overlapped    \* history: a write from an outdated copy; racing publications

stores == <<live, disk, credential, secret>>
tables == <<qrSession, challenge>>
history == <<proven, paused, stale, overlapped>>
managementVars == <<stores, tables, call, source, bilibili, bounds, history>>

NoCode == <<>>
Idle == [at |-> "idle"]
Holding == {"profile", "disk"}         \* stages of a request that hold a copy
Publishing == {"publish", "republish"} \* stages between the secret and its reader

Platform(s) == IF s \in Chats THEN "chat" ELSE "web"
SelfId(s, o) == <<Platform(s), o>>
Ids == AdminIds \cup ({"chat", "web"} \X Operators)
\* The seed is the task id in chat, and the same for every request of the web.
Code(s, o, u) == <<o, u, IF s \in Chats THEN bounds.requests ELSE 0>>

Entry(id, u, o) == [id |-> id, uid |-> u, owner |-> o, paused |-> FALSE]

-----------------------------------------------------------------------------
(* The subscriptions of a configuration.                                   *)

UniqueIds(S) == \A x, y \in S : x.id = y.id => x = y
OthersThan(S, o) == {x \in S : x.owner # o}
WithoutOwner(S, o) == OthersThan(S, o)
WithoutId(S, id) == {x \in S : x.id # id}
Visible(S, o, admin) == {x \in S : admin \/ x.owner = o}
\* select_subscription names one without a selector, by its id or by its uid.
Selects(S, x) == x \in S /\ \/ S = {x}
                            \/ {y \in S : y.id = x.id} = {x}
                            \/ {y \in S : y.uid = x.uid} = {x}

\* run_command has the commands of administrators and of everybody.
AdminCommands == {"login", "login-status", "subscribe", "unsubscribe"}
UserCommands == {"bind", "verify", "unbind", "pause"}
CommandCallers(operation) ==
  {<<o, o \in Admins>> : o \in IF operation \in AdminCommands THEN Admins
                               ELSE IF operation \in UserCommands THEN Operators ELSE {}}

\* A web RPC says whom it is for and whether that is an administrator.
RpcCallers(s, operation) == IF s \in Writers \/ operation = "login-status"
                            THEN Operators \X {TRUE, FALSE} ELSE {}

Callers(s, operation) == IF s \in Chats THEN CommandCallers(operation)
                         ELSE RpcCallers(s, operation)

-----------------------------------------------------------------------------
ManagementInit ==
  /\ live = {} /\ disk = {} /\ credential = 0 /\ secret = 0
  /\ qrSession = [p \in {"chat", "web"} |-> 0]
  /\ challenge = [o \in Operators |-> NoCode]
  /\ call = [s \in Slots |-> Idle]
  /\ source = [at |-> "stopped", read |-> 0]
  /\ bilibili = [issued |-> 0, confirmed |-> {}, sign |-> [u \in Uids |-> NoCode]]
  /\ bounds = [requests |-> 0, faults |-> 0, signs |-> 0, restarts |-> 0]
  /\ proven = {} /\ paused = {} /\ stale = FALSE /\ overlapped = FALSE

At(s, stage) == call[s].at = stage
Goto(s, record) == call' = [call EXCEPT ![s] = record]
Begins(s, operation) ==
  /\ At(s, "idle") /\ Callers(s, operation) # {}
  /\ bounds.requests < MaxRequests
  /\ bounds' = [bounds EXCEPT !.requests = @ + 1]

-----------------------------------------------------------------------------
(* Login: the QR session, the Host secret and the credential.              *)

LoginStart(s) ==
  /\ Begins(s, "login")
  /\ bilibili' = [bilibili EXCEPT !.issued = @ + 1]
  /\ Goto(s, [at |-> "session", key |-> bilibili.issued + 1])
  /\ UNCHANGED <<stores, tables, source, history>>

StoreSession(s) ==
  /\ At(s, "session")
  /\ qrSession' = [qrSession EXCEPT ![Platform(s)] = call[s].key]
  /\ Goto(s, Idle)
  /\ UNCHANGED <<stores, challenge, source, bilibili, bounds, history>>

LoginPoll(s) ==
  /\ Begins(s, "login-status")
  /\ qrSession[Platform(s)] # 0
  /\ Goto(s, [at |-> "qr", key |-> qrSession[Platform(s)]])
  /\ UNCHANGED <<stores, tables, source, bilibili, history>>

\* A key is confirmed once; after that, or when it gets old, it has expired.
QrPending(s) == /\ At(s, "qr") /\ call[s].key \notin bilibili.confirmed
                /\ Goto(s, Idle)
                /\ UNCHANGED <<stores, tables, source, bilibili, bounds, history>>
QrExpired(s) == /\ At(s, "qr")
                /\ Goto(s, [at |-> "forget"])
                /\ UNCHANGED <<stores, tables, source, bilibili, bounds, history>>
QrConfirmed(s) ==
  /\ At(s, "qr") /\ call[s].key \notin bilibili.confirmed
  /\ bilibili' = [bilibili EXCEPT !.confirmed = @ \cup {call[s].key}]
  /\ Goto(s, [at |-> "rotate", value |-> call[s].key])
  /\ UNCHANGED <<stores, tables, source, bounds, history>>

CredentialClear(s) ==
  /\ Begins(s, "credential.clear")
  /\ Goto(s, [at |-> "rotate", value |-> 0])
  /\ UNCHANGED <<stores, tables, source, bilibili, history>>

\* The secret, then the reader twice: by the store and by the service.
Rotate(s) ==
  /\ At(s, "rotate")
  /\ secret' = call[s].value
  /\ Goto(s, [call[s] EXCEPT !.at = "publish"])
  /\ overlapped' = (overlapped \/ source.at = "loading"
                               \/ \E t \in Slots \ {s} : call[t].at \in Publishing)
  /\ UNCHANGED <<live, disk, credential, tables, source, bilibili, bounds, proven, paused, stale>>

ForgetPublishing(s) ==
  /\ call[s].at \in Publishing
  /\ Goto(s, IF At(s, "publish") THEN [call[s] EXCEPT !.at = "republish"]
             ELSE IF call[s].value = 0 THEN Idle ELSE [at |-> "forget"])
  /\ UNCHANGED <<stores, tables, source, bilibili, bounds, history>>
Publish(s) ==
  /\ call[s].at \in Publishing
  /\ credential' = call[s].value
  /\ Goto(s, IF At(s, "publish") THEN [call[s] EXCEPT !.at = "republish"]
             ELSE IF call[s].value = 0 THEN Idle ELSE [at |-> "forget"])
  /\ UNCHANGED <<live, disk, secret, tables, source, bilibili, bounds, history>>

ForgetSession(s) ==
  /\ At(s, "forget")
  /\ qrSession' = [qrSession EXCEPT ![Platform(s)] = 0]
  /\ Goto(s, Idle)
  /\ UNCHANGED <<stores, challenge, source, bilibili, bounds, history>>

-----------------------------------------------------------------------------
(* Changes of the configuration: a copy, the product file, the memory.     *)

InFlight(t) == call[t].at \in Holding \cup {"live"}

\* The request of s takes a copy that names the ids of about.  It is outdated
\* from the start while another change is on disk only.  What other requests
\* will have acknowledged of these ids no longer stands.
Take(s, stage, next, pauses, about, owner) ==
  /\ call' = [t \in Slots |->
       IF t = s
       THEN [at |-> stage, copy |-> next, owner |-> owner, about |-> about,
             pauses |-> {id \in pauses : \A r \in Slots \ {s} : InFlight(r) => id \notin call[r].about},
             outdated |-> \E r \in Slots : At(r, "live"),
             code |-> IF owner = Nobody THEN NoCode ELSE challenge[owner]]
       ELSE IF InFlight(t) THEN [call[t] EXCEPT !.pauses = @ \ about] ELSE call[t]]
  /\ paused' = paused \ (about \ pauses)

\* persist refuses what validate refuses; ids are all that can be wrong here.
Change(s, operation, next, pauses, about) ==
  /\ Begins(s, operation)
  /\ IF UniqueIds(next) THEN Take(s, "disk", next, pauses, about, Nobody)
     ELSE UNCHANGED <<call, paused>>
  /\ UNCHANGED <<stores, tables, source, bilibili, proven, stale, overlapped>>

IdsOf(S) == {x.id : x \in S}

Subscribe(s) ==
  \E id \in AdminIds, u \in Uids :
       Change(s, "subscribe", WithoutId(live, id) \cup {Entry(id, u, Nobody)}, {}, {id})

Unsubscribe(s) ==
  \E x \in live : Change(s, "unsubscribe", WithoutId(live, x.id), {}, {x.id})

SetPaused(s) ==
  \E c \in Callers(s, "pause"), x \in live, value \in BOOLEAN :
    /\ Selects(Visible(live, c[1], c[2]), x)
    /\ Change(s, "pause", (live \ {x}) \cup {[x EXCEPT !.paused = value]},
              {id \in {x.id} : value}, {x.id})

Unbind(s) ==
  \E o \in Operators :
    /\ \E x \in live : x.owner = o
    /\ Change(s, "unbind", WithoutOwner(live, o), {}, IdsOf(live \ WithoutOwner(live, o)))

WriteDisk(s) ==
  /\ At(s, "disk")
  /\ disk' = call[s].copy
  /\ stale' = (stale \/ call[s].outdated)
  /\ overlapped' = (overlapped \/ \E t \in Slots \ {s} : At(t, "live"))
  /\ call' = [t \in Slots |->
       IF t = s THEN [call[s] EXCEPT !.at = "live"]
       ELSE IF call[t].at \in Holding THEN [call[t] EXCEPT !.outdated = TRUE] ELSE call[t]]
  /\ UNCHANGED <<live, credential, secret, tables, source, bilibili, bounds, proven, paused>>

DiskOnly(s) ==
  /\ At(s, "live")
  /\ paused' = paused \cup call[s].pauses
  /\ Goto(s, IF call[s].owner = Nobody THEN Idle ELSE [at |-> "verified", owner |-> call[s].owner])
  /\ UNCHANGED <<stores, tables, source, bilibili, bounds, proven, stale, overlapped>>
WriteLive(s) ==
  /\ At(s, "live")
  /\ live' = call[s].copy
  /\ paused' = paused \cup call[s].pauses
  /\ Goto(s, IF call[s].owner = Nobody THEN Idle ELSE [at |-> "verified", owner |-> call[s].owner])
  /\ UNCHANGED <<disk, credential, secret, tables, source, bilibili, bounds, proven, stale,
                 overlapped>>

-----------------------------------------------------------------------------
(* Binding an operator to an account.                                      *)

BindStart(s) ==
  /\ Begins(s, "bind")
  /\ \E o \in Operators, u \in Uids :
       Goto(s, [at |-> "challenge", owner |-> o, code |-> Code(s, o, u)])
  /\ UNCHANGED <<stores, tables, source, bilibili, history>>

StoreChallenge(s) ==
  /\ At(s, "challenge")
  /\ challenge' = [challenge EXCEPT ![call[s].owner] = call[s].code]
  /\ Goto(s, Idle)
  /\ UNCHANGED <<stores, qrSession, source, bilibili, bounds, history>>

BindVerify(s) ==
  /\ Begins(s, "verify")
  /\ \E o \in Operators :
       /\ challenge[o] # NoCode
       /\ Take(s, "profile", live, {}, {SelfId(s, o)} \cup IdsOf(live \ OthersThan(live, o)), o)
  /\ UNCHANGED <<stores, tables, source, bilibili, proven, stale, overlapped>>

AnyAccount(code) == \E u \in Uids : bilibili.sign[u] = code
SignatureMatches(code) == bilibili.sign[code[2]] = code

Verify(s) ==
  /\ At(s, "profile")
  /\ SignatureMatches(call[s].code)
  /\ LET o == call[s].owner
         next == WithoutOwner(call[s].copy, o) \cup {Entry(SelfId(s, o), call[s].code[2], o)}
     IN Goto(s, IF UniqueIds(next) THEN [call[s] EXCEPT !.at = "disk", !.copy = next] ELSE Idle)
  /\ UNCHANGED <<stores, tables, source, bilibili, bounds, history>>

Mismatch(s) ==
  /\ At(s, "profile")
  /\ ~SignatureMatches(call[s].code)
  /\ Goto(s, Idle)
  /\ UNCHANGED <<stores, tables, source, bilibili, bounds, history>>

\* Whatever challenge the operator has by now.
ClearChallenge(s) ==
  /\ At(s, "verified")
  /\ challenge' = [challenge EXCEPT ![call[s].owner] = NoCode]
  /\ Goto(s, Idle)
  /\ UNCHANGED <<stores, qrSession, source, bilibili, bounds, history>>

\* The holder of an account puts a code that was shown into its signature.
Sign(u) ==
  /\ bounds.signs < MaxSigns
  /\ \E o \in Operators :
       /\ challenge[o] # NoCode
       /\ bilibili.sign[u] # challenge[o]
       /\ bilibili' = [bilibili EXCEPT !.sign[u] = challenge[o]]
       /\ proven' = proven \cup {<<u, challenge[o]>>}
  /\ bounds' = [bounds EXCEPT !.signs = @ + 1]
  /\ UNCHANGED <<stores, tables, call, source, paused, stale, overlapped>>

-----------------------------------------------------------------------------
(* Failures, the event source and the process.                             *)

\* A call to Bilibili, the secret store, the product file or SQLite fails.
Fail(s) ==
  /\ call[s].at \notin {"idle", "live"} \cup Publishing
  /\ bounds.faults < MaxFaults
  /\ bounds' = [bounds EXCEPT !.faults = @ + 1]
  /\ Goto(s, Idle)
  /\ UNCHANGED <<stores, tables, source, bilibili, history>>

SourceReads ==
  /\ source.at = "stopped"
  /\ source' = [at |-> "loading", read |-> secret]
  /\ UNCHANGED <<stores, tables, call, bilibili, bounds, history>>

SourceLoads ==
  /\ source.at = "loading"
  /\ credential' = source.read
  /\ source' = [at |-> "running", read |-> 0]
  /\ UNCHANGED <<live, disk, secret, tables, call, bilibili, bounds, history>>

Restarts == /\ bounds.restarts < MaxRestarts
            /\ bounds' = [bounds EXCEPT !.restarts = @ + 1]
            /\ source' = [at |-> "stopped", read |-> 0]

SourceStops ==
  /\ source.at = "running" /\ Restarts
  /\ credential' = 0
  /\ UNCHANGED <<live, disk, secret, tables, call, bilibili, history>>

\* The process starts again from the product file, the secret and SQLite.
Crash ==
  /\ Restarts
  /\ live' = disk /\ credential' = 0
  /\ call' = [s \in Slots |-> Idle]
  /\ overlapped' = FALSE
  /\ UNCHANGED <<disk, secret, tables, bilibili, proven, paused, stale>>

LoginStep(s) == \/ LoginStart(s) \/ StoreSession(s) \/ LoginPoll(s) \/ QrPending(s)
                \/ QrExpired(s) \/ QrConfirmed(s) \/ CredentialClear(s) \/ Rotate(s)
                \/ Publish(s) \/ ForgetSession(s)
ChangeStep(s) == \/ Subscribe(s) \/ Unsubscribe(s) \/ SetPaused(s) \/ Unbind(s)
                 \/ WriteDisk(s) \/ WriteLive(s)
BindStep(s) == \/ BindStart(s) \/ StoreChallenge(s) \/ BindVerify(s) \/ Verify(s)
               \/ Mismatch(s) \/ ClearChallenge(s)

ManagementNext ==
  \/ \E s \in Slots : LoginStep(s) \/ ChangeStep(s) \/ BindStep(s) \/ Fail(s)
  \/ \E u \in Uids : Sign(u)
  \/ SourceReads \/ SourceLoads \/ SourceStops \/ Crash

ManagementSpec == ManagementInit /\ [][ManagementNext]_managementVars

-----------------------------------------------------------------------------

\* What may stand in the owner's name in a configuration.
Sound(S) ==
  /\ \A x \in S : x.owner # Nobody =>
       \E p \in proven : p[1] = x.uid /\ p[2][1] = x.owner /\ p[2][2] = x.uid
  /\ \A x, y \in S : x.owner = y.owner /\ x.owner # Nobody => x = y

\* A subscription stands in an operator's name only if the account once carried
\* a code given to that operator for that account, and an operator has at most
\* one: in memory, in the product file and whatever requests overlap, copies
\* are outdated and challenges replaced while a profile is fetched (bind_verify).
OnlyProvenBindings == Sound(live) /\ Sound(disk)

AtRest == \A s \in Slots : call[s] = Idle

\* With no request under way, the configuration in memory is the one of the
\* product file, and the running source's credential the Host secret, unless
\* two requests, or a request and the start of the source, published at the
\* same time (persist, login_poll, credential_clear, the source's load).
StoresAgree ==
  AtRest /\ ~overlapped => live = disk /\ (source.at = "running" => credential = secret)

\* A subscription somebody has paused is paused in the product file until
\* somebody resumes, replaces or removes it ("persist the operational state in
\* owner config").
PauseKept == \A x \in disk : x.id \in paused => x.paused

\* An acknowledged pause is undone only by a request that wrote back a copy
\* older than the product file (set_paused, bind_verify, persist).
PauseLostOnlyByStaleCopy == stale \/ PauseKept
=============================================================================
