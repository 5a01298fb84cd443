--------------------------- MODULE QqGatewayPump ---------------------------
(***************************************************************************)
(* The QQ Gateway pump of mutsuki-plugin-bot-adapter-qqbot                 *)
(* (src/gateway/connection.rs): the state machine that turns Gateway       *)
(* frames into transport actions and Core tasks.  It remembers the resume  *)
(* point (session id, resume URL, last sequence) and a sliding window of   *)
(* dedup keys, so that a frame the Gateway sends twice makes one task.     *)
(*                                                                         *)
(* A frame keeps what the pump looks at: its opcode, sequence number,      *)
(* event type, the id the dedup key is made of, and, for READY, the        *)
(* session id and whether a resume URL came with it.  Sequence numbers,    *)
(* ids and session ids are positive integers; 0 stands for Option::None.   *)
(***************************************************************************)
EXTENDS Integers, Sequences, SequencesExt

CONSTANTS
  Window,      \* dedup_window, at least 1 after with_account's max(1)
  Ids,         \* the ids a frame may carry, in d.id or in id
  SeqNumbers,   \* the sequence numbers a frame may carry
  Sessions,    \* the session ids READY may name
  MaxTasks     \* bound on the tasks of one behaviour of PumpSpec

ASSUME WindowAssumption == Window \in Nat \ {0}
ASSUME FramesAssumption ==
  /\ Ids \subseteq Nat \ {0}
  /\ SeqNumbers \subseteq Nat \ {0}
  /\ Sessions \subseteq Nat \ {0}
  /\ MaxTasks \in Nat

VARIABLES
  lastSequence,  \* last_sequence: Option<u64>
  sessionId,     \* session_id: Option<String>
  resumeUrl,     \* resume_url.is_some()
  seen,          \* seen_dedup_keys: BTreeSet<String>
  order,         \* dedup_order: VecDeque<String>
  actions,       \* actions: VecDeque<GatewayAction>
  task,          \* the dedup key of the Task handle_frame returned, until the
                 \* caller has submitted it or forgotten it
  accepted       \* history: the keys of the tasks Core accepted, oldest first

resumePoint == <<lastSequence, sessionId, resumeUrl>>
window == <<seen, order>>
pumpVars == <<lastSequence, sessionId, resumeUrl, seen, order, actions, task, accepted>>

None == 0

Opcodes == {"dispatch", "heartbeat", "reconnect", "invalid", "hello", "ack", "other"}

\* READY and RESUMED are control events that are tasks as well; EVENT stands
\* for every other known type, UNKNOWN for every type the match does not list.
EventTypes == {"READY", "RESUMED", "EVENT", "UNKNOWN"}

Actions == {"Identify", "Resume", "Heartbeat", "Reconnect", "DispatchTask",
            "AckHeartbeat", "UnknownOpcode", "UnknownEvent"}

Dispatch(t, s, id, session, url) ==
  [op |-> "dispatch", t |-> t, s |-> s, id |-> id, session |-> session, url |-> url,
   resumable |-> FALSE]

\* A frame that is not a dispatch; resumable is the boolean d of opcode 9.
Control(op, resumable) ==
  [op |-> op, t |-> "UNKNOWN", s |-> None, id |-> None, session |-> None, url |-> FALSE,
   resumable |-> resumable]

FrameFields ==
  [op : Opcodes, t : EventTypes, s : SeqNumbers \cup {None}, id : Ids \cup {None},
   session : Sessions \cup {None}, url : BOOLEAN, resumable : BOOLEAN]

Frames ==
  {f \in FrameFields :
     \/ f = Dispatch("READY", f.s, f.id, f.session, f.url)
     \/ f.t # "READY" /\ f = Dispatch(f.t, f.s, f.id, None, FALSE)
     \/ f.op # "dispatch" /\ f = Control(f.op, f.resumable)}

Key(f) ==
  IF f.id # None THEN <<"id", f.id>>
  ELSE IF f.s # None THEN <<"seq", f.s>>
  ELSE <<"op", None>>

Keys == ({"id", "seq", "op"} \X Nat)
NoTask == <<"none", None>>

PushTwice(a) == actions' = actions \o <<a, a>>
Push(a) == actions' = Append(actions, a)

KnownSequence(f) == IF f.s # None THEN f.s ELSE lastSequence

-----------------------------------------------------------------------------
(* The session and the dedup window.  A definition named after a slip, such *)
(* as RememberNothing, is a mutant of the one that follows it and no       *)
(* part of the model.                                                      *)


\* clear_session keeps the dedup window.
ClearSession ==
  /\ sessionId' = None
  /\ resumeUrl' = FALSE
  /\ lastSequence' = None

RememberNothing(k) == UNCHANGED window
RememberOneLess(k) ==
  LET pushed == Append(order, k)
      full == Len(order) >= Window - 1
  IN /\ order' = IF full THEN Tail(pushed) ELSE pushed
     /\ seen' = IF full THEN (seen \cup {k}) \ {Head(pushed)} ELSE seen \cup {k}

\* remember_dedup_key, for a key that is not in the window: one push makes the
\* eviction loop run at most once, for the oldest key.
RememberDedupKey(k) ==
  LET pushed == Append(order, k)
      full == Len(order) >= Window
  IN /\ order' = IF full THEN Tail(pushed) ELSE pushed
     /\ seen' = IF full THEN (seen \cup {k}) \ {Head(pushed)} ELSE seen \cup {k}

\* The queue holds a key once (WindowConsistent): the first match is the match.
Position(k) == CHOOSE i \in 1..Len(order) : order[i] = k

ForgetDispatch(k) ==
  IF k \in seen
  THEN /\ seen' = seen \ {k}
       /\ order' = IF \E i \in 1..Len(order) : order[i] = k
                   THEN RemoveAt(order, Position(k)) ELSE order
  ELSE UNCHANGED window

-----------------------------------------------------------------------------
(* handle_frame: the sequence number is taken before the opcode is looked  *)
(* at, then one disjunct per opcode.                                       *)
HandleDispatch(f) ==
  /\ f.op = "dispatch"
  /\ lastSequence' = KnownSequence(f)
  /\ sessionId' = IF f.t = "READY" THEN f.session ELSE sessionId
  /\ resumeUrl' = IF f.t = "READY" THEN f.url ELSE resumeUrl
  /\ \/ /\ f.t = "UNKNOWN"
        /\ Push("UnknownEvent")
        /\ task' = NoTask
        /\ UNCHANGED window
     \/ /\ f.t # "UNKNOWN"
        /\ Key(f) \in seen
        /\ task' = NoTask
        /\ UNCHANGED <<seen, order, actions>>
     \/ /\ f.t # "UNKNOWN"
        /\ Key(f) \notin seen
        /\ RememberDedupKey(Key(f))
        /\ Push("DispatchTask")
        /\ task' = Key(f)

ResumeWithoutSession(f) ==
  /\ f.op = "invalid"
  /\ Push(IF f.resumable THEN "Resume" ELSE "Identify")
  /\ IF f.resumable THEN UNCHANGED resumePoint ELSE ClearSession
StaySilentOnInvalid(f) ==
  /\ f.op = "invalid"
  /\ IF f.resumable THEN UNCHANGED resumePoint ELSE ClearSession
  /\ UNCHANGED actions
HandleInvalidSession(f) ==
  /\ f.op = "invalid"
  /\ \/ /\ f.resumable /\ sessionId # None
        /\ Push("Resume")
        /\ lastSequence' = KnownSequence(f)
        /\ UNCHANGED <<sessionId, resumeUrl>>
     \/ /\ ~(f.resumable /\ sessionId # None)
        /\ ClearSession
        /\ Push("Identify")

HandleHello(f) ==
  /\ f.op = "hello"
  /\ lastSequence' = KnownSequence(f)
  /\ Push(IF sessionId # None THEN "Resume" ELSE "Identify")
  /\ UNCHANGED <<sessionId, resumeUrl>>

\* The opcodes that only queue an action.
SimpleAction(op) ==
  CASE op = "reconnect" -> "Reconnect"
    [] op = "ack" -> "AckHeartbeat"
    [] op = "heartbeat" -> "Heartbeat"
    [] op = "other" -> "UnknownOpcode"

HandleSimple(f) ==
  /\ f.op \in {"reconnect", "ack", "heartbeat", "other"}
  /\ lastSequence' = KnownSequence(f)
  /\ Push(SimpleAction(f.op))
  /\ UNCHANGED <<sessionId, resumeUrl>>

HandleFrame(f) ==
  /\ \/ HandleDispatch(f)
     \/ /\ \/ HandleInvalidSession(f)
           \/ HandleHello(f)
           \/ HandleSimple(f)
        /\ task' = NoTask
        /\ UNCHANGED window
  /\ UNCHANGED accepted

PopAction ==
  /\ actions # <<>>
  /\ actions' = Tail(actions)

\* The caller hands the returned task to Core, which takes it ...
Accept ==
  /\ task # NoTask
  /\ accepted' = Append(accepted, task)
  /\ task' = NoTask
  /\ UNCHANGED <<resumePoint, window, actions>>

\* ... or rejects it, and the caller gives the reservation back.
Reject ==
  /\ task # NoTask
  /\ ForgetDispatch(task)
  /\ task' = NoTask
  /\ UNCHANGED <<resumePoint, actions, accepted>>

-----------------------------------------------------------------------------
(* The pump on its own, driven the way run_connection drives it: a frame   *)
(* is handled when the previous one is settled, in any order and of any    *)
(* content.                                                                *)
PumpInit ==
  /\ lastSequence = None
  /\ sessionId = None
  /\ resumeUrl = FALSE
  /\ seen = {}
  /\ order = <<>>
  /\ actions = <<>>
  /\ task = NoTask
  /\ accepted = <<>>

Receive ==
  /\ task = NoTask
  /\ actions = <<>>
  /\ Len(accepted) < MaxTasks
  /\ \E f \in Frames : HandleFrame(f)

Pop == PopAction /\ UNCHANGED <<resumePoint, window, task, accepted>>

Settle == actions = <<>> /\ (Accept \/ Reject)

PumpNext == Receive \/ Pop \/ Settle

PumpSpec == PumpInit /\ [][PumpNext]_pumpVars

-----------------------------------------------------------------------------
(* Properties.                                                             *)

\* Type invariant: what each field of QqGatewayPump holds.
PumpTypeOK ==
  /\ lastSequence \in Nat
  /\ sessionId \in Nat
  /\ resumeUrl \in BOOLEAN
  /\ seen \subseteq Keys
  /\ order \in Seq(Keys)
  /\ actions \in Seq(Actions)
  /\ task \in Keys \cup {NoTask}
  /\ accepted \in Seq(Keys)

\* The set and the queue that make up the dedup window never drift apart, and
\* the window stays within dedup_window: a key left in one of the two by
\* remember_dedup_key or forget_dispatch would suppress an event for ever, or be
\* evicted early by a stale queue entry.
WindowConsistent ==
  /\ seen = ToSet(order)
  /\ \A i, j \in 1..Len(order) : order[i] = order[j] => i = j
  /\ Len(order) <= Window

\* Equal entries of h are at least Window apart.
Spaced(h) ==
  \A i, j \in 1..Len(h) : i < j /\ h[i] = h[j] => j - i >= Window

\* What deduplication promises to Core: between two tasks of one dedup key there
\* are at least Window - 1 others.  The bound is tight: a rejected task may have
\* evicted the oldest key, and forget_dispatch does not bring that one back.
NoRepeatWithinWindow == Spaced(accepted)

\* resume_frame never fails with missing_session_id: a queued Resume still has
\* its session when it is popped.
ResumeHasSession == "Resume" \in ToSet(actions) => sessionId # None

\* The tasks handed over so far, the one not yet settled included.
handed == IF task = NoTask THEN accepted ELSE Append(accepted, task)

\* How far back the queue reaches at least: one task less once the last is settled.
reach == IF task = NoTask THEN Window - 1 ELSE Window

\* o is the end of h, at most Window long and, where h is long enough, at least w.
Recent(o, h, w) ==
  /\ Len(o) <= Len(h)
  /\ Len(o) <= Window
  /\ \A i \in 1..Len(o) : o[i] = h[Len(h) - Len(o) + i]
  /\ Len(o) >= w \/ Len(o) = Len(h)

\* The inductive form of NoRepeatWithinWindow: the dedup queue is the recent past
\* of the tasks handed over, in their order, and the set holds the same keys.
WindowIsRecentPast ==
  /\ Recent(order, handed, reach)
  /\ seen = ToSet(order)
  /\ Spaced(handed)
=============================================================================
