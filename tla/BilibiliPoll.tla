---------------------------- MODULE BilibiliPoll ----------------------------
(***************************************************************************)
(* Polling Bilibili: the event source that schedules the polls             *)
(* (service-host-integration/src/bilibili.rs), the runner that executes    *)
(* them and its durable cursors (plugin-bot-bilibili/src/lib.rs), and the  *)
(* space of one author.                                                    *)
(*                                                                         *)
(* The event source can be stopped and started again while the tasks it    *)
(* had submitted go on in the Core (event_source_restart), and the process *)
(* can die.  A dynamic poll with the Chromium fallback fetches and finishes *)
(* under two separate locks of the runner; every other poll is one call.   *)
(* In both, the cursor is stored before the announcements are built.       *)
(* Posts are numbered in order of publication.  Time, the retry delays, the *)
(* health report and the credential are left out: a poll may fail at any   *)
(* time.  A definition named after a slip, such as NewestOnly, is a        *)
(* mutant of the one that follows it and no part of the model.             *)
(***************************************************************************)
EXTENDS Integers, Sequences, SequencesExt, FiniteSets

CONSTANTS
  Keys,       \* the pairs (subscription, kind of notification) that are polled
  PageSize,   \* posts on the first page of a space
  MaxPosts, MaxDeletes, MaxToggles,  \* bounds on what the author does
  MaxStarts,  \* bound on the starts of the event source
  MaxFaults   \* bound on failures of calls

ASSUME PollAssumption ==
  /\ Keys # {} /\ PageSize \in Nat \ {0}
  /\ {MaxPosts, MaxDeletes, MaxToggles, MaxStarts, MaxFaults} \subseteq Nat

VARIABLES
  kind,       \* configuration: the kind of each key
  fallback,   \* configuration: risk_control is there
  posted, deleted, live, toggles,  \* the author: posts 1..posted, and the live room
  active,     \* the keys of subscriptions that are not paused
  running,    \* the event source is in its loop
  run,        \* how often it has started
  pass,       \* keys that remain in this scheduling pass
  inflight,   \* inflight: keys with a task handle
  due,        \* keys whose next_due is absent or has passed
  task,       \* what the Core knows of the last task of each start and key
  cursor,     \* the cursor table, 0 for no row
  announced,  \* history: what was announced, in order
  baseline,   \* history: the cursor that the first poll stored
  lost,       \* history: posts polled or passed over without being announced
  excused,    \* history: keys of which a poll outlived its event source or found
              \* its cursor deleted
  faults

settings == <<kind, fallback>>
author == <<posted, deleted, live, toggles>>
scheduler == <<active, running, run, pass, inflight, due>>
pollVars == <<settings, author, scheduler, task, cursor, announced, baseline, lost,
              excused, faults>>

Runs == 1..MaxStarts
NoTask == [stage |-> "none"]
Settled == {"none", "completed", "failed"}
Unfinished(k, r) == task[r][k].stage \notin Settled

\* Only a dynamic poll with the fallback gives the runner up between two locks.
Split(k) == kind[k] = "Dynamic" /\ fallback

-----------------------------------------------------------------------------
(* The first page of a space, newest first, and what is new on it.         *)

Newer(S, p) == {q \in S : q > p}
FirstPage(S) ==
  [i \in 1..(IF Cardinality(S) < PageSize THEN Cardinality(S) ELSE PageSize) |->
    CHOOSE p \in S : Cardinality(Newer(S, p)) = i - 1]
Page(k) == IF kind[k] = "Live" THEN <<IF live THEN 2 ELSE 1>>
           ELSE FirstPage((1..posted) \ deleted)

\* fresh_since: the items before the previous newest one, oldest first.
BeforePrevious(page, previous) ==
  LET at == SelectInSeq(page, LAMBDA p : p = previous)
  IN IF at = 0 THEN page ELSE SubSeq(page, 1, at - 1)
NewestOnly(page, previous) == IF page[1] = previous THEN <<>> ELSE <<page[1]>>
NewestFirst(page, previous) == BeforePrevious(page, previous)
FreshSince(page, previous) == Reverse(BeforePrevious(page, previous))

-----------------------------------------------------------------------------
PollInit ==
  /\ kind \in [Keys -> {"Live", "Dynamic", "Video"}]
  /\ fallback \in {FALSE, \E k \in Keys : kind[k] = "Dynamic"}
  /\ posted \in 0..1 /\ deleted = {} /\ live = FALSE /\ toggles = 0
  /\ active = Keys
  /\ running = FALSE /\ run = 0 /\ pass = {}
  /\ inflight = {} /\ due = Keys
  /\ task = [r \in Runs |-> [k \in Keys |-> NoTask]]
  /\ cursor = [k \in Keys |-> 0]
  /\ announced = [k \in Keys |-> <<>>] /\ baseline = [k \in Keys |-> 0]
  /\ lost = [k \in Keys |-> {}] /\ excused = {}
  /\ faults = 0

(* The author, as far as some key looks at it.                             *)

Watched(kinds) == \E k \in Keys : kind[k] \in kinds

Post ==
  /\ Watched({"Dynamic", "Video"})
  /\ posted < MaxPosts
  /\ posted' = posted + 1
  /\ UNCHANGED <<settings, deleted, live, toggles, scheduler, task, cursor, announced,
                 baseline, lost, excused, faults>>

Delete ==
  /\ Cardinality(deleted) < MaxDeletes
  /\ \E p \in (1..posted) \ deleted : deleted' = deleted \cup {p}
  /\ UNCHANGED <<settings, posted, live, toggles, scheduler, task, cursor, announced,
                 baseline, lost, excused, faults>>

ToggleLive ==
  /\ Watched({"Live"})
  /\ toggles < MaxToggles
  /\ toggles' = toggles + 1
  /\ live' = ~live
  /\ UNCHANGED <<settings, posted, deleted, scheduler, task, cursor, announced,
                 baseline, lost, excused, faults>>

(* The event source.                                                       *)

\* set_paused, for one subscription; subscribe and unsubscribe are the same to polling.
SetPaused(k) ==
  /\ active' = IF k \in active THEN active \ {k} ELSE active \cup {k}
  /\ UNCHANGED <<settings, author, running, run, pass, inflight, due, task, cursor,
                 announced, baseline, lost, excused, faults>>

\* start: the maps of run_polling are new, the tasks of an earlier start go on.
Start ==
  /\ ~running /\ run < MaxStarts
  /\ running' = TRUE /\ run' = run + 1
  /\ excused' = excused \cup {k \in Keys : Split(k) /\ \E r \in Runs : Unfinished(k, r)}
  /\ UNCHANGED <<settings, author, active, pass, inflight, due, task, cursor, announced,
                 baseline, lost, faults>>

\* The loop ends between two passes; its maps are dropped.
Stop ==
  /\ running /\ pass = {} /\ run < MaxStarts
  /\ running' = FALSE
  /\ inflight' = {} /\ due' = Keys
  /\ UNCHANGED <<settings, author, active, run, pass, task, cursor, announced, baseline,
                 lost, excused, faults>>

\* The process dies: a poll that had stored its cursor announces nothing any more.
Crash ==
  /\ running /\ run < MaxStarts
  /\ running' = FALSE /\ pass' = {}
  /\ inflight' = {} /\ due' = Keys
  /\ lost' = [k \in Keys |-> lost[k] \cup
       UNION {ToSet(task[r][k].fresh) : r \in {q \in Runs : task[q][k].stage = "stored"}}]
  /\ task' = [r \in Runs |-> [k \in Keys |-> NoTask]]
  /\ UNCHANGED <<settings, author, active, run, cursor, announced, baseline, excused,
                 faults>>

\* A tick of the loop takes a snapshot of the configuration.
BeginPass ==
  /\ running /\ pass = {} /\ active # {}
  /\ pass' = active
  /\ UNCHANGED <<settings, author, active, running, run, inflight, due, task, cursor,
                 announced, baseline, lost, excused, faults>>

Visited(k) == pass' = pass \ {k}
FailedHandleKept(k) == UNCHANGED inflight
HandleDropped(k) == inflight' = inflight \ {k}
HandleKept(k) == UNCHANGED inflight

StillWaiting(k) ==
  /\ k \in pass /\ k \in inflight
  /\ Unfinished(k, run)
  /\ Visited(k)
  /\ UNCHANGED <<settings, author, active, running, run, inflight, due, task, cursor,
                 announced, baseline, lost, excused, faults>>

\* A completed task makes room, and the visit goes on with the due time.
CollectCompleted(k) ==
  /\ k \in pass /\ k \in inflight
  /\ task[run][k].stage = "completed"
  /\ inflight' = inflight \ {k}
  /\ UNCHANGED <<settings, author, active, running, run, pass, due, task, cursor,
                 announced, baseline, lost, excused, faults>>

\* A failed one waits for the retry delay.
CollectFailed(k) ==
  /\ k \in pass /\ k \in inflight
  /\ task[run][k].stage = "failed"
  /\ HandleDropped(k)
  /\ due' = due \ {k}
  /\ Visited(k)
  /\ UNCHANGED <<settings, author, active, running, run, task, cursor, announced,
                 baseline, lost, excused, faults>>

\* task_outcome itself fails: the handle stays.
OutcomeUnknown(k) ==
  /\ k \in pass /\ k \in inflight
  /\ faults < MaxFaults /\ faults' = faults + 1
  /\ HandleKept(k)
  /\ due' = due \ {k}
  /\ Visited(k)
  /\ UNCHANGED <<settings, author, active, running, run, task, cursor, announced,
                 baseline, lost, excused>>

NotDue(k) ==
  /\ k \in pass /\ k \notin inflight /\ k \notin due
  /\ Visited(k)
  /\ UNCHANGED <<settings, author, active, running, run, inflight, due, task, cursor,
                 announced, baseline, lost, excused, faults>>

Submit(k) ==
  /\ k \in pass /\ k \notin inflight /\ k \in due
  /\ task' = [task EXCEPT ![run][k] = [stage |-> "queued"]]
  /\ inflight' = inflight \cup {k}
  /\ due' = due \ {k}
  /\ Visited(k)
  /\ UNCHANGED <<settings, author, active, running, run, cursor, announced, baseline,
                 lost, excused, faults>>

\* submit_batch fails or returns no handle.
NoHandle(k) == UNCHANGED inflight
SubmitFails(k) ==
  /\ k \in pass /\ k \notin inflight /\ k \in due
  /\ faults < MaxFaults /\ faults' = faults + 1
  /\ NoHandle(k)
  /\ due' = due \ {k}
  /\ Visited(k)
  /\ UNCHANGED <<settings, author, active, running, run, task, cursor, announced,
                 baseline, lost, excused>>

\* The interval or the retry delay of a key passes.
BecomesDue(k) ==
  /\ running /\ k \notin due
  /\ due' = due \cup {k}
  /\ UNCHANGED <<settings, author, active, running, run, pass, inflight, task, cursor,
                 announced, baseline, lost, excused, faults>>

(* The runner: one task at a time holds it.                                *)

RunnerFree == \A r \in Runs, k \in Keys : task[r][k].stage # "stored"

ToStage(k, r, record) == task' = [task EXCEPT ![r][k] = record]

\* What the first poll of a key does with its page.
FirstAnnounces(page) == page
FirstAnnouncesNothing(page) == <<>>

\* finish_poll up to the cursor: an empty page changes nothing, the first poll only
\* stores a cursor, and what is fresh is still to be announced.
FinishPoll(k, r, page) ==
  IF page = <<>>
  THEN ToStage(k, r, [stage |-> "completed"]) /\ UNCHANGED <<cursor, baseline, lost, excused>>
  ELSE LET previous == cursor[k]
           fresh == IF previous = 0 THEN FirstAnnouncesNothing(page)
                    ELSE FreshSince(page, previous) IN
       /\ cursor' = [cursor EXCEPT ![k] = page[1]]
       /\ baseline' = IF previous = 0 THEN [baseline EXCEPT ![k] = page[1]] ELSE baseline
       /\ lost' = IF previous = 0 THEN lost
                  ELSE [lost EXCEPT ![k] = @ \cup ((previous + 1..page[1]) \ ToSet(page))]
       /\ excused' = IF kind[k] # "Live" /\ previous \in deleted
                     THEN excused \cup {k} ELSE excused
       /\ ToStage(k, r, IF fresh = <<>> THEN [stage |-> "completed"]
                        ELSE [stage |-> "stored", fresh |-> fresh])

\* A poll in one call.
Poll(k, r) ==
  /\ task[r][k].stage = "queued" /\ ~Split(k) /\ RunnerFree
  /\ FinishPoll(k, r, Page(k))
  /\ UNCHANGED <<settings, author, scheduler, announced, faults>>

\* The first lock of a dynamic poll with the fallback: a page ...
ReadPage(k, r) ==
  /\ task[r][k].stage = "queued" /\ Split(k) /\ RunnerFree
  /\ ToStage(k, r, [stage |-> "read", page |-> Page(k)])
  /\ UNCHANGED <<settings, author, scheduler, cursor, announced, baseline, lost,
                 excused, faults>>

\* ... or risk control, and Chromium is asked for a snapshot ...
RiskControl(k, r) ==
  /\ task[r][k].stage = "queued" /\ Split(k) /\ RunnerFree
  /\ ToStage(k, r, [stage |-> "snapshot"])
  /\ UNCHANGED <<settings, author, scheduler, cursor, announced, baseline, lost,
                 excused, faults>>

SnapshotTaken(k, r) ==
  /\ task[r][k].stage = "snapshot"
  /\ ToStage(k, r, [stage |-> "read", page |-> Page(k)])
  /\ UNCHANGED <<settings, author, scheduler, cursor, announced, baseline, lost,
                 excused, faults>>

\* ... and the second lock.
FinishRead(k, r) ==
  /\ task[r][k].stage = "read" /\ RunnerFree
  /\ FinishPoll(k, r, task[r][k].page)
  /\ UNCHANGED <<settings, author, scheduler, announced, faults>>

\* The task completes with one outbound task per fresh item ...
Announce(k, r) ==
  /\ task[r][k].stage = "stored"
  /\ announced' = [announced EXCEPT ![k] = @ \o task[r][k].fresh]
  /\ ToStage(k, r, [stage |-> "completed"])
  /\ UNCHANGED <<settings, author, scheduler, cursor, baseline, lost, excused, faults>>

\* ... or an image cannot be had, and none of them is sent.
AnnounceFails(k, r) ==
  /\ task[r][k].stage = "stored"
  /\ faults < MaxFaults /\ faults' = faults + 1
  /\ lost' = [lost EXCEPT ![k] = @ \cup ToSet(task[r][k].fresh)]
  /\ ToStage(k, r, [stage |-> "failed"])
  /\ UNCHANGED <<settings, author, scheduler, cursor, announced, baseline, excused>>

\* The request, the snapshot or the cursor table fails.
PollFails(k, r) ==
  /\ task[r][k].stage \in {"queued", "snapshot", "read"}
  /\ faults < MaxFaults /\ faults' = faults + 1
  /\ ToStage(k, r, [stage |-> "failed"])
  /\ UNCHANGED <<settings, author, scheduler, cursor, announced, baseline, lost,
                 excused>>

-----------------------------------------------------------------------------
Visit(k) ==
  \/ StillWaiting(k) \/ CollectCompleted(k) \/ CollectFailed(k) \/ OutcomeUnknown(k)
  \/ NotDue(k) \/ Submit(k) \/ SubmitFails(k)

RunTask(k, r) ==
  \/ Poll(k, r) \/ ReadPage(k, r) \/ RiskControl(k, r) \/ SnapshotTaken(k, r)
  \/ FinishRead(k, r) \/ Announce(k, r) \/ AnnounceFails(k, r) \/ PollFails(k, r)

PollNext ==
  \/ Post \/ Delete \/ ToggleLive
  \/ Start \/ Stop \/ Crash \/ BeginPass
  \/ \E k \in Keys : SetPaused(k) \/ Visit(k) \/ BecomesDue(k)
  \/ \E k \in Keys, r \in Runs : RunTask(k, r)

\* The ticker and the delays fire, a pass comes to its end, and the Core runs what was
\* submitted.  Nothing makes the author post, or anyone start the source.
PollFairness ==
  /\ WF_pollVars(BeginPass)
  /\ WF_pollVars(\E k \in Keys : Visit(k))
  /\ \A k \in Keys : WF_pollVars(BecomesDue(k))
  /\ \A k \in Keys, r \in Runs : WF_pollVars(RunTask(k, r))

PollSpec == PollInit /\ [][PollNext]_pollVars /\ PollFairness

-----------------------------------------------------------------------------
(* Properties.                                                             *)

\* The event source never has two polls of one key under way: whatever happens to
\* outcomes and submissions, a task it could still be waiting for has its handle.
OnePollPerKey == \A k \in Keys : running /\ k \notin inflight => ~Unfinished(k, run)

\* History is not announced and nothing twice: announcements start after the cursor of
\* the first poll and go forward, and those of a live room alternate if none is lost.
\* This holds for a key unless the post at its cursor was deleted or a poll outlived
\* its event source.
InOrder(k) ==
  LET all == <<baseline[k]>> \o announced[k] IN
  \A i \in 1..Len(all) - 1 :
    IF kind[k] = "Live" THEN lost[k] = {} => all[i] # all[i + 1] ELSE all[i] < all[i + 1]
OnlyNews == \A k \in Keys : k \notin excused => InOrder(k)

\* Everything between the first cursor and the present one was announced, except what
\* was deleted, slid off the page between two polls, or went down with its whole poll.
NothingMissed ==
  \A k \in Keys : kind[k] # "Live" =>
    \A p \in baseline[k] + 1..cursor[k] :
      \/ p \in ToSet(announced[k]) \cup lost[k] \cup deleted
      \/ \E r \in Runs : task[r][k].stage = "stored" /\ p \in ToSet(task[r][k].fresh)

\* While the source runs and a subscription is not paused, its posts get announced,
\* however its polls failed before.
CaughtUp(k) == \A p \in baseline[k] + 1..posted :
                 p \in ToSet(announced[k]) \cup lost[k] \cup deleted
NewPostArrives ==
  \A k \in Keys : kind[k] # "Live" =>
    (<>[](running /\ k \in active) => <>[]CaughtUp(k))
=============================================================================
