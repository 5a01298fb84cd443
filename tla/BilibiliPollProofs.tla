------------------------ MODULE BilibiliPollProofs ------------------------
(***************************************************************************)
(* Proofs about BilibiliPoll, for any keys, pages and bounds: the event    *)
(* source never has two polls of one key under way, history is not         *)
(* announced and nothing twice, and nothing is missed unnoticed.           *)
(***************************************************************************)
EXTENDS BilibiliPoll, FiniteSetTheorems, SequenceTheorems, WellFoundedInduction, TLAPS

\* The task table has a row for every start and key.
TaskTable == DOMAIN task = Runs /\ \A r \in Runs : DOMAIN task[r] = Keys

\* OnePollPerKey is inductive once it is known that the present start is one of Runs
\* and that no task belongs to a later one.
HandlesInv ==
  /\ run \in 0..MaxStarts
  /\ running => run # 0
  /\ TaskTable
  /\ \A r \in Runs, k \in Keys : r > run => task[r][k].stage = "none"
  /\ OnePollPerKey

LEMMA InitHandlesInv == PollInit => HandlesInv
BY PollAssumption
   DEF PollInit, HandlesInv, TaskTable, OnePollPerKey, Runs, NoTask

\* A step that leaves the tasks alone and drops no handle of this start.
LEMMA HandlesStay ==
  ASSUME HandlesInv, UNCHANGED <<running, run, task>>,
         \A k \in Keys : running /\ k \in inflight /\ k \notin inflight' =>
                           ~Unfinished(k, run)
  PROVE  HandlesInv'
BY DEF HandlesInv, TaskTable, OnePollPerKey, Unfinished

\* A step of one task that is not settled, of whatever start.
LEMMA TaskMoves ==
  ASSUME HandlesInv, NEW k \in Keys, NEW r \in Runs, NEW record,
         Unfinished(k, r), ToStage(k, r, record), UNCHANGED <<running, run, inflight>>
  PROVE  HandlesInv'
<1>1. task[r][k].stage # "none"
  BY DEF Unfinished, Settled
<1>2. ~(r > run)
  BY <1>1 DEF HandlesInv
<1>3. /\ TaskTable'
      /\ \A q \in Runs, j \in Keys : q # r \/ j # k => task'[q][j] = task[q][j]
  BY DEF HandlesInv, TaskTable, ToStage
<1>4. \A q \in Runs, j \in Keys : q > run' => task'[q][j].stage = "none"
  BY <1>2, <1>3 DEF HandlesInv
<1>5. ASSUME NEW j \in Keys, running', j \notin inflight'
      PROVE  ~Unfinished(j, run)'
  <2>1. run \in Runs
    BY <1>5, PollAssumption DEF HandlesInv, Runs
  <2>2. ~Unfinished(j, run)
    BY <1>5 DEF HandlesInv, OnePollPerKey
  <2>3. run # r \/ j # k
    BY <2>2
  <2>4. task'[run'][j] = task[run][j]
    BY <1>3, <2>1, <2>3
  <2> QED
    BY <2>2, <2>4 DEF Unfinished
<1> QED
  BY <1>3, <1>4, <1>5 DEF HandlesInv, OnePollPerKey

\* Start: the tasks of the new start are still to come.
LEMMA StartStep == HandlesInv /\ Start => HandlesInv'
<1> SUFFICES ASSUME HandlesInv, Start PROVE HandlesInv'
  OBVIOUS
<1>1. run' = run + 1 /\ run' \in Runs /\ task' = task
  BY PollAssumption DEF HandlesInv, Start, Runs
<1>2. \A k \in Keys : task[run'][k].stage = "none"
  BY <1>1 DEF HandlesInv
<1>3. \A k \in Keys : ~Unfinished(k, run)'
  BY <1>1, <1>2 DEF Unfinished, Settled
<1>4. run' \in 0..MaxStarts /\ run' # 0
  BY <1>1, PollAssumption DEF Runs
<1>5. \A q \in Runs, j \in Keys : q > run' => task'[q][j].stage = "none"
  BY <1>1, PollAssumption DEF HandlesInv, Runs
<1>6. TaskTable'
  BY <1>1 DEF HandlesInv, TaskTable
<1> QED
  BY <1>3, <1>4, <1>5, <1>6 DEF HandlesInv, OnePollPerKey

\* Stop and Crash: nobody waits any more.
LEMMA StopStep == HandlesInv /\ Stop => HandlesInv'
BY DEF HandlesInv, Stop, TaskTable, OnePollPerKey

LEMMA CrashStep == HandlesInv /\ Crash => HandlesInv'
BY DEF HandlesInv, Crash, TaskTable, OnePollPerKey, NoTask

\* A visit of the scheduling pass.
LEMMA VisitStep ==
  ASSUME HandlesInv, NEW k \in Keys, Visit(k)
  PROVE  HandlesInv'
<1>1. CASE StillWaiting(k)
  BY <1>1, HandlesStay DEF StillWaiting
<1>2. CASE CollectCompleted(k)
  <2>1. ~Unfinished(k, run)
    BY <1>2 DEF CollectCompleted, Unfinished, Settled
  <2> QED
    BY <1>2, <2>1, HandlesStay DEF CollectCompleted
<1>3. CASE CollectFailed(k)
  <2>1. ~Unfinished(k, run)
    BY <1>3 DEF CollectFailed, Unfinished, Settled
  <2> QED
    BY <1>3, <2>1, HandlesStay DEF CollectFailed, HandleDropped
<1>4. CASE OutcomeUnknown(k)
  BY <1>4, HandlesStay DEF OutcomeUnknown, HandleKept
<1>5. CASE NotDue(k)
  BY <1>5, HandlesStay DEF NotDue
<1>6. CASE Submit(k)
  <2>1. /\ UNCHANGED <<running, run>>
        /\ inflight' = inflight \cup {k}
        /\ task' = [task EXCEPT ![run][k] = [stage |-> "queued"]]
    BY <1>6 DEF Submit
  <2>2. TaskTable'
    BY <2>1 DEF HandlesInv, TaskTable
  <2>3. \A q \in Runs, j \in Keys : q # run \/ j # k => task'[q][j] = task[q][j]
    BY <2>1 DEF HandlesInv, TaskTable
  <2>4. \A q \in Runs, j \in Keys : q > run' => task'[q][j].stage = "none"
    BY <2>1, <2>3, PollAssumption DEF HandlesInv, Runs
  <2>5. ASSUME NEW j \in Keys, running', j \notin inflight'
        PROVE  ~Unfinished(j, run)'
    <3>1. run \in Runs
      BY <2>1, <2>5, PollAssumption DEF HandlesInv, Runs
    <3>2. ~Unfinished(j, run) /\ j # k
      BY <2>1, <2>5 DEF HandlesInv, OnePollPerKey
    <3>3. task'[run'][j] = task[run][j]
      BY <2>1, <2>3, <3>1, <3>2
    <3> QED
      BY <3>2, <3>3 DEF Unfinished
  <2> QED
    BY <2>1, <2>2, <2>4, <2>5 DEF HandlesInv, OnePollPerKey
<1>7. CASE SubmitFails(k)
  BY <1>7, HandlesStay DEF SubmitFails, NoHandle
<1> QED
  BY <1>1, <1>2, <1>3, <1>4, <1>5, <1>6, <1>7 DEF Visit

\* finish_poll ends in a stage for its task, whatever the page.
LEMMA FinishMoves ==
  ASSUME NEW k, NEW r, NEW page, FinishPoll(k, r, page)
  PROVE  \E record : ToStage(k, r, record)
BY DEF FinishPoll

\* A step of the runner.
LEMMA RunTaskStep ==
  ASSUME HandlesInv, NEW k \in Keys, NEW r \in Runs, RunTask(k, r)
  PROVE  HandlesInv'
<1>1. Unfinished(k, r)
  BY DEF RunTask, Poll, ReadPage, RiskControl, SnapshotTaken, FinishRead, Announce,
         AnnounceFails, PollFails, Unfinished, Settled
<1>2. UNCHANGED <<running, run, inflight>>
  BY DEF RunTask, Poll, ReadPage, RiskControl, SnapshotTaken, FinishRead, Announce,
         AnnounceFails, PollFails, scheduler
<1>3. \E record : ToStage(k, r, record)
  BY FinishMoves
     DEF RunTask, Poll, ReadPage, RiskControl, SnapshotTaken, FinishRead, Announce,
         AnnounceFails, PollFails
<1> QED
  BY <1>1, <1>2, <1>3, TaskMoves

LEMMA NextHandlesInv == HandlesInv /\ [PollNext]_pollVars => HandlesInv'
<1> SUFFICES ASSUME HandlesInv, [PollNext]_pollVars PROVE HandlesInv'
  OBVIOUS
<1>1. CASE Post \/ Delete \/ ToggleLive
  BY <1>1, HandlesStay DEF Post, Delete, ToggleLive, scheduler
<1>2. CASE Start
  BY <1>2, StartStep
<1>3. CASE Stop
  BY <1>3, StopStep
<1>4. CASE Crash
  BY <1>4, CrashStep
<1>5. CASE BeginPass
  BY <1>5, HandlesStay DEF BeginPass
<1>6. ASSUME NEW k \in Keys, SetPaused(k) PROVE HandlesInv'
  BY <1>6, HandlesStay DEF SetPaused
<1>7. ASSUME NEW k \in Keys, Visit(k) PROVE HandlesInv'
  BY <1>7, VisitStep
<1>8. ASSUME NEW k \in Keys, BecomesDue(k) PROVE HandlesInv'
  BY <1>8, HandlesStay DEF BecomesDue
<1>9. ASSUME NEW k \in Keys, NEW r \in Runs, RunTask(k, r) PROVE HandlesInv'
  BY <1>9, RunTaskStep
<1>10. CASE UNCHANGED pollVars
  BY <1>10, HandlesStay DEF pollVars, scheduler
<1> QED
  BY <1>1, <1>2, <1>3, <1>4, <1>5, <1>6, <1>7, <1>8, <1>9, <1>10 DEF PollNext

\* Whatever happens to outcomes, submissions, the source and the process, the event
\* source holds a handle for every task of its present start that is under way.
THEOREM OnePollPerKeyCorrect == PollSpec => []OnePollPerKey
<1>1. HandlesInv => OnePollPerKey
  BY DEF HandlesInv
<1> QED
  BY <1>1, InitHandlesInv, NextHandlesInv, PTL DEF PollSpec

-----------------------------------------------------------------------------
(* The first page of a space.  The library's induction theorems cannot be  *)
(* instantiated by the provers, so induction is done with a set.           *)

LEMMA LeastNat ==
  ASSUME NEW S \in SUBSET Nat, S # {}
  PROVE  \E n \in S : \A m \in S : n <= m
<1> DEFINE R == OpToRel(<, Nat)
<1>1. IsWellFoundedOn(R, Nat)
  BY NatLessThanWellFounded
<1>2. \A a, b \in Nat : <<a, b>> \in R <=> a < b
  BY DEF OpToRel
<1> HIDE DEF R
<1>3. PICK n \in S : \A m \in S : ~(<<m, n>> \in R)
  BY <1>1, WFMin
<1>4. ASSUME NEW m \in S PROVE n <= m
  <2>1. ~(m < n) /\ m \in Nat /\ n \in Nat
    BY <1>2, <1>3
  <2> QED
    BY <2>1
<1> QED
  BY <1>4

LEMMA SetInduction ==
  ASSUME NEW S, 0 \in S, \A n \in Nat : n \in S => n + 1 \in S
  PROVE  Nat \subseteq S
<1> SUFFICES ASSUME Nat \ S # {} PROVE FALSE
  OBVIOUS
<1>1. PICK n \in Nat \ S : \A m \in Nat \ S : n <= m
  BY LeastNat
<1>2. n # 0 /\ n - 1 \in Nat
  OBVIOUS
<1>3. n - 1 \in S
  BY <1>1, <1>2
<1> QED
  BY <1>1, <1>2, <1>3

\* The posts of a space are finitely many, and so are the newer ones.
LEMMA PostsFinite ==
  ASSUME NEW n \in Nat, NEW S \in SUBSET (1..n)
  PROVE  /\ IsFiniteSet(S) /\ Cardinality(S) \in Nat
         /\ \A T \in SUBSET S : /\ IsFiniteSet(T) /\ Cardinality(T) \in Nat
                                /\ Cardinality(T) <= Cardinality(S)
<1>1. IsFiniteSet(1..n)
  BY FS_Interval
<1>2. IsFiniteSet(S)
  BY <1>1, FS_Subset
<1> QED
  BY <1>2, FS_Subset, FS_CardinalityType

Count(S, p) == Cardinality(Newer(S, p))

LEMMA CountFacts ==
  ASSUME NEW n \in Nat, NEW S \in SUBSET (1..n), NEW p \in S
  PROVE  /\ Count(S, p) \in Nat /\ Count(S, p) < Cardinality(S)
         /\ \A q \in S : p < q => Count(S, q) < Count(S, p)
<1>1. ASSUME NEW T \in SUBSET S, NEW q \in S, q \notin T
      PROVE  Cardinality(T \cup {q}) = Cardinality(T) + 1 /\ T \cup {q} \subseteq S
  <2>1. IsFiniteSet(T)
    BY PostsFinite
  <2> QED
    BY <1>1, <2>1, FS_AddElement
<1>2. Newer(S, p) \in SUBSET S /\ p \notin Newer(S, p)
  BY DEF Newer
<1>3. Count(S, p) \in Nat /\ Cardinality(S) \in Nat
  BY <1>2, PostsFinite DEF Count
<1>4. Count(S, p) < Cardinality(S)
  <2>1. Cardinality(Newer(S, p) \cup {p}) = Count(S, p) + 1 /\ Newer(S, p) \cup {p} \in SUBSET S
    BY <1>1, <1>2 DEF Count
  <2>2. Count(S, p) + 1 <= Cardinality(S)
    BY <2>1, PostsFinite
  <2> QED
    BY <1>3, <2>2
<1>5. ASSUME NEW q \in S, p < q PROVE Count(S, q) < Count(S, p)
  <2>1. Newer(S, q) \in SUBSET S /\ q \notin Newer(S, q)
    BY DEF Newer
  <2>2. Newer(S, q) \cup {q} \subseteq Newer(S, p)
    <3>1. \A x \in S : x \in Int
      OBVIOUS
    <3>2. \A x \in S : x > q => x > p
      BY <1>5, <3>1
    <3> QED
      BY <1>5, <3>1, <3>2 DEF Newer
  <2>3. Cardinality(Newer(S, q) \cup {q}) = Count(S, q) + 1
    BY <1>1, <2>1 DEF Count
  <2>4. IsFiniteSet(Newer(S, p)) /\ Count(S, q) \in Nat
    BY <1>2, <2>1, PostsFinite DEF Count
  <2>5. Cardinality(Newer(S, q) \cup {q}) <= Count(S, p)
    BY <2>2, <2>4, FS_Subset DEF Count
  <2> QED
    BY <1>3, <2>3, <2>4, <2>5
<1> QED
  BY <1>3, <1>4, <1>5

\* For each place on the page there is a post.
LEMMA CountTaken ==
  ASSUME NEW n \in Nat, NEW S \in SUBSET (1..n), NEW c \in Nat, c < Cardinality(S)
  PROVE  \E p \in S : Count(S, p) = c
<1> DEFINE All(m) == \A T \in SUBSET (1..m) : \A d \in Nat :
                       d < Cardinality(T) => \E p \in T : Count(T, p) = d
           Ms == {m \in Nat : All(m)}
<1>1. 0 \in Ms
  <2>1. ASSUME NEW T \in SUBSET (1..0) PROVE Cardinality(T) = 0
    <3>1. T = {}
      OBVIOUS
    <3> QED
      BY <3>1, FS_EmptySet
  <2> QED
    BY <2>1
<1>2. ASSUME NEW m \in Nat, m \in Ms PROVE m + 1 \in Ms
  <2> SUFFICES ASSUME NEW T \in SUBSET (1..m + 1), NEW d \in Nat, d < Cardinality(T)
               PROVE  \E p \in T : Count(T, p) = d
    OBVIOUS
  <2> DEFINE U == T \ {m + 1}
  <2>1. U \in SUBSET (1..m)
    OBVIOUS
  <2>2. ASSUME m + 1 \notin T PROVE \E p \in T : Count(T, p) = d
    <3>1. T \in SUBSET (1..m)
      BY <2>2
    <3> QED
      BY <1>2, <3>1
  <2>3. ASSUME m + 1 \in T PROVE \E p \in T : Count(T, p) = d
    <3>1. IsFiniteSet(U) /\ Cardinality(U) \in Nat
      BY <2>1, PostsFinite
    <3>2. T = U \cup {m + 1} /\ m + 1 \notin U
      BY <2>3
    <3>3. Cardinality(T) = Cardinality(U) + 1
      <4>1. Cardinality(U \cup {m + 1}) = Cardinality(U) + 1
        BY <3>1, <3>2, FS_AddElement
      <4> QED
        BY <3>2, <4>1
    <3>4. CASE d = 0
      <4>1. Newer(T, m + 1) = {}
        <5>1. \A x \in T : ~(x > m + 1)
          OBVIOUS
        <5> QED
          BY <5>1 DEF Newer
      <4>2. Count(T, m + 1) = 0
        BY <4>1, FS_EmptySet DEF Count
      <4> QED
        BY <2>3, <3>4, <4>2
    <3>5. CASE d # 0
      <4>1. d - 1 \in Nat /\ d - 1 < Cardinality(U)
        BY <3>1, <3>3, <3>5
      <4>2. PICK p \in U : Count(U, p) = d - 1
        BY <1>2, <2>1, <4>1
      <4>3. Newer(T, p) = Newer(U, p) \cup {m + 1} /\ m + 1 \notin Newer(U, p)
        <5>1. \A x \in T : x \in Int
          OBVIOUS
        <5>2. p < m + 1 /\ p \in Int
          BY <2>1
        <5> QED
          BY <2>3, <5>1, <5>2 DEF Newer
      <4>4. IsFiniteSet(Newer(U, p))
        <5>1. Newer(U, p) \in SUBSET U
          BY DEF Newer
        <5> QED
          BY <2>1, <5>1, PostsFinite
      <4>5. Cardinality(Newer(U, p) \cup {m + 1}) = Cardinality(Newer(U, p)) + 1
        BY <4>3, <4>4, FS_AddElement
      <4>6. Count(T, p) = d
        BY <4>1, <4>2, <4>3, <4>5 DEF Count
      <4> QED
        BY <4>6
    <3> QED
      BY <3>4, <3>5
  <2> QED
    BY <2>2, <2>3
<1> HIDE DEF Ms
<1>3. Nat \subseteq Ms
  BY <1>1, <1>2, SetInduction
<1>4. n \in Ms
  BY <1>3
<1> QED
  BY <1>4 DEF Ms

\* A page lists posts from the newest on.
Descending(page) == \A i, j \in 1..Len(page) : i < j => page[i] > page[j]
IsPage(page) == page \in Seq(Nat \ {0}) /\ Descending(page)

\* The page of the posts in S: nothing is passed over that is newer than its last post.
LEMMA PageFacts ==
  ASSUME NEW n \in Nat, NEW S \in SUBSET (1..n)
  PROVE  /\ IsPage(FirstPage(S))
         /\ \A i \in 1..Len(FirstPage(S)) : FirstPage(S)[i] \in S
         /\ \A p \in S : \/ \E i \in 1..Len(FirstPage(S)) : FirstPage(S)[i] = p
                         \/ \A i \in 1..Len(FirstPage(S)) : FirstPage(S)[i] > p
         /\ S # {} => FirstPage(S) # <<>>
<1> DEFINE page == FirstPage(S)
           size == IF Cardinality(S) < PageSize THEN Cardinality(S) ELSE PageSize
<1>1. Cardinality(S) \in Nat /\ size \in Nat /\ size <= Cardinality(S)
  <2>1. Cardinality(S) \in Nat /\ PageSize \in Nat
    BY PostsFinite, PollAssumption
  <2> QED
    BY <2>1
<1>2. ASSUME NEW i \in 1..size
      PROVE  page[i] \in S /\ Count(S, page[i]) = i - 1
  <2>1. page[i] = CHOOSE p \in S : Count(S, p) = i - 1
    BY <1>1 DEF FirstPage, Count
  <2>2. i - 1 \in Nat /\ i - 1 < Cardinality(S)
    BY <1>1
  <2>3. \E p \in S : Count(S, p) = i - 1
    BY <2>2, CountTaken
  <2> QED
    BY <2>1, <2>3
<1>3. page \in [1..size -> Nat \ {0}]
  <2>1. page = [i \in 1..size |-> page[i]]
    BY DEF FirstPage
  <2>2. \A i \in 1..size : page[i] \in Nat \ {0}
    <3>1. \A p \in S : p \in Nat \ {0}
      OBVIOUS
    <3> HIDE DEF page, size
    <3> QED
      BY <1>2, <3>1
  <2> HIDE DEF page, size
  <2> QED
    BY <2>1, <2>2
<1> HIDE DEF page, size
<1>4. page \in Seq(Nat \ {0}) /\ Len(page) = size
  BY <1>1, <1>3, IsASeq
<1>5. ASSUME NEW i \in 1..size, NEW j \in 1..size, i < j PROVE page[i] > page[j]
  <2>1. /\ page[i] \in S /\ Count(S, page[i]) = i - 1
        /\ page[j] \in S /\ Count(S, page[j]) = j - 1
    BY <1>2
  <2>2. page[i] # page[j]
    BY <1>1, <1>5, <2>1
  <2>3. ~(page[i] < page[j])
    <3>1. page[i] < page[j] => Count(S, page[j]) < Count(S, page[i])
      BY <2>1, CountFacts
    <3> QED
      BY <1>5, <2>1, <3>1
  <2>4. page[i] \in Nat /\ page[j] \in Nat
    BY <1>3
  <2> QED
    BY <2>2, <2>3, <2>4
<1>6. ASSUME NEW p \in S, \A i \in 1..size : page[i] # p, NEW i \in 1..size
      PROVE  page[i] > p
  <2>1. page[i] \in S /\ page[i] \in Nat /\ p \in Nat /\ page[i] # p /\ Count(S, page[i]) = i - 1
    BY <1>2, <1>3, <1>6
  <2>2. Count(S, p) \in Nat /\ Count(S, p) < Cardinality(S)
    BY CountFacts
  <2>3. Count(S, p) >= size
    <3> SUFFICES ASSUME Count(S, p) < size PROVE FALSE
      BY <1>1, <2>2
    <3>1. PICK j \in 1..size : Count(S, p) = j - 1
      <4>1. Count(S, p) + 1 \in 1..size /\ Count(S, p) = (Count(S, p) + 1) - 1
        BY <1>1, <2>2
      <4> QED
        BY <4>1
    <3>2. page[j] \in S /\ Count(S, page[j]) = j - 1 /\ page[j] # p /\ page[j] \in Nat
      BY <1>2, <1>3, <1>6
    <3>3. (p < page[j] => Count(S, page[j]) < Count(S, p)) /\ (page[j] < p => Count(S, p) < Count(S, page[j]))
      BY <3>2, CountFacts
    <3> QED
      BY <2>1, <2>2, <3>1, <3>2, <3>3
  <2>4. page[i] < p => Count(S, p) < Count(S, page[i])
    BY <2>1, CountFacts
  <2> QED
    BY <1>1, <2>1, <2>2, <2>3, <2>4
<1>7. S # {} => page # <<>>
  <2> SUFFICES ASSUME S # {} PROVE size # 0
    BY <1>4
  <2>1. Cardinality(S) # 0
    BY FS_EmptySet, PostsFinite
  <2> QED
    BY <2>1, PollAssumption DEF size
<1> QED
  BY <1>2, <1>4, <1>5, <1>6, <1>7 DEF IsPage, Descending, page

-----------------------------------------------------------------------------
(* What is fresh on a page.                                                *)

LEMMA BeforeFacts ==
  ASSUME NEW page \in Seq(Nat), NEW previous
  PROVE  \E m \in 0..Len(page) :
           /\ BeforePrevious(page, previous) = SubSeq(page, 1, m)
           /\ \A i \in 1..m : page[i] # previous
           /\ m = Len(page) \/ page[m + 1] = previous
<1> DEFINE I == {i \in 1..Len(page) : page[i] = previous}
           at == SelectInSeq(page, LAMBDA p : p = previous)
<1>0. Len(page) \in Nat /\ page = SubSeq(page, 1, Len(page))
  OBVIOUS
<1>1. at = IF I # {} THEN Min(I) ELSE 0
  BY DEF SelectInSeq
<1>2. BeforePrevious(page, previous) = IF at = 0 THEN page ELSE SubSeq(page, 1, at - 1)
  BY DEF BeforePrevious
<1> HIDE DEF at
<1>3. CASE I = {}
  <2>1. BeforePrevious(page, previous) = SubSeq(page, 1, Len(page))
    BY <1>0, <1>1, <1>2, <1>3
  <2>2. Len(page) \in 0..Len(page) /\ \A i \in 1..Len(page) : page[i] # previous
    BY <1>0, <1>3
  <2> QED
    BY <2>1, <2>2
<1>4. CASE I # {}
  <2>1. I \in SUBSET Nat
    OBVIOUS
  <2>2. \E n \in I : \A m \in I : n <= m
    BY <1>4, <2>1, LeastNat
  <2>3. Min(I) \in I /\ \A m \in I : Min(I) <= m
    BY <2>2 DEF Min
  <2>4. at = Min(I)
    BY <1>1, <1>4
  <2> HIDE DEF I
  <2>5. at \in I /\ \A m \in I : at <= m
    BY <2>3, <2>4
  <2>6. at \in 1..Len(page) /\ page[at] = previous
    BY <2>5 DEF I
  <2>7. ASSUME NEW i \in 1..at - 1 PROVE page[i] # previous
    <3>1. i \in 1..Len(page) /\ ~(at <= i)
      BY <1>0, <2>6
    <3> QED
      BY <2>5, <3>1 DEF I
  <2>8. at - 1 \in 0..Len(page) /\ (at - 1) + 1 = at /\ at # 0
    BY <1>0, <2>6
  <2> QED
    BY <1>2, <2>6, <2>7, <2>8
<1> QED
  BY <1>3, <1>4

Ascending(s) == \A i, j \in 1..Len(s) : i < j => s[i] < s[j]

\* The fresh posts are those of the page up to the previous one, oldest first.
LEMMA FreshFacts ==
  ASSUME NEW page, IsPage(page), NEW previous \in Nat
  PROVE  LET fresh == FreshSince(page, previous) IN
         /\ fresh \in Seq(Nat \ {0}) /\ Ascending(fresh)
         /\ \A i \in 1..Len(fresh) : \E j \in 1..Len(page) :
              /\ fresh[i] = page[j] /\ page[j] # previous
              /\ \A l \in 1..Len(page) : page[l] = previous => page[j] > previous
         /\ \A j \in 1..Len(page) : page[j] > previous => \E i \in 1..Len(fresh) : fresh[i] = page[j]
         /\ Len(page) = 1 => fresh = IF page[1] = previous THEN <<>> ELSE page
<1> DEFINE fresh == FreshSince(page, previous)
<1>0. /\ page \in Seq(Nat) /\ Len(page) \in Nat /\ \A i \in 1..Len(page) : page[i] \in Nat \ {0}
      /\ page = [i \in 1..Len(page) |-> page[i]]
  BY DEF IsPage
<1>1. PICK m \in 0..Len(page) :
           /\ BeforePrevious(page, previous) = SubSeq(page, 1, m)
           /\ \A i \in 1..m : page[i] # previous
           /\ m = Len(page) \/ page[m + 1] = previous
  BY <1>0, BeforeFacts
<1>2. m \in Nat /\ m <= Len(page)
  BY <1>0
<1>3. SubSeq(page, 1, m) = [i \in 1..m |-> page[i]] /\ Len(SubSeq(page, 1, m)) = m
  BY <1>0, <1>2
<1>4. fresh = [i \in 1..m |-> page[(m - i) + 1]]
  <2>1. fresh = [i \in 1..m |-> SubSeq(page, 1, m)[(m - i) + 1]]
    BY <1>1, <1>3 DEF FreshSince, Reverse
  <2>2. \A i \in 1..m : SubSeq(page, 1, m)[(m - i) + 1] = page[(m - i) + 1]
    BY <1>2, <1>3
  <2> QED
    BY <2>1, <2>2
<1> HIDE DEF fresh
<1>5. \A i \in 1..m : (m - i) + 1 \in 1..m /\ (m - i) + 1 \in 1..Len(page)
  BY <1>2
<1>6. fresh \in Seq(Nat \ {0}) /\ Len(fresh) = m
  <2>1. fresh \in [1..m -> Nat \ {0}]
    BY <1>0, <1>4, <1>5
  <2> QED
    BY <1>2, <2>1, IsASeq
<1>7. \A i \in 1..m : fresh[i] = page[(m - i) + 1]
  BY <1>4
<1>8. Ascending(fresh)
  <2> SUFFICES ASSUME NEW i \in 1..m, NEW j \in 1..m, i < j PROVE fresh[i] < fresh[j]
    BY <1>6 DEF Ascending
  <2>1. (m - j) + 1 < (m - i) + 1
    BY <1>2
  <2>2. page[(m - j) + 1] > page[(m - i) + 1]
    BY <1>5, <2>1 DEF IsPage, Descending
  <2>3. page[(m - j) + 1] \in Nat /\ page[(m - i) + 1] \in Nat
    BY <1>0, <1>5
  <2> QED
    BY <1>7, <2>2, <2>3
<1>9. ASSUME NEW i \in 1..m
      PROVE  \E j \in 1..Len(page) :
              /\ fresh[i] = page[j] /\ page[j] # previous
              /\ \A l \in 1..Len(page) : page[l] = previous => page[j] > previous
  <2> DEFINE j == (m - i) + 1
  <2>1. j \in 1..m /\ j \in 1..Len(page) /\ fresh[i] = page[j] /\ page[j] # previous
    BY <1>1, <1>5, <1>7
  <2> HIDE DEF j
  <2>2. ASSUME NEW l \in 1..Len(page), page[l] = previous PROVE page[j] > previous
    <3>1. ~(l <= m)
      BY <1>1, <2>2
    <3>2. j < l
      BY <1>2, <2>1, <3>1
    <3> QED
      BY <2>1, <2>2, <3>2 DEF IsPage, Descending
  <2> QED
    BY <2>1, <2>2
<1>10. ASSUME NEW j \in 1..Len(page), page[j] > previous
       PROVE  \E i \in 1..m : fresh[i] = page[j]
  <2>1. j <= m
    <3> SUFFICES ASSUME j > m PROVE FALSE
      BY <1>2
    <3>1. m + 1 \in 1..Len(page) /\ page[m + 1] = previous
      BY <1>1, <1>2
    <3>2. page[m + 1] >= page[j]
      <4>1. CASE j = m + 1
        BY <1>0, <4>1
      <4>2. CASE j # m + 1
        <5>1. m + 1 < j
          BY <1>2, <4>2
        <5> QED
          BY <1>0, <3>1, <5>1 DEF IsPage, Descending
      <4> QED
        BY <4>1, <4>2
    <3> QED
      BY <1>0, <1>10, <3>1, <3>2
  <2>2. (m - j) + 1 \in 1..m /\ (m - ((m - j) + 1)) + 1 = j
    BY <1>2, <2>1
  <2> QED
    BY <1>7, <2>2
<1>11. ASSUME Len(page) = 1 PROVE fresh = IF page[1] = previous THEN <<>> ELSE page
  <2>1. CASE page[1] = previous
    <3>1. m = 0
      BY <1>1, <1>2, <1>11, <2>1
    <3> QED
      BY <1>6, <2>1, <3>1
  <2>2. CASE page[1] # previous
    <3>1. m = 1
      BY <1>1, <1>2, <1>11, <2>2
    <3>2. fresh = [i \in 1..1 |-> page[i]]
      BY <1>4, <3>1
    <3> QED
      BY <1>0, <1>11, <2>2, <3>2
  <2> QED
    BY <2>1, <2>2
<1> QED
  BY <1>6, <1>8, <1>9, <1>10, <1>11 DEF fresh

-----------------------------------------------------------------------------
(* The kinds of steps, as far as cursors and announcements are concerned.  *)

\* The author, the scheduler and the subscriptions.
Quiet ==
  /\ UNCHANGED <<settings, task, cursor, announced, baseline, lost>>
  /\ posted' \in Nat /\ posted' >= posted /\ deleted \subseteq deleted'
  /\ deleted' \subseteq 1..posted'
  /\ excused \subseteq excused'
  /\ run' # run => {k \in Keys : Split(k) /\ \E r \in Runs : Unfinished(k, r)} \subseteq excused'

\* A task is submitted, reads its page or fails before it stored its cursor.
Moves(k, r, record) ==
  /\ ToStage(k, r, record)
  /\ Unfinished(k, r) \/ r = run
  /\ task[r][k].stage # "stored"
  /\ record.stage \in {"queued", "snapshot", "read", "failed"}
  /\ record.stage \in {"snapshot", "read"} => Split(k) \/ task[r][k].stage = "snapshot"
  /\ record.stage = "read" => record.page = Page(k)
  /\ UNCHANGED <<settings, author, run, cursor, announced, baseline, lost, excused>>

\* A poll comes to its cursor.
Finishes(k, r, page) ==
  /\ Unfinished(k, r) /\ task[r][k].stage # "stored"
  /\ RunnerFree
  /\ \/ task[r][k].stage = "read" /\ page = task[r][k].page
     \/ ~Split(k) /\ page = Page(k)
  /\ FinishPoll(k, r, page)
  /\ UNCHANGED <<settings, author, run, announced>>

Steps ==
  \/ Quiet
  \/ Crash
  \/ \E k \in Keys, r \in Runs :
       \/ \E record : Moves(k, r, record)
       \/ \E page : Finishes(k, r, page)
       \/ Announce(k, r) \/ AnnounceFails(k, r)

PostsOK == posted \in Nat /\ deleted \in SUBSET (1..posted)

LEMMA QuietSteps ==
  ASSUME PostsOK, UNCHANGED <<settings, run, task, cursor, announced, baseline, lost, excused>>,
         posted' \in Nat, posted' >= posted, deleted \subseteq deleted', deleted' \subseteq 1..posted'
  PROVE  Quiet
BY DEF Quiet

\* Only a running source is in a pass.
PassInv == pass # {} => running

LEMMA NextPassInv == PassInv /\ [PollNext]_pollVars => PassInv'
<1> SUFFICES ASSUME PassInv, [PollNext]_pollVars PROVE PassInv'
  OBVIOUS
<1>1. CASE Post \/ Delete \/ ToggleLive \/ UNCHANGED pollVars
  BY <1>1 DEF PassInv, Post, Delete, ToggleLive, pollVars, scheduler
<1>2. CASE Start \/ Stop \/ Crash \/ BeginPass
  BY <1>2 DEF PassInv, Start, Stop, Crash, BeginPass
<1>3. ASSUME NEW k \in Keys, SetPaused(k) \/ Visit(k) \/ BecomesDue(k) PROVE PassInv'
  BY <1>3
     DEF PassInv, SetPaused, BecomesDue, Visit, StillWaiting, CollectCompleted, CollectFailed,
         OutcomeUnknown, NotDue, Submit, SubmitFails, Visited
<1>4. ASSUME NEW k \in Keys, NEW r \in Runs, RunTask(k, r) PROVE PassInv'
  BY <1>4
     DEF PassInv, RunTask, Poll, ReadPage, RiskControl, SnapshotTaken, FinishRead, Announce,
         AnnounceFails, PollFails, scheduler
<1> QED
  BY <1>1, <1>2, <1>3, <1>4 DEF PollNext

LEMMA StepKinds == HandlesInv /\ PassInv /\ PostsOK /\ [PollNext]_pollVars => Steps
<1> SUFFICES ASSUME HandlesInv, PassInv, PostsOK, [PollNext]_pollVars PROVE Steps
  OBVIOUS
<1>1. ASSUME UNCHANGED author,
             UNCHANGED <<settings, run, task, cursor, announced, baseline, lost, excused>>
      PROVE  Steps
  <2>1. Quiet
    BY <1>1, QuietSteps DEF author, PostsOK
  <2> QED
    BY <2>1 DEF Steps
<1>2. CASE Post
  <2>1. posted' = posted + 1 /\ deleted' = deleted
        /\ UNCHANGED <<settings, run, task, cursor, announced, baseline, lost, excused>>
    BY <1>2 DEF Post, scheduler
  <2>2. posted' \in Nat /\ posted' >= posted /\ deleted' \subseteq 1..posted'
    BY <2>1 DEF PostsOK
  <2>3. Quiet
    BY <2>1, <2>2, QuietSteps
  <2> QED
    BY <2>3 DEF Steps
<1>3. CASE Delete
  <2>1. PICK p \in (1..posted) \ deleted : deleted' = deleted \cup {p}
    BY <1>3 DEF Delete
  <2>2. posted' = posted
        /\ UNCHANGED <<settings, run, task, cursor, announced, baseline, lost, excused>>
    BY <1>3 DEF Delete, scheduler
  <2>3. /\ posted' \in Nat /\ posted' >= posted
        /\ deleted \subseteq deleted' /\ deleted' \subseteq 1..posted'
    BY <2>1, <2>2 DEF PostsOK
  <2>4. Quiet
    BY <2>2, <2>3, QuietSteps
  <2> QED
    BY <2>4 DEF Steps
<1>4. CASE ToggleLive
  <2>1. posted' = posted /\ deleted' = deleted
        /\ UNCHANGED <<settings, run, task, cursor, announced, baseline, lost, excused>>
    BY <1>4 DEF ToggleLive, scheduler
  <2>2. posted' \in Nat /\ posted' >= posted /\ deleted' \subseteq 1..posted'
    BY <2>1 DEF PostsOK
  <2>3. Quiet
    BY <2>1, <2>2, QuietSteps
  <2> QED
    BY <2>3 DEF Steps
<1>5. CASE Start
  <2>1. /\ UNCHANGED <<settings, author, task, cursor, announced, baseline, lost>>
        /\ excused' = excused \cup {k \in Keys : Split(k) /\ \E r \in Runs : Unfinished(k, r)}
    BY <1>5 DEF Start
  <2>2. posted' = posted /\ deleted' = deleted /\ posted \in Nat /\ posted >= posted
        /\ deleted \subseteq 1..posted
    BY <2>1 DEF author, PostsOK
  <2>3. Quiet
    BY <2>1, <2>2 DEF Quiet
  <2> QED
    BY <2>3 DEF Steps
<1>6. CASE Crash
  BY <1>6 DEF Steps
<1>7. CASE Stop \/ BeginPass \/ UNCHANGED pollVars
  BY <1>1, <1>7 DEF Stop, BeginPass, pollVars, scheduler
<1>8. ASSUME NEW k \in Keys, SetPaused(k) \/ BecomesDue(k) PROVE Steps
  BY <1>1, <1>8 DEF SetPaused, BecomesDue
<1>9. ASSUME NEW k \in Keys, Visit(k) PROVE Steps
  <2>1. CASE StillWaiting(k) \/ CollectCompleted(k) \/ CollectFailed(k) \/ OutcomeUnknown(k)
             \/ NotDue(k) \/ SubmitFails(k)
    BY <1>1, <2>1
       DEF StillWaiting, CollectCompleted, CollectFailed, OutcomeUnknown, NotDue, SubmitFails
  <2>2. CASE Submit(k)
    <3>1. running /\ run \in Runs
      BY <2>2, PollAssumption DEF Submit, PassInv, HandlesInv, Runs
    <3>2. task[run][k].stage # "stored"
      <4>1. ~Unfinished(k, run)
        BY <2>2, <3>1 DEF Submit, HandlesInv, OnePollPerKey
      <4> QED
        BY <4>1 DEF Unfinished, Settled
    <3>3. Moves(k, run, [stage |-> "queued"])
      BY <2>2, <3>1, <3>2 DEF Submit, Moves, ToStage
    <3> QED
      BY <3>1, <3>3 DEF Steps
  <2> QED
    BY <1>9, <2>1, <2>2 DEF Visit
<1>10. ASSUME NEW k \in Keys, NEW r \in Runs, RunTask(k, r) PROVE Steps
  <2>1. ASSUME NEW record, Moves(k, r, record) PROVE Steps
    BY <2>1 DEF Steps
  <2>2. ASSUME NEW page, Finishes(k, r, page) PROVE Steps
    BY <2>2 DEF Steps
  <2>3. CASE Poll(k, r)
    <3>1. Finishes(k, r, Page(k))
      BY <2>3 DEF Poll, Finishes, Unfinished, Settled, scheduler
    <3> QED
      BY <2>2, <3>1
  <2>4. CASE FinishRead(k, r)
    <3>1. Finishes(k, r, task[r][k].page)
      BY <2>4 DEF FinishRead, Finishes, Unfinished, Settled, scheduler
    <3> QED
      BY <2>2, <3>1
  <2>5. CASE ReadPage(k, r)
    <3>1. Moves(k, r, [stage |-> "read", page |-> Page(k)])
      BY <2>5 DEF ReadPage, Moves, Unfinished, Settled, scheduler
    <3> QED
      BY <2>1, <3>1
  <2>6. CASE RiskControl(k, r)
    <3>1. Moves(k, r, [stage |-> "snapshot"])
      BY <2>6 DEF RiskControl, Moves, Unfinished, Settled, scheduler
    <3> QED
      BY <2>1, <3>1
  <2>7. CASE SnapshotTaken(k, r)
    <3>1. Moves(k, r, [stage |-> "read", page |-> Page(k)])
      BY <2>7 DEF SnapshotTaken, Moves, Unfinished, Settled, scheduler
    <3> QED
      BY <2>1, <3>1
  <2>8. CASE PollFails(k, r)
    <3>1. Moves(k, r, [stage |-> "failed"])
      BY <2>8 DEF PollFails, Moves, Unfinished, Settled, scheduler
    <3> QED
      BY <2>1, <3>1
  <2>9. CASE Announce(k, r) \/ AnnounceFails(k, r)
    BY <2>9 DEF Steps
  <2> QED
    BY <1>10, <2>3, <2>4, <2>5, <2>6, <2>7, <2>8, <2>9 DEF RunTask
<1> QED
  BY <1>2, <1>3, <1>4, <1>5, <1>6, <1>7, <1>8, <1>9, <1>10 DEF PollNext

\* Types, as far as pages and cursors need them: what a task has read is a page of posts
\* that there were, and a key has a first cursor as soon as it has a cursor.
TaskOK(k, t) ==
  /\ t.stage \in {"snapshot", "read"} => Split(k)
  /\ t.stage = "read" => IsPage(t.page) /\ \A i \in 1..Len(t.page) : t.page[i] <= posted
  /\ t.stage = "stored" => t.fresh \in Seq(Nat)

CursorsOK ==
  /\ cursor \in [Keys -> Nat] /\ baseline \in [Keys -> Nat]
  /\ announced \in [Keys -> Seq(Nat)] /\ lost \in [Keys -> SUBSET Nat]

TasksOK == \A r \in Runs, k \in Keys : TaskOK(k, task[r][k])

PollTypeOK ==
  /\ kind \in [Keys -> {"Live", "Dynamic", "Video"}]
  /\ PostsOK /\ CursorsOK /\ TasksOK
  /\ \A k \in Keys : cursor[k] = 0 <=> baseline[k] = 0

BaseInv == HandlesInv /\ PassInv /\ PollTypeOK

LEMMA InitBaseInv == PollInit => BaseInv
<1> SUFFICES ASSUME PollInit PROVE BaseInv
  OBVIOUS
<1>1. HandlesInv
  BY InitHandlesInv
<1>2. PassInv
  BY DEF PollInit, PassInv
<1>3. PostsOK
  BY DEF PollInit, PostsOK
<1>4. CursorsOK /\ \A k \in Keys : cursor[k] = 0 <=> baseline[k] = 0
  <2>1. <<>> \in Seq(Nat)
    OBVIOUS
  <2> QED
    BY <2>1 DEF PollInit, CursorsOK
<1>5. TasksOK
  BY DEF PollInit, TasksOK, TaskOK, NoTask
<1> QED
  BY <1>1, <1>2, <1>3, <1>4, <1>5 DEF BaseInv, PollTypeOK, PollInit

\* One task moves, the others stay.
LEMMA StageFacts ==
  ASSUME TaskTable, NEW k \in Keys, NEW r \in Runs, NEW record, ToStage(k, r, record)
  PROVE  /\ task'[r][k] = record
         /\ \A q \in Runs, j \in Keys : q # r \/ j # k => task'[q][j] = task[q][j]
BY DEF TaskTable, ToStage

\* Every page is one of posts that there are, or of the two states of a live room.
LEMMA PageOK ==
  ASSUME PostsOK, NEW k \in Keys
  PROVE  /\ IsPage(Page(k))
         /\ kind[k] # "Live" => \A i \in 1..Len(Page(k)) : Page(k)[i] <= posted
         /\ kind[k] = "Live" => Len(Page(k)) = 1
<1>1. CASE kind[k] = "Live"
  <2>1. PICK x \in {1, 2} : Page(k) = <<x>>
    BY <1>1 DEF Page
  <2>2. <<x>> \in Seq(Nat \ {0}) /\ Len(<<x>>) = 1
    OBVIOUS
  <2> QED
    BY <1>1, <2>1, <2>2 DEF IsPage, Descending
<1>2. CASE kind[k] # "Live"
  <2> DEFINE S == (1..posted) \ deleted
  <2>1. posted \in Nat /\ S \in SUBSET (1..posted)
    BY DEF PostsOK
  <2>2. Page(k) = FirstPage(S)
    BY <1>2 DEF Page
  <2>3. \A p \in S : p <= posted
    BY <2>1
  <2> HIDE DEF S
  <2>4. IsPage(FirstPage(S)) /\ \A i \in 1..Len(FirstPage(S)) : FirstPage(S)[i] \in S
    BY <2>1, PageFacts
  <2> QED
    BY <1>2, <2>2, <2>3, <2>4
<1> QED
  BY <1>1, <1>2

\* A page that a poll comes to its cursor with.
LEMMA FinishedPage ==
  ASSUME PollTypeOK, NEW k \in Keys, NEW r \in Runs, NEW page, Finishes(k, r, page)
  PROVE  /\ IsPage(page)
         /\ kind[k] # "Live" => \A i \in 1..Len(page) : page[i] <= posted
         /\ kind[k] = "Live" => Len(page) = 1
<1>1. CASE task[r][k].stage = "read" /\ page = task[r][k].page
  <2>1. TaskOK(k, task[r][k])
    BY DEF PollTypeOK, TasksOK
  <2>2. kind[k] = "Dynamic"
    BY <1>1, <2>1 DEF TaskOK, Split
  <2> QED
    BY <1>1, <2>1, <2>2 DEF TaskOK
<1>2. CASE page = Page(k)
  BY <1>2, PageOK DEF PollTypeOK
<1> QED
  BY <1>1, <1>2 DEF Finishes

\* The three ways in which a poll comes to its cursor.
FindsNothing(k, r) ==
  /\ ToStage(k, r, [stage |-> "completed"])
  /\ UNCHANGED <<cursor, baseline, lost, excused>>
FindsHistory(k, r, newest) ==
  /\ cursor[k] = 0
  /\ ToStage(k, r, [stage |-> "completed"])
  /\ cursor' = [cursor EXCEPT ![k] = newest] /\ baseline' = [baseline EXCEPT ![k] = newest]
  /\ UNCHANGED <<lost, excused>>
FindsFresh(k, r, page, fresh) ==
  /\ cursor[k] # 0 /\ fresh = FreshSince(page, cursor[k])
  /\ \/ fresh = <<>> /\ ToStage(k, r, [stage |-> "completed"])
     \/ fresh # <<>> /\ ToStage(k, r, [stage |-> "stored", fresh |-> fresh])
  /\ cursor' = [cursor EXCEPT ![k] = page[1]] /\ baseline' = baseline
  /\ lost' = [lost EXCEPT ![k] = @ \cup ((cursor[k] + 1..page[1]) \ ToSet(page))]
  /\ excused \subseteq excused'
  /\ kind[k] # "Live" /\ cursor[k] \in deleted => k \in excused'

LEMMA FinishKinds ==
  ASSUME PollTypeOK, NEW k \in Keys, NEW r \in Runs, NEW page, Finishes(k, r, page)
  PROVE  \/ FindsNothing(k, r)
         \/ /\ page # <<>> /\ Len(page) >= 1 /\ page[1] \in Nat \ {0}
            /\ \/ FindsHistory(k, r, page[1])
               \/ FindsFresh(k, r, page, FreshSince(page, cursor[k]))
<1>1. FinishPoll(k, r, page)
  BY DEF Finishes
<1>2. CASE page = <<>>
  BY <1>1, <1>2 DEF FinishPoll, FindsNothing
<1>3. CASE page # <<>>
  <2>1. Len(page) >= 1 /\ page[1] \in Nat \ {0}
    <3>1. page \in Seq(Nat \ {0})
      BY FinishedPage DEF IsPage
    <3>2. Len(page) \in Nat /\ Len(page) # 0
      BY <1>3, <3>1
    <3> QED
      BY <3>1, <3>2
  <2>2. CASE cursor[k] = 0
    <3>1. 0 \notin deleted
      BY DEF PollTypeOK, PostsOK
    <3> QED
      BY <1>1, <1>3, <2>1, <2>2, <3>1 DEF FinishPoll, FirstAnnouncesNothing, FindsHistory
  <2>3. CASE cursor[k] # 0
    BY <1>1, <1>3, <2>1, <2>3 DEF FinishPoll, FindsFresh
  <2> QED
    BY <1>3, <2>1, <2>2, <2>3
<1> QED
  BY <1>2, <1>3

\* The step of one task, once it is known what it leaves in that task and in the tables.
LEMMA OneTaskType ==
  ASSUME PollTypeOK, TaskTable, NEW k \in Keys, NEW r \in Runs, NEW record,
         ToStage(k, r, record), UNCHANGED <<settings, author>>,
         TaskOK(k, record), CursorsOK',
         \A j \in Keys : cursor'[j] = 0 <=> baseline'[j] = 0
  PROVE  PollTypeOK'
<1>1. /\ task'[r][k] = record
      /\ \A q \in Runs, j \in Keys : q # r \/ j # k => task'[q][j] = task[q][j]
  BY StageFacts
<1>2. \A j \in Keys : Split(j)' <=> Split(j)
  BY DEF Split, settings
<1>3. UNCHANGED <<kind, posted, deleted>>
  BY DEF settings, author
<1>4. ASSUME NEW q \in Runs, NEW j \in Keys PROVE TaskOK(j, task[q][j])'
  <2>1. TaskOK(j, task'[q][j])
    BY <1>1 DEF PollTypeOK, TasksOK
  <2> QED
    BY <1>2, <1>3, <2>1 DEF TaskOK
<1>5. TasksOK'
  BY <1>4 DEF TasksOK
<1> QED
  BY <1>3, <1>5 DEF PollTypeOK, PostsOK

LEMMA FinishType ==
  ASSUME PollTypeOK, TaskTable, NEW k \in Keys, NEW r \in Runs, NEW page, Finishes(k, r, page)
  PROVE  PollTypeOK'
<1>1. CursorsOK /\ \A j \in Keys : cursor[j] = 0 <=> baseline[j] = 0
  BY DEF PollTypeOK
<1>2. UNCHANGED <<settings, author>> /\ announced' = announced
  BY DEF Finishes
<1>3. TaskOK(k, [stage |-> "completed"])
  BY DEF TaskOK
<1>4. CASE FindsNothing(k, r)
  <2>1. CursorsOK'
    BY <1>1, <1>2, <1>4 DEF CursorsOK, FindsNothing
  <2> QED
    BY <1>1, <1>2, <1>3, <1>4, <2>1, OneTaskType DEF FindsNothing
<1>5. CASE FindsHistory(k, r, page[1]) /\ page[1] \in Nat \ {0}
  <2>1. CursorsOK'
    BY <1>1, <1>2, <1>5 DEF CursorsOK, FindsHistory
  <2>2. \A j \in Keys : cursor'[j] = 0 <=> baseline'[j] = 0
    BY <1>1, <1>5 DEF CursorsOK, FindsHistory
  <2> QED
    BY <1>2, <1>3, <1>5, <2>1, <2>2, OneTaskType DEF FindsHistory
<1>6. CASE FindsFresh(k, r, page, FreshSince(page, cursor[k])) /\ page[1] \in Nat \ {0}
  <2> DEFINE fresh == FreshSince(page, cursor[k])
             passed == (cursor[k] + 1..page[1]) \ ToSet(page)
  <2>1. fresh \in Seq(Nat)
    <3>1. IsPage(page) /\ cursor[k] \in Nat
      BY <1>1, FinishedPage DEF CursorsOK
    <3>2. fresh \in Seq(Nat \ {0})
      BY <3>1, FreshFacts
    <3> QED
      BY <3>2
  <2>2. passed \subseteq Nat
    BY <1>1, <1>6 DEF CursorsOK
  <2>3. /\ lost' = [lost EXCEPT ![k] = @ \cup passed] /\ baseline' = baseline
        /\ cursor' = [cursor EXCEPT ![k] = page[1]] /\ cursor[k] # 0
        /\ \/ ToStage(k, r, [stage |-> "completed"])
           \/ ToStage(k, r, [stage |-> "stored", fresh |-> fresh])
    BY <1>6 DEF FindsFresh
  <2> HIDE DEF fresh, passed
  <2>4. CursorsOK'
    BY <1>1, <1>2, <1>6, <2>2, <2>3 DEF CursorsOK
  <2>5. \A j \in Keys : cursor'[j] = 0 <=> baseline'[j] = 0
    BY <1>1, <1>6, <2>3 DEF CursorsOK
  <2>6. TaskOK(k, [stage |-> "stored", fresh |-> fresh])
    BY <2>1 DEF TaskOK
  <2> QED
    BY <1>2, <1>3, <2>3, <2>4, <2>5, <2>6, OneTaskType
<1> QED
  BY <1>4, <1>5, <1>6, FinishKinds

LEMMA TypeStep == BaseInv /\ Steps => PollTypeOK'
<1> SUFFICES ASSUME BaseInv, Steps PROVE PollTypeOK'
  OBVIOUS
<1>0. /\ PollTypeOK /\ TaskTable /\ CursorsOK /\ PostsOK
      /\ \A j \in Keys : cursor[j] = 0 <=> baseline[j] = 0
  BY DEF BaseInv, HandlesInv, PollTypeOK
<1>1. CASE Quiet
  <2>1. PostsOK' /\ CursorsOK'
    BY <1>0, <1>1 DEF Quiet, PostsOK, CursorsOK
  <2>2. ASSUME NEW q \in Runs, NEW j \in Keys PROVE TaskOK(j, task[q][j])'
    <3>1. TaskOK(j, task[q][j])
      BY <1>0 DEF PollTypeOK, TasksOK
    <3>2. posted \in Nat /\ posted' \in Nat /\ posted' >= posted /\ (Split(j)' <=> Split(j))
          /\ task' = task
      BY <1>0, <1>1 DEF Quiet, PostsOK, settings, Split
    <3>3. ASSUME IsPage(task[q][j].page), NEW i \in 1..Len(task[q][j].page), task[q][j].page[i] <= posted
          PROVE  task[q][j].page[i] <= posted'
      <4>1. task[q][j].page[i] \in Nat
        BY <3>3 DEF IsPage
      <4> QED
        BY <3>2, <3>3, <4>1
    <3> QED
      BY <3>1, <3>2, <3>3 DEF TaskOK
  <2>3. TasksOK'
    BY <2>2 DEF TasksOK
  <2> QED
    BY <1>0, <1>1, <2>1, <2>3 DEF Quiet, settings, PollTypeOK
<1>2. CASE Crash
  <2>1. UNCHANGED <<settings, author, cursor, announced, baseline>>
        /\ task' = [r \in Runs |-> [k \in Keys |-> NoTask]]
    BY <1>2 DEF Crash
  <2>2. TasksOK'
    BY <2>1 DEF TasksOK, TaskOK, NoTask
  <2>3. lost' \in [Keys -> SUBSET Nat]
    <3> DEFINE down(k) == UNION {ToSet(task[r][k].fresh) :
                                   r \in {q \in Runs : task[q][k].stage = "stored"}}
    <3>1. lost' = [k \in Keys |-> lost[k] \cup down(k)]
      BY <1>2 DEF Crash
    <3>2. ASSUME NEW k \in Keys PROVE down(k) \in SUBSET Nat
      <4>1. ASSUME NEW r \in Runs, task[r][k].stage = "stored" PROVE ToSet(task[r][k].fresh) \subseteq Nat
        BY <1>0, <4>1 DEF PollTypeOK, TasksOK, TaskOK, ToSet
      <4> QED
        BY <4>1
    <3> HIDE DEF down
    <3> QED
      BY <1>0, <3>1, <3>2 DEF CursorsOK
  <2> QED
    BY <1>0, <2>1, <2>2, <2>3 DEF settings, author, PollTypeOK, PostsOK, CursorsOK
<1>3. ASSUME NEW k \in Keys, NEW r \in Runs, NEW record, Moves(k, r, record) PROVE PollTypeOK'
  <2>1. UNCHANGED <<settings, author, cursor, announced, baseline, lost>>
        /\ ToStage(k, r, record)
    BY <1>3 DEF Moves
  <2>2. CursorsOK' /\ \A j \in Keys : cursor'[j] = 0 <=> baseline'[j] = 0
    BY <1>0, <2>1 DEF CursorsOK
  <2>3. TaskOK(k, record)
    <3>1. record.stage \in {"snapshot", "read"} => Split(k)
      BY <1>0, <1>3 DEF Moves, PollTypeOK, TasksOK, TaskOK
    <3>2. IsPage(Page(k)) /\ (kind[k] # "Live" => \A i \in 1..Len(Page(k)) : Page(k)[i] <= posted)
      BY <1>0, PageOK
    <3>3. Split(k) => kind[k] # "Live"
      BY DEF Split
    <3> QED
      BY <1>3, <3>1, <3>2, <3>3 DEF Moves, TaskOK
  <2> QED
    BY <1>0, <2>1, <2>2, <2>3, OneTaskType
<1>4. ASSUME NEW k \in Keys, NEW r \in Runs, NEW page, Finishes(k, r, page) PROVE PollTypeOK'
  BY <1>0, <1>4, FinishType
<1>5. ASSUME NEW k \in Keys, NEW r \in Runs, Announce(k, r) \/ AnnounceFails(k, r)
      PROVE  PollTypeOK'
  <2>1. task[r][k].fresh \in Seq(Nat)
    BY <1>0, <1>5 DEF PollTypeOK, TasksOK, TaskOK, Announce, AnnounceFails
  <2>2. ToSet(task[r][k].fresh) \subseteq Nat
    BY <2>1 DEF ToSet
  <2>3. \/ ToStage(k, r, [stage |-> "completed"])
        \/ ToStage(k, r, [stage |-> "failed"])
    BY <1>5 DEF Announce, AnnounceFails
  <2>4. TaskOK(k, [stage |-> "completed"]) /\ TaskOK(k, [stage |-> "failed"])
    BY DEF TaskOK
  <2>5. UNCHANGED <<settings, author, cursor, baseline>>
    BY <1>5 DEF Announce, AnnounceFails
  <2>6. CursorsOK'
    <3>1. ASSUME Announce(k, r) PROVE CursorsOK'
      <4>1. announced' = [announced EXCEPT ![k] = @ \o task[r][k].fresh] /\ lost' = lost
        BY <3>1 DEF Announce
      <4> QED
        BY <1>0, <2>1, <2>5, <4>1 DEF CursorsOK
    <3>2. ASSUME AnnounceFails(k, r) PROVE CursorsOK'
      <4>1. lost' = [lost EXCEPT ![k] = @ \cup ToSet(task[r][k].fresh)] /\ announced' = announced
        BY <3>2 DEF AnnounceFails
      <4> QED
        BY <1>0, <2>2, <2>5, <4>1 DEF CursorsOK
    <3> QED
      BY <1>5, <3>1, <3>2
  <2> QED
    BY <1>0, <2>3, <2>4, <2>5, <2>6, OneTaskType
<1> QED
  BY <1>1, <1>2, <1>3, <1>4, <1>5 DEF Steps

LEMMA NextBaseInv == BaseInv /\ [PollNext]_pollVars => BaseInv' /\ Steps
BY StepKinds, TypeStep, NextHandlesInv, NextPassInv DEF BaseInv, PollTypeOK

-----------------------------------------------------------------------------
(* NothingMissed.                                                          *)

Pending(k, p) == \E r \in Runs : task[r][k].stage = "stored" /\ p \in ToSet(task[r][k].fresh)
Covered(k, p) == p \in ToSet(announced[k]) \cup lost[k] \cup deleted \/ Pending(k, p)

LEMMA ConcatNat ==
  ASSUME NEW s \in Seq(Nat), NEW t \in Seq(Nat)
  PROVE  /\ s \o t \in Seq(Nat) /\ Len(s \o t) = Len(s) + Len(t)
         /\ Len(s) \in Nat /\ Len(t) \in Nat
         /\ \A i \in 1..Len(s) + Len(t) :
              (s \o t)[i] = IF i <= Len(s) THEN s[i] ELSE t[i - Len(s)]
OBVIOUS

LEMMA ConcatHas ==
  ASSUME NEW s \in Seq(Nat), NEW t \in Seq(Nat)
  PROVE  ToSet(s) \subseteq ToSet(s \o t) /\ ToSet(t) \subseteq ToSet(s \o t)
<1>1. PICK u : u = s \o t
  OBVIOUS
<1>2. /\ u \in Seq(Nat) /\ Len(u) = Len(s) + Len(t)
      /\ Len(s) \in Nat /\ Len(t) \in Nat
      /\ DOMAIN u = 1..Len(u) /\ DOMAIN s = 1..Len(s) /\ DOMAIN t = 1..Len(t)
  BY <1>1
<1>3. ASSUME NEW i \in 1..Len(s) PROVE s[i] \in ToSet(u)
  <2>1. i \in 1..Len(u) /\ u[i] = s[i]
    BY <1>1, <1>2
  <2> QED
    BY <1>2, <2>1 DEF ToSet
<1>4. ASSUME NEW i \in 1..Len(t) PROVE t[i] \in ToSet(u)
  <2>1. Len(s) + i \in 1..Len(u) /\ u[Len(s) + i] = t[i]
    BY <1>1, <1>2
  <2> QED
    BY <1>2, <2>1 DEF ToSet
<1>5. ToSet(s) \subseteq ToSet(u) /\ ToSet(t) \subseteq ToSet(u)
  <2>1. ToSet(s) = {s[i] : i \in 1..Len(s)} /\ ToSet(t) = {t[i] : i \in 1..Len(t)}
    BY <1>2 DEF ToSet
  <2> QED
    BY <1>3, <1>4, <2>1
<1> QED
  BY <1>1, <1>5

LEMMA MissedForm ==
  NothingMissed <=> \A k \in Keys : kind[k] # "Live" =>
                      \A p \in baseline[k] + 1..cursor[k] : Covered(k, p)
BY DEF NothingMissed, Covered, Pending

\* What is covered stays covered when a task moves that has stored nothing.
LEMMA CoveredStays ==
  ASSUME TaskTable, NEW k \in Keys, NEW r \in Runs, NEW record, ToStage(k, r, record),
         task[r][k].stage # "stored",
         deleted' = deleted, announced' = announced, \A j \in Keys : lost[j] \subseteq lost'[j],
         NEW j \in Keys, NEW p, Covered(j, p)
  PROVE  Covered(j, p)'
<1>1. /\ task'[r][k] = record
      /\ \A q \in Runs, i \in Keys : q # r \/ i # k => task'[q][i] = task[q][i]
  BY StageFacts
<1>2. Pending(j, p) => Pending(j, p)'
  BY <1>1 DEF Pending
<1> QED
  BY <1>2 DEF Covered

\* The new cursor of a poll that found something fresh: whatever it passed over is on the
\* page and fresh, or is written down as lost.
LEMMA FreshCovers ==
  ASSUME BaseInv, NEW k \in Keys, NEW r \in Runs, NEW page, Finishes(k, r, page),
         page[1] \in Nat, FindsFresh(k, r, page, FreshSince(page, cursor[k])),
         NEW p \in cursor[k] + 1..page[1]
  PROVE  Covered(k, p)'
<1> DEFINE fresh == FreshSince(page, cursor[k])
<1>0. /\ PollTypeOK /\ TaskTable /\ cursor[k] \in Nat /\ lost \in [Keys -> SUBSET Nat]
      /\ p \in Nat /\ p > cursor[k]
  BY DEF BaseInv, HandlesInv, PollTypeOK, CursorsOK
<1>1. IsPage(page) /\ DOMAIN page = 1..Len(page)
  BY <1>0, FinishedPage DEF IsPage
<1>2. CASE p \notin ToSet(page)
  <2>1. p \in lost'[k]
    BY <1>0, <1>2 DEF FindsFresh
  <2> QED
    BY <2>1 DEF Covered
<1>3. CASE p \in ToSet(page)
  <2>1. PICK j \in 1..Len(page) : p = page[j]
    BY <1>1, <1>3 DEF ToSet
  <2>2. /\ fresh \in Seq(Nat \ {0})
        /\ \E i \in 1..Len(fresh) : fresh[i] = page[j]
    <3>1. page[j] > cursor[k]
      BY <1>0, <2>1
    <3>2. /\ fresh \in Seq(Nat \ {0})
          /\ \A l \in 1..Len(page) : page[l] > cursor[k] => \E i \in 1..Len(fresh) : fresh[i] = page[l]
      BY <1>0, <1>1, FreshFacts
    <3> HIDE DEF fresh
    <3> QED
      BY <3>1, <3>2
  <2> HIDE DEF fresh
  <2>3. fresh # <<>> /\ p \in ToSet(fresh)
    BY <2>1, <2>2 DEF ToSet
  <2>4. ToStage(k, r, [stage |-> "stored", fresh |-> fresh])
    BY <2>3 DEF FindsFresh, fresh
  <2>5. task'[r][k] = [stage |-> "stored", fresh |-> fresh]
    BY <1>0, <2>4, StageFacts
  <2>6. Pending(k, p)'
    BY <2>3, <2>5 DEF Pending
  <2> QED
    BY <2>6 DEF Covered
<1> QED
  BY <1>2, <1>3

LEMMA FinishMissed ==
  ASSUME BaseInv, NothingMissed,
         NEW k \in Keys, NEW r \in Runs, NEW page, Finishes(k, r, page)
  PROVE  NothingMissed'
<1>0. /\ PollTypeOK /\ TaskTable /\ CursorsOK /\ task[r][k].stage # "stored"
      /\ UNCHANGED <<settings, deleted, announced>> /\ UNCHANGED kind
  BY DEF BaseInv, HandlesInv, PollTypeOK, Finishes, author, settings
<1>1. \A j \in Keys : kind[j] # "Live" => \A p \in baseline[j] + 1..cursor[j] : Covered(j, p)
  BY MissedForm
<1> SUFFICES ASSUME NEW j \in Keys, kind'[j] # "Live", NEW p \in baseline'[j] + 1..cursor'[j]
             PROVE  Covered(j, p)'
  BY DEF NothingMissed, Covered, Pending
<1>2. CASE FindsNothing(k, r)
  <2>1. p \in baseline[j] + 1..cursor[j] /\ \A i \in Keys : lost[i] \subseteq lost'[i]
    BY <1>2 DEF FindsNothing
  <2> QED
    BY <1>0, <1>1, <1>2, <2>1, CoveredStays DEF FindsNothing
<1>3. CASE FindsHistory(k, r, page[1]) /\ page[1] \in Nat \ {0}
  <2>1. j # k
    BY <1>0, <1>3 DEF FindsHistory, CursorsOK
  <2>2. p \in baseline[j] + 1..cursor[j] /\ \A i \in Keys : lost[i] \subseteq lost'[i]
    BY <1>0, <1>3, <2>1 DEF FindsHistory, CursorsOK
  <2> QED
    BY <1>0, <1>1, <1>3, <2>2, CoveredStays DEF FindsHistory
<1>4. CASE FindsFresh(k, r, page, FreshSince(page, cursor[k])) /\ page[1] \in Nat \ {0}
  <2>1. \A i \in Keys : lost[i] \subseteq lost'[i]
    BY <1>0, <1>4 DEF FindsFresh, CursorsOK
  <2>2. \E record : ToStage(k, r, record)
    BY <1>4 DEF FindsFresh
  <2>3. ASSUME p \in baseline[j] + 1..cursor[j] PROVE Covered(j, p)'
    <3>1. Covered(j, p)
      BY <1>0, <1>1, <2>3
    <3> QED
      BY <1>0, <2>1, <2>2, <3>1, CoveredStays
  <2>4. baseline'[j] = baseline[j] /\ (j # k => cursor'[j] = cursor[j]) /\ cursor'[k] = page[1]
        /\ cursor[j] \in Nat /\ baseline[j] \in Nat
    BY <1>0, <1>4 DEF FindsFresh, CursorsOK
  <2>5. CASE p > cursor[j]
    <3>1. j = k /\ p \in cursor[k] + 1..page[1]
      BY <1>4, <2>4, <2>5
    <3> QED
      BY <1>4, <3>1, FreshCovers
  <2>6. CASE ~(p > cursor[j])
    BY <2>3, <2>4, <2>6
  <2> QED
    BY <2>5, <2>6
<1> QED
  BY <1>0, <1>2, <1>3, <1>4, FinishKinds

LEMMA MissedStep == BaseInv /\ NothingMissed /\ Steps => NothingMissed'
<1> SUFFICES ASSUME BaseInv, NothingMissed, Steps PROVE NothingMissed'
  OBVIOUS
<1>0. /\ PollTypeOK /\ TaskTable /\ CursorsOK
      /\ \A j \in Keys : kind[j] # "Live" => \A p \in baseline[j] + 1..cursor[j] : Covered(j, p)
  BY MissedForm DEF BaseInv, HandlesInv, PollTypeOK
<1>1. ASSUME UNCHANGED <<kind, cursor, baseline>>,
             \A j \in Keys : \A p : Covered(j, p) => Covered(j, p)'
      PROVE  NothingMissed'
  <2>1. ASSUME NEW j \in Keys, kind'[j] # "Live", NEW p \in baseline'[j] + 1..cursor'[j]
        PROVE  Covered(j, p)'
    BY <1>0, <1>1, <2>1
  <2> QED
    BY <2>1 DEF NothingMissed, Covered, Pending
<1>2. CASE Quiet
  BY <1>1, <1>2 DEF Quiet, settings, Covered, Pending
<1>3. CASE Crash
  <2>1. UNCHANGED <<kind, cursor, baseline, deleted, announced>>
    BY <1>3 DEF Crash, settings, author
  <2>2. ASSUME NEW j \in Keys, NEW p, Covered(j, p) PROVE Covered(j, p)'
    <3>1. lost'[j] = lost[j] \cup
            UNION {ToSet(task[r][j].fresh) : r \in {q \in Runs : task[q][j].stage = "stored"}}
      BY <1>3 DEF Crash
    <3>2. Pending(j, p) => p \in lost'[j]
      BY <3>1 DEF Pending
    <3>3. lost[j] \subseteq lost'[j]
      BY <3>1
    <3> QED
      BY <2>1, <2>2, <3>2, <3>3 DEF Covered
  <2> QED
    BY <1>1, <2>1, <2>2
<1>4. ASSUME NEW k \in Keys, NEW r \in Runs, NEW record, Moves(k, r, record)
      PROVE  NothingMissed'
  <2>1. UNCHANGED <<kind, cursor, baseline, deleted, announced, lost>>
        /\ ToStage(k, r, record) /\ task[r][k].stage # "stored"
    BY <1>4 DEF Moves, settings, author
  <2>2. \A j \in Keys : \A p : Covered(j, p) => Covered(j, p)'
    BY <1>0, <2>1, CoveredStays
  <2> QED
    BY <1>1, <2>1, <2>2
<1>5. ASSUME NEW k \in Keys, NEW r \in Runs, NEW page, Finishes(k, r, page)
      PROVE  NothingMissed'
  BY <1>5, FinishMissed
<1>6. ASSUME NEW k \in Keys, NEW r \in Runs, Announce(k, r) \/ AnnounceFails(k, r)
      PROVE  NothingMissed'
  <2>1. UNCHANGED <<kind, cursor, baseline, deleted>>
    BY <1>6 DEF Announce, AnnounceFails, settings, author
  <2>2. \E record : ToStage(k, r, record)
    BY <1>6 DEF Announce, AnnounceFails
  <2>3. \A q \in Runs, j \in Keys : q # r \/ j # k => task'[q][j] = task[q][j]
    BY <1>0, <2>2, StageFacts
  <2> DEFINE fresh == task[r][k].fresh
  <2>4. /\ \A j \in Keys : ToSet(announced[j]) \cup lost[j] \subseteq ToSet(announced'[j]) \cup lost'[j]
        /\ ToSet(fresh) \subseteq ToSet(announced'[k]) \cup lost'[k]
    <3>1. CASE Announce(k, r)
      <4>1. announced' = [announced EXCEPT ![k] = @ \o fresh] /\ lost' = lost
        BY <3>1 DEF Announce
      <4>2. fresh \in Seq(Nat) /\ announced[k] \in Seq(Nat)
        BY <1>0, <3>1 DEF Announce, PollTypeOK, TasksOK, TaskOK, CursorsOK
      <4> HIDE DEF fresh
      <4>3. ToSet(announced[k]) \subseteq ToSet(announced[k] \o fresh)
            /\ ToSet(fresh) \subseteq ToSet(announced[k] \o fresh)
        BY <4>2, ConcatHas
      <4> QED
        BY <1>0, <4>1, <4>3 DEF CursorsOK
    <3>2. CASE AnnounceFails(k, r)
      BY <1>0, <3>2 DEF AnnounceFails, CursorsOK
    <3> QED
      BY <1>6, <3>1, <3>2
  <2> HIDE DEF fresh
  <2>5. ASSUME NEW j \in Keys, NEW p, Covered(j, p) PROVE Covered(j, p)'
    <3>1. CASE p \in ToSet(announced[j]) \cup lost[j] \cup deleted
      BY <2>1, <2>4, <3>1 DEF Covered
    <3>2. CASE Pending(j, p)
      <4>1. PICK q \in Runs : task[q][j].stage = "stored" /\ p \in ToSet(task[q][j].fresh)
        BY <3>2 DEF Pending
      <4>2. CASE q = r /\ j = k
        BY <2>4, <4>1, <4>2 DEF Covered, fresh
      <4>3. CASE q # r \/ j # k
        BY <2>3, <4>1, <4>3 DEF Covered, Pending
      <4> QED
        BY <4>2, <4>3
    <3> QED
      BY <2>5, <3>1, <3>2 DEF Covered
  <2> QED
    BY <1>1, <2>1, <2>5
<1> QED
  BY <1>2, <1>3, <1>4, <1>5, <1>6 DEF Steps

\* However polls overlap, fail, die with the process or are read late, each post between
\* the first cursor of a key and its present one was announced, is about to be, was
\* deleted, or belongs to those that finish_poll passed over or lost with their poll.
THEOREM NothingIsMissed == PollSpec => []NothingMissed
<1>1. PollInit => NothingMissed
  <2> SUFFICES ASSUME PollInit, NEW k \in Keys, NEW p \in baseline[k] + 1..cursor[k] PROVE FALSE
    BY DEF NothingMissed
  <2>1. baseline[k] = 0 /\ cursor[k] = 0
    BY DEF PollInit
  <2> QED
    BY <2>1
<1>2. BaseInv /\ NothingMissed /\ [PollNext]_pollVars => BaseInv' /\ NothingMissed'
  BY NextBaseInv, MissedStep
<1> QED
  BY <1>1, <1>2, InitBaseInv, PTL DEF PollSpec

-----------------------------------------------------------------------------
(* OnlyNews.                                                               *)

Stored(k) == {r \in Runs : task[r][k].stage = "stored"}
Pendings(k) == {task[r][k].fresh : r \in Stored(k)}
History(k) == <<baseline[k]>> \o announced[k]

\* A page that was read while the post at the cursor c was there.
Reaches(page, c) ==
  \/ \E i \in 1..Len(page) : page[i] = c
  \/ \A i \in 1..Len(page) : page[i] > c
ReadOK(k, t) == t.stage = "read" => cursor[k] = 0 \/ cursor[k] \in deleted \/ Reaches(t.page, cursor[k])

\* What was announced goes up, is no newer than the cursor c and older than what is
\* still to be announced (posts) ...
GoesUp(all, c, pending) ==
  /\ Ascending(all) /\ \A i \in 1..Len(all) : all[i] <= c
  /\ \A f \in pending :
       /\ Ascending(f)
       /\ \A i \in 1..Len(f) : f[i] <= c /\ \A j \in 1..Len(all) : all[j] < f[i]

\* ... or alternates and ends in the cursor (a live room).
Alternates(all, c, pending) ==
  /\ \A i \in 1..Len(all) - 1 : all[i] # all[i + 1]
  /\ pending = {} => all[Len(all)] = c
  /\ \A f \in pending : f = <<c>> /\ all[Len(all)] # c

KeyOK(k) ==
  /\ \A r, q \in Stored(k) : r = q
  /\ cursor[k] = 0 => announced[k] = <<>> /\ Stored(k) = {}
  /\ kind[k] # "Live" => cursor[k] <= posted
  /\ k \notin excused =>
       /\ Split(k) => \A q \in Runs : q # run => ~Unfinished(k, q)
       /\ \A r \in Runs : ReadOK(k, task[r][k])
       /\ kind[k] = "Live" /\ lost[k] = {} => Alternates(History(k), cursor[k], Pendings(k))
       /\ kind[k] # "Live" => GoesUp(History(k), cursor[k], Pendings(k))

NewsInv == \A k \in Keys : KeyOK(k)

LEMMA HistoryFacts ==
  ASSUME NEW b \in Nat, NEW s \in Seq(Nat)
  PROVE  LET all == <<b>> \o s IN
         /\ all \in Seq(Nat) /\ Len(all) = Len(s) + 1 /\ Len(s) \in Nat
         /\ \A i \in 1..Len(all) : all[i] \in Nat /\ all[i] = IF i = 1 THEN b ELSE s[i - 1]
<1>1. PICK one : one = <<b>>
  OBVIOUS
<1>2. one \in Seq(Nat) /\ Len(one) = 1 /\ one[1] = b
  BY <1>1
<1>3. PICK all : all = one \o s
  OBVIOUS
<1>4. /\ all \in Seq(Nat) /\ Len(all) = Len(one) + Len(s) /\ Len(s) \in Nat
      /\ \A i \in 1..Len(one) + Len(s) : all[i] = IF i <= Len(one) THEN one[i] ELSE s[i - Len(one)]
  <2>1. one \in Seq(Nat)
    BY <1>2
  <2> QED
    BY <1>3, <2>1, ConcatNat
<1>5. ASSUME NEW i \in 1..Len(all) PROVE all[i] \in Nat /\ all[i] = IF i = 1 THEN b ELSE s[i - 1]
  <2>1. all[i] = IF i <= 1 THEN one[i] ELSE s[i - 1]
    BY <1>2, <1>4
  <2>2. all[i] \in Nat /\ i \in Nat /\ i >= 1
    BY <1>4
  <2> QED
    BY <1>2, <2>1, <2>2
<1>6. Len(all) = Len(s) + 1
  BY <1>2, <1>4
<1> QED
  BY <1>1, <1>3, <1>4, <1>5, <1>6

LEMMA NewsFromInv == BaseInv /\ NewsInv => OnlyNews
<1> SUFFICES ASSUME BaseInv, NewsInv, NEW k \in Keys, k \notin excused PROVE InOrder(k)
  BY DEF OnlyNews
<1>1. KeyOK(k) /\ baseline[k] \in Nat /\ announced[k] \in Seq(Nat)
  BY DEF NewsInv, BaseInv, PollTypeOK, CursorsOK
<1>2. PICK all : all = <<baseline[k]>> \o announced[k]
  OBVIOUS
<1>3. all \in Seq(Nat) /\ all = History(k) /\ Len(all) \in Nat
  BY <1>1, <1>2, HistoryFacts DEF History
<1>4. ASSUME kind[k] # "Live", NEW i \in 1..Len(all) - 1 PROVE all[i] < all[i + 1]
  <2>1. i \in 1..Len(all) /\ i + 1 \in 1..Len(all) /\ i < i + 1
    BY <1>3
  <2> QED
    BY <1>1, <1>3, <1>4, <2>1 DEF KeyOK, GoesUp, Ascending
<1>5. ASSUME kind[k] = "Live", lost[k] = {}, NEW i \in 1..Len(all) - 1 PROVE all[i] # all[i + 1]
  BY <1>1, <1>3, <1>5 DEF KeyOK, Alternates
<1> QED
  BY <1>2, <1>4, <1>5 DEF InOrder

LEMMA InitNewsInv == PollInit => NewsInv
<1> SUFFICES ASSUME PollInit, NEW k \in Keys PROVE KeyOK(k)
  BY DEF NewsInv
<1>1. /\ cursor[k] = 0 /\ baseline[k] = 0 /\ announced[k] = <<>> /\ lost[k] = {}
      /\ \A r \in Runs : task[r][k].stage = "none"
      /\ posted \in Nat
  BY DEF PollInit, NoTask
<1>2. Stored(k) = {} /\ Pendings(k) = {}
  BY <1>1 DEF Stored, Pendings
<1>3. PICK all : all = History(k)
  OBVIOUS
<1>4. all = <<0>>
  <2>1. <<0>> \o <<>> = <<0>>
    OBVIOUS
  <2> QED
    BY <1>1, <1>3, <2>1 DEF History
<1>5. GoesUp(all, 0, {}) /\ Alternates(all, 0, {})
  <2>1. Len(all) = 1 /\ all[1] = 0
    BY <1>4
  <2> QED
    BY <2>1 DEF GoesUp, Ascending, Alternates
<1>6. \A r \in Runs : ReadOK(k, task[r][k]) /\ ~Unfinished(k, r)
  BY <1>1 DEF ReadOK, Unfinished, Settled
<1>7. 0 <= posted
  BY <1>1
<1> QED
  BY <1>1, <1>2, <1>3, <1>5, <1>6, <1>7 DEF KeyOK

\* A step that does nothing to a key.
LEMMA KeyStays ==
  ASSUME NEW k \in Keys, KeyOK(k), BaseInv, posted' \in Nat, posted' >= posted,
         deleted \subseteq deleted', excused \subseteq excused', UNCHANGED settings,
         cursor'[k] = cursor[k], announced'[k] = announced[k],
         baseline'[k] = baseline[k], lost'[k] = lost[k],
         \A r \in Runs : task'[r][k] = task[r][k],
         run' # run => (Split(k) /\ (\E r \in Runs : Unfinished(k, r)) => k \in excused')
  PROVE  KeyOK(k)'
<1>1. UNCHANGED <<kind, fallback>> /\ (Split(k)' <=> Split(k)) /\ kind'[k] = kind[k]
  BY DEF settings, Split
<1>2. Stored(k)' = Stored(k) /\ Pendings(k)' = Pendings(k) /\ History(k)' = History(k)
      /\ \A q \in Runs : Unfinished(k, q)' <=> Unfinished(k, q)
  BY DEF Stored, Pendings, History, Unfinished
<1>3. posted \in Nat /\ cursor[k] \in Nat
  BY DEF BaseInv, PollTypeOK, PostsOK, CursorsOK
<1>4. kind[k] # "Live" => cursor'[k] <= posted'
  BY <1>3 DEF KeyOK
<1>5. ASSUME NEW r \in Runs, ReadOK(k, task[r][k]) PROVE ReadOK(k, task[r][k])'
  <2>1. ReadOK(k, task'[r][k]) 
    BY <1>5
  <2> QED
    BY <2>1 DEF ReadOK
<1>6. ASSUME k \notin excused', Split(k) PROVE \A q \in Runs : q # run' => ~Unfinished(k, q)
  BY <1>6 DEF KeyOK
<1> QED
  BY <1>1, <1>2, <1>4, <1>5, <1>6 DEF KeyOK

LEMMA OtherKeysStay ==
  ASSUME BaseInv, NewsInv, NEW k \in Keys, NEW r \in Runs,
         \E record : ToStage(k, r, record),
         UNCHANGED <<settings, posted, deleted, run>>, excused \subseteq excused',
         \A j \in Keys : j # k => /\ cursor'[j] = cursor[j] /\ announced'[j] = announced[j]
                                  /\ baseline'[j] = baseline[j] /\ lost'[j] = lost[j],
         KeyOK(k)'
  PROVE  NewsInv'
<1>1. TaskTable /\ posted \in Nat
  BY DEF BaseInv, HandlesInv, PollTypeOK, PostsOK
<1>2. \A q \in Runs, j \in Keys : q # r \/ j # k => task'[q][j] = task[q][j]
  BY <1>1, StageFacts
<1>3. ASSUME NEW j \in Keys, j # k PROVE KeyOK(j)'
  <2>1. KeyOK(j) /\ posted' \in Nat /\ posted' >= posted /\ deleted \subseteq deleted'
        /\ \A q \in Runs : task'[q][j] = task[q][j]
    BY <1>1, <1>2, <1>3 DEF NewsInv
  <2> QED
    BY <1>3, <2>1, KeyStays
<1> QED
  BY <1>3 DEF NewsInv

\* What a step of one task does to its key, when neither its old nor its new stage is "stored".
LEMMA PendingStay ==
  ASSUME BaseInv, NEW k \in Keys, NEW r \in Runs, NEW record, ToStage(k, r, record),
         task[r][k].stage # "stored", record.stage # "stored"
  PROVE  Stored(k)' = Stored(k) /\ Pendings(k)' = Pendings(k)
<1>1. /\ task'[r][k] = record
      /\ \A q \in Runs : q # r => task'[q][k] = task[q][k]
  BY StageFacts DEF BaseInv, HandlesInv
<1>2. Stored(k)' = Stored(k)
  BY <1>1 DEF Stored
<1>3. \A q \in Stored(k) : task'[q][k] = task[q][k]
  BY <1>1 DEF Stored
<1> QED
  BY <1>2, <1>3 DEF Pendings

\* A key has at most one task under way that reads and finishes apart, unless it is excused.
LEMMA AloneStays ==
  ASSUME BaseInv, NEW k \in Keys, KeyOK(k), k \notin excused, Split(k),
         NEW r \in Runs, NEW record, ToStage(k, r, record), Unfinished(k, r) \/ r = run,
         run' = run
  PROVE  \A q \in Runs : q # run' => ~Unfinished(k, q)'
<1>1. \A q \in Runs : q # r => task'[q][k] = task[q][k]
  BY StageFacts DEF BaseInv, HandlesInv
<1>2. r = run /\ \A q \in Runs : q # run => ~Unfinished(k, q)
  BY DEF KeyOK
<1> QED
  BY <1>1, <1>2 DEF Unfinished

LEMMA KeyMoves ==
  ASSUME BaseInv, NEW k \in Keys, KeyOK(k), NEW r \in Runs, NEW record,
         ToStage(k, r, record), Unfinished(k, r) \/ r = run,
         task[r][k].stage # "stored", record.stage # "stored",
         k \notin excused => ReadOK(k, record),
         UNCHANGED <<settings, posted, deleted, run, cursor, announced, baseline, lost, excused>>
  PROVE  KeyOK(k)'
<1>1. UNCHANGED <<kind, fallback, posted, deleted, run, cursor, announced, baseline, lost, excused>>
      /\ (Split(k)' <=> Split(k))
  BY DEF settings, Split
<1>2. Stored(k)' = Stored(k) /\ Pendings(k)' = Pendings(k) /\ History(k)' = History(k)
  BY <1>1, PendingStay DEF History
<1>3. k \notin excused /\ Split(k) => \A q \in Runs : q # run' => ~Unfinished(k, q)'
  BY <1>1, AloneStays
<1>4. ASSUME k \notin excused, NEW q \in Runs PROVE ReadOK(k, task[q][k])'
  <2>1. task'[q][k] = IF q = r THEN record ELSE task[q][k]
    BY StageFacts DEF BaseInv, HandlesInv
  <2>2. ReadOK(k, task'[q][k])
    BY <1>4, <2>1 DEF KeyOK
  <2> QED
    BY <1>1, <2>2 DEF ReadOK
<1> QED
  BY <1>1, <1>2, <1>3, <1>4 DEF KeyOK

\* A page of the posts that are there reaches back to the cursor, unless that post is gone.
LEMMA PageReaches ==
  ASSUME BaseInv, NEW k \in Keys, KeyOK(k), kind[k] # "Live"
  PROVE  cursor[k] = 0 \/ cursor[k] \in deleted \/ Reaches(Page(k), cursor[k])
<1> SUFFICES ASSUME cursor[k] # 0, cursor[k] \notin deleted PROVE Reaches(Page(k), cursor[k])
  OBVIOUS
<1> DEFINE S == (1..posted) \ deleted
<1>1. posted \in Nat /\ S \in SUBSET (1..posted) /\ cursor[k] \in Nat
  BY DEF BaseInv, PollTypeOK, PostsOK, CursorsOK
<1>2. cursor[k] \in S
  BY <1>1 DEF KeyOK
<1>3. Page(k) = FirstPage(S)
  BY DEF Page
<1> HIDE DEF S
<1> QED
  BY <1>1, <1>2, <1>3, PageFacts DEF Reaches

LEMMA MoveNews ==
  ASSUME BaseInv, NewsInv, NEW k \in Keys, NEW r \in Runs, NEW record, Moves(k, r, record)
  PROVE  NewsInv'
<1>1. KeyOK(k)
  BY DEF NewsInv
<1>2. ReadOK(k, record)
  <2>1. record.stage = "read" => Split(k) /\ record.page = Page(k)
    BY DEF Moves, BaseInv, PollTypeOK, TasksOK, TaskOK
  <2>2. Split(k) => kind[k] # "Live"
    BY DEF Split
  <2> QED
    BY <1>1, <2>1, <2>2, PageReaches DEF ReadOK
<1>3. /\ ToStage(k, r, record) /\ (Unfinished(k, r) \/ r = run)
      /\ task[r][k].stage # "stored" /\ record.stage # "stored"
      /\ UNCHANGED <<settings, posted, deleted, run, cursor, announced, baseline, lost, excused>>
  BY DEF Moves, author
<1>4. KeyOK(k)'
  BY <1>1, <1>2, <1>3, KeyMoves
<1> QED
  BY <1>3, <1>4, OtherKeysStay

\* The first poll of a key: nothing was announced before it.
LEMMA HistoryNews ==
  ASSUME BaseInv, NewsInv, NEW k \in Keys, NEW r \in Runs, NEW page, Finishes(k, r, page),
         NEW newest \in Nat \ {0}, FindsHistory(k, r, newest), kind[k] # "Live" => newest <= posted
  PROVE  NewsInv'
<1>1. /\ KeyOK(k) /\ cursor[k] = 0 /\ ToStage(k, r, [stage |-> "completed"])
      /\ cursor' = [cursor EXCEPT ![k] = newest] /\ baseline' = [baseline EXCEPT ![k] = newest]
      /\ UNCHANGED <<settings, posted, deleted, run, announced, lost, excused>>
      /\ Unfinished(k, r) /\ task[r][k].stage # "stored"
      /\ cursor \in [Keys -> Nat] /\ baseline \in [Keys -> Nat] /\ announced \in [Keys -> Seq(Nat)]
  BY DEF NewsInv, FindsHistory, Finishes, author, BaseInv, PollTypeOK, CursorsOK
<1>2. UNCHANGED <<kind, fallback>> /\ (Split(k)' <=> Split(k))
  BY <1>1 DEF settings, Split
<1>3. announced'[k] = <<>> /\ cursor'[k] = newest /\ baseline'[k] = newest /\ Stored(k) = {}
  BY <1>1 DEF KeyOK
<1>4. Stored(k)' = {} /\ Pendings(k)' = {}
  <2>1. Stored(k)' = Stored(k)
    BY <1>1, PendingStay
  <2> QED
    BY <1>3, <2>1 DEF Pendings
<1>5. PICK all : all = History(k)'
  OBVIOUS
<1>6. Len(all) = 1 /\ all[1] = newest
  <2>1. <<newest>> \o <<>> = <<newest>>
    OBVIOUS
  <2>2. all = <<newest>>
    BY <1>3, <1>5, <2>1 DEF History
  <2> QED
    BY <2>2
<1>7. GoesUp(all, newest, {}) /\ Alternates(all, newest, {})
  BY <1>6 DEF GoesUp, Ascending, Alternates
<1>8. k \notin excused /\ Split(k) => \A q \in Runs : q # run' => ~Unfinished(k, q)'
  BY <1>1, AloneStays
<1>9. ASSUME k \notin excused, NEW q \in Runs PROVE ReadOK(k, task[q][k])'
  <2>1. task'[q][k] = IF q = r THEN [stage |-> "completed"] ELSE task[q][k]
    BY <1>1, StageFacts DEF BaseInv, HandlesInv
  <2>2. task'[q][k].stage # "read"
    <3> SUFFICES ASSUME q # r, task[q][k].stage = "read" PROVE FALSE
      BY <2>1
    <3>1. Split(k) /\ Unfinished(k, q)
      BY DEF BaseInv, PollTypeOK, TasksOK, TaskOK, Unfinished, Settled
    <3> QED
      BY <1>1, <1>9, <3>1 DEF KeyOK
  <2> QED
    BY <2>2 DEF ReadOK
<1>10. KeyOK(k)'
  BY <1>1, <1>2, <1>3, <1>4, <1>5, <1>7, <1>8, <1>9 DEF KeyOK
<1> QED
  BY <1>1, <1>10, OtherKeysStay

\* A later poll of a key.
LEMMA PageHasReached ==
  ASSUME BaseInv, NEW k \in Keys, KeyOK(k), k \notin excused, kind[k] # "Live",
         NEW r \in Runs, NEW page, Finishes(k, r, page)
  PROVE  cursor[k] = 0 \/ cursor[k] \in deleted \/ Reaches(page, cursor[k])
<1>1. CASE task[r][k].stage = "read" /\ page = task[r][k].page
  BY <1>1 DEF KeyOK, ReadOK
<1>2. CASE page = Page(k)
  BY <1>2, PageReaches
<1> QED
  BY <1>1, <1>2 DEF Finishes

LEMMA FreshGoesUp ==
  ASSUME NEW c \in Nat, NEW page, IsPage(page), Len(page) >= 1, Reaches(page, c),
         NEW all \in Seq(Nat), GoesUp(all, c, {})
  PROVE  /\ GoesUp(all, page[1], {})
         /\ GoesUp(all, page[1], {FreshSince(page, c)})
<1> DEFINE fresh == FreshSince(page, c)
<1>1. /\ Len(page) \in Nat /\ \A i \in 1..Len(page) : page[i] \in Nat /\ page[i] <= page[1]
  <2>1. page \in Seq(Nat \ {0}) /\ Descending(page)
    BY DEF IsPage
  <2>2. Len(page) \in Nat /\ \A i \in 1..Len(page) : page[i] \in Nat
    BY <2>1
  <2>3. ASSUME NEW i \in 1..Len(page), i # 1 PROVE page[1] > page[i]
    BY <2>1, <2>2, <2>3 DEF Descending
  <2>4. 1 \in 1..Len(page)
    BY <2>2
  <2>5. ASSUME NEW i \in 1..Len(page) PROVE page[i] <= page[1]
    BY <2>2, <2>3, <2>4
  <2> QED
    BY <2>2, <2>5
<1>2. c <= page[1] /\ page[1] \in Nat
  <2>1. 1 \in 1..Len(page)
    BY <1>1
  <2> QED
    BY <1>1, <2>1 DEF Reaches
<1>3. /\ fresh \in Seq(Nat \ {0}) /\ Ascending(fresh)
      /\ \A i \in 1..Len(fresh) : \E j \in 1..Len(page) :
              /\ fresh[i] = page[j] /\ page[j] # c
              /\ \A l \in 1..Len(page) : page[l] = c => page[j] > c
  BY FreshFacts
<1> HIDE DEF fresh
<1>4. ASSUME NEW i \in 1..Len(fresh) PROVE fresh[i] \in Nat /\ fresh[i] > c /\ fresh[i] <= page[1]
  <2>1. PICK j \in 1..Len(page) :
              /\ fresh[i] = page[j] /\ page[j] # c
              /\ \A l \in 1..Len(page) : page[l] = c => page[j] > c
    BY <1>3
  <2>2. page[j] > c
    BY <2>1 DEF Reaches
  <2> QED
    BY <1>1, <2>1, <2>2
<1>5. ASSUME NEW i \in 1..Len(all) PROVE all[i] \in Nat /\ all[i] <= c /\ all[i] <= page[1]
  BY <1>2 DEF GoesUp
<1>6. ASSUME NEW i \in 1..Len(fresh), NEW j \in 1..Len(all) PROVE all[j] < fresh[i]
  BY <1>4, <1>5
<1>7. Ascending(all)
  BY DEF GoesUp
<1> QED
  BY <1>3, <1>4, <1>5, <1>6, <1>7 DEF GoesUp, fresh

LEMMA FreshAlternates ==
  ASSUME NEW c \in Nat, NEW page, IsPage(page), Len(page) = 1,
         NEW all, Alternates(all, c, {})
  PROVE  LET fresh == FreshSince(page, c)
         IN  Alternates(all, page[1], IF fresh = <<>> THEN {} ELSE {fresh})
<1> DEFINE fresh == FreshSince(page, c)
<1>1. fresh = IF page[1] = c THEN <<>> ELSE page
  BY FreshFacts
<1>2. page # <<>> /\ page = <<page[1]>>
  BY DEF IsPage
<1> HIDE DEF fresh
<1>3. CASE page[1] = c
  BY <1>1, <1>3 DEF fresh
<1>4. CASE page[1] # c
  <2>1. fresh = <<page[1]>> /\ fresh # <<>> /\ all[Len(all)] # page[1]
    BY <1>1, <1>2, <1>4 DEF Alternates
  <2>2. Alternates(all, page[1], {fresh})
    BY <2>1 DEF Alternates
  <2> QED
    BY <2>1, <2>2 DEF fresh
<1> QED
  BY <1>3, <1>4

\* What is pending after a poll that found something: just that, since the runner was free.
LEMMA FreshPending ==
  ASSUME BaseInv, NEW k \in Keys, NEW r \in Runs, NEW page, Finishes(k, r, page),
         NEW fresh, FindsFresh(k, r, page, fresh)
  PROVE  /\ Stored(k) = {} /\ Pendings(k) = {}
         /\ \A q, s \in Stored(k)' : q = s
         /\ Pendings(k)' = IF fresh = <<>> THEN {} ELSE {fresh}
         /\ \A q \in Runs : q # r => task'[q][k] = task[q][k]
         /\ task'[r][k].stage # "read"
<1>1. Stored(k) = {} /\ Pendings(k) = {} /\ task[r][k].stage # "stored"
  BY DEF Finishes, RunnerFree, Stored, Pendings
<1>2. ASSUME NEW record, ToStage(k, r, record)
      PROVE  task'[r][k] = record /\ \A q \in Runs : q # r => task'[q][k] = task[q][k]
  BY <1>2, StageFacts DEF BaseInv, HandlesInv
<1>3. CASE fresh = <<>>
  <2>1. ToStage(k, r, [stage |-> "completed"])
    BY <1>3 DEF FindsFresh
  <2>2. Stored(k)' = {} /\ Pendings(k)' = {}
    BY <1>1, <2>1, PendingStay
  <2> QED
    BY <1>1, <1>2, <1>3, <2>1, <2>2
<1>4. CASE fresh # <<>>
  <2>1. ToStage(k, r, [stage |-> "stored", fresh |-> fresh])
    BY <1>4 DEF FindsFresh
  <2>2. /\ task'[r][k] = [stage |-> "stored", fresh |-> fresh]
        /\ \A q \in Runs : q # r => task'[q][k] = task[q][k]
    BY <1>2, <2>1
  <2>3. Stored(k)' = {r}
    BY <1>1, <2>2 DEF Stored
  <2>4. Pendings(k)' = {fresh}
    BY <2>2, <2>3 DEF Pendings
  <2> QED
    BY <1>1, <1>4, <2>2, <2>3, <2>4
<1> QED
  BY <1>3, <1>4

LEMMA FreshNews ==
  ASSUME BaseInv, NewsInv, NEW k \in Keys, NEW r \in Runs, NEW page, Finishes(k, r, page),
         Len(page) >= 1, page[1] \in Nat \ {0},
         FindsFresh(k, r, page, FreshSince(page, cursor[k]))
  PROVE  NewsInv'
<1>0. PICK fresh : fresh = FreshSince(page, cursor[k])
  OBVIOUS
<1>1. /\ KeyOK(k) /\ cursor[k] # 0 /\ FindsFresh(k, r, page, fresh)
      /\ cursor' = [cursor EXCEPT ![k] = page[1]] /\ baseline' = baseline
      /\ lost' = [lost EXCEPT ![k] = @ \cup ((cursor[k] + 1..page[1]) \ ToSet(page))]
      /\ UNCHANGED <<settings, posted, deleted, run, announced>>
      /\ Unfinished(k, r) /\ excused \subseteq excused'
      /\ kind[k] # "Live" /\ cursor[k] \in deleted => k \in excused'
      /\ cursor \in [Keys -> Nat] /\ baseline \in [Keys -> Nat] /\ announced \in [Keys -> Seq(Nat)]
      /\ lost \in [Keys -> SUBSET Nat]
  BY <1>0 DEF NewsInv, FindsFresh, Finishes, author, BaseInv, PollTypeOK, CursorsOK
<1>2. UNCHANGED <<kind, fallback>> /\ (Split(k)' <=> Split(k))
  BY <1>1 DEF settings, Split
<1>3. \E record : ToStage(k, r, record)
  BY DEF FindsFresh
<1>4. /\ Pendings(k) = {}
      /\ \A q, s \in Stored(k)' : q = s
      /\ Pendings(k)' = IF fresh = <<>> THEN {} ELSE {fresh}
      /\ \A q \in Runs : q # r => task'[q][k] = task[q][k]
      /\ task'[r][k].stage # "read"
  BY <1>1, FreshPending
<1>5. /\ IsPage(page)
      /\ kind[k] # "Live" => page[1] <= posted
      /\ kind[k] = "Live" => Len(page) = 1
  <2>1. PollTypeOK /\ IsPage(page)
    BY FinishedPage DEF BaseInv
  <2>2. 1 \in 1..Len(page)
    <3>1. Len(page) \in Nat
      BY <2>1 DEF IsPage
    <3> QED
      BY <3>1
  <2> QED
    BY <2>1, <2>2, FinishedPage
<1>6. History(k)' = History(k) /\ History(k) \in Seq(Nat)
  <2>1. baseline[k] \in Nat /\ announced[k] \in Seq(Nat)
    BY <1>1
  <2> QED
    BY <1>1, <2>1, HistoryFacts DEF History
<1>7. cursor'[k] = page[1] /\ cursor[k] \in Nat /\ lost[k] \subseteq lost'[k]
  BY <1>1
<1>8. k \notin excused /\ Split(k) => \A q \in Runs : q # run' => ~Unfinished(k, q)'
  BY <1>1, <1>3, AloneStays
<1>9. ASSUME k \notin excused', NEW q \in Runs PROVE ReadOK(k, task[q][k])'
  <2>1. task'[q][k].stage # "read"
    <3> SUFFICES ASSUME q # r, task[q][k].stage = "read" PROVE FALSE
      BY <1>4
    <3>1. Split(k) /\ Unfinished(k, q)
      BY DEF BaseInv, PollTypeOK, TasksOK, TaskOK, Unfinished, Settled
    <3> QED
      BY <1>1, <1>9, <3>1 DEF KeyOK
  <2> QED
    BY <2>1 DEF ReadOK
<1>10. ASSUME k \notin excused', kind[k] # "Live"
       PROVE  GoesUp(History(k), page[1], Pendings(k)')
  <2>1. k \notin excused /\ cursor[k] \notin deleted
    BY <1>1, <1>10
  <2>2. Reaches(page, cursor[k])
    BY <1>1, <1>10, <2>1, PageHasReached
  <2>3. GoesUp(History(k), cursor[k], {})
    BY <1>1, <1>4, <1>10, <2>1 DEF KeyOK
  <2>4. /\ GoesUp(History(k), page[1], {})
        /\ GoesUp(History(k), page[1], {fresh})
    BY <1>0, <1>5, <1>6, <1>7, <2>2, <2>3, FreshGoesUp
  <2> QED
    BY <1>4, <2>4
<1>11. ASSUME k \notin excused', kind[k] = "Live", lost'[k] = {}
       PROVE  Alternates(History(k), page[1], Pendings(k)')
  <2>1. Alternates(History(k), cursor[k], {})
    BY <1>1, <1>4, <1>7, <1>11 DEF KeyOK
  <2>2. PICK all : all = History(k)
    OBVIOUS
  <2>3. Alternates(all, page[1], IF fresh = <<>> THEN {} ELSE {fresh})
    BY <1>0, <1>5, <1>7, <1>11, <2>1, <2>2, FreshAlternates
  <2> QED
    BY <1>4, <2>2, <2>3
<1>12. KeyOK(k)'
  <2>1. cursor'[k] # 0
    BY <1>7
  <2> QED
    BY <1>1, <1>2, <1>4, <1>5, <1>6, <1>7, <1>8, <1>9, <1>10, <1>11, <2>1 DEF KeyOK
<1> QED
  BY <1>1, <1>3, <1>12, OtherKeysStay

LEMMA FinishNews ==
  ASSUME BaseInv, NewsInv, NEW k \in Keys, NEW r \in Runs, NEW page, Finishes(k, r, page)
  PROVE  NewsInv'
<1>1. PollTypeOK /\ KeyOK(k)
  BY DEF BaseInv, NewsInv
<1>2. CASE FindsNothing(k, r)
  <2>1. /\ ToStage(k, r, [stage |-> "completed"]) /\ Unfinished(k, r)
        /\ task[r][k].stage # "stored"
        /\ UNCHANGED <<settings, posted, deleted, run, cursor, announced, baseline, lost, excused>>
    BY <1>2 DEF FindsNothing, Finishes, author
  <2>2. ReadOK(k, [stage |-> "completed"])
    BY DEF ReadOK
  <2>3. KeyOK(k)'
    BY <1>1, <2>1, <2>2, KeyMoves
  <2> QED
    BY <2>1, <2>3, OtherKeysStay
<1>3. CASE page # <<>> /\ Len(page) >= 1 /\ page[1] \in Nat \ {0} /\ FindsHistory(k, r, page[1])
  <2>1. kind[k] # "Live" => page[1] <= posted
    <3>1. 1 \in 1..Len(page)
      <4>1. Len(page) \in Nat
        BY <1>1, FinishedPage DEF IsPage
      <4> QED
        BY <1>3, <4>1
    <3> QED
      BY <1>1, <3>1, FinishedPage
  <2> QED
    BY <1>3, <2>1, HistoryNews
<1>4. CASE /\ page # <<>> /\ Len(page) >= 1 /\ page[1] \in Nat \ {0}
           /\ FindsFresh(k, r, page, FreshSince(page, cursor[k]))
  BY <1>4, FreshNews
<1> QED
  BY <1>1, <1>2, <1>3, <1>4, FinishKinds

\* The pending posts join the history.
LEMMA JoinsUp ==
  ASSUME NEW b \in Nat, NEW s \in Seq(Nat), NEW f \in Seq(Nat), NEW c \in Nat,
         NEW fs, f \in fs, GoesUp(<<b>> \o s, c, fs)
  PROVE  GoesUp(<<b>> \o (s \o f), c, {})
<1>1. PICK all : all = <<b>> \o s
  OBVIOUS
<1>2. PICK more : more = <<b>> \o (s \o f)
  OBVIOUS
<1>3. /\ all \in Seq(Nat) /\ Len(all) = Len(s) + 1 /\ Len(s) \in Nat
      /\ \A i \in 1..Len(all) : all[i] \in Nat /\ all[i] = IF i = 1 THEN b ELSE s[i - 1]
  BY <1>1, HistoryFacts
<1>4. /\ s \o f \in Seq(Nat) /\ Len(s \o f) = Len(s) + Len(f) /\ Len(f) \in Nat
      /\ \A i \in 1..Len(s) + Len(f) :
           (s \o f)[i] = IF i <= Len(s) THEN s[i] ELSE f[i - Len(s)]
  BY ConcatNat
<1>5. /\ Len(more) = Len(s \o f) + 1
      /\ \A i \in 1..Len(more) : more[i] \in Nat /\ more[i] = IF i = 1 THEN b ELSE (s \o f)[i - 1]
  BY <1>2, <1>4, HistoryFacts
<1>6. ASSUME NEW i \in 1..Len(more)
      PROVE  \/ i \in 1..Len(all) /\ more[i] = all[i]
             \/ i > Len(all) /\ i - Len(all) \in 1..Len(f) /\ more[i] = f[i - Len(all)]
  <2>1. CASE i = 1
    BY <1>3, <1>5, <2>1
  <2>2. CASE i # 1 /\ i <= Len(all)
    <3>1. i - 1 \in 1..Len(s) + Len(f) /\ i - 1 <= Len(s) /\ i \in 1..Len(all)
      BY <1>3, <1>4, <2>2
    <3> QED
      BY <1>3, <1>4, <1>5, <2>2, <3>1
  <2>3. CASE i > Len(all)
    <3>1. i - 1 \in 1..Len(s) + Len(f) /\ ~(i - 1 <= Len(s)) /\ i # 1
          /\ (i - 1) - Len(s) = i - Len(all) /\ i - Len(all) \in 1..Len(f)
      BY <1>3, <1>4, <1>5, <2>3
    <3> QED
      BY <1>4, <1>5, <2>3, <3>1
  <2> QED
    BY <1>3, <2>1, <2>2, <2>3
<1>7. /\ Ascending(all) /\ \A i \in 1..Len(all) : all[i] <= c
      /\ Ascending(f)
      /\ \A i \in 1..Len(f) : f[i] <= c /\ \A j \in 1..Len(all) : all[j] < f[i]
  BY <1>1 DEF GoesUp
<1>8. ASSUME NEW i \in 1..Len(more) PROVE more[i] <= c
  BY <1>6, <1>7
<1>9. ASSUME NEW i \in 1..Len(more), NEW j \in 1..Len(more), i < j PROVE more[i] < more[j]
  <2>1. CASE j \in 1..Len(all) /\ more[j] = all[j]
    <3>1. i \in 1..Len(all) /\ more[i] = all[i]
      <4>1. Len(all) \in Nat
        BY <1>3
      <4>2. i \in 1..Len(all) /\ ~(i > Len(all))
        BY <1>9, <2>1, <4>1
      <4> QED
        BY <1>6, <4>2
    <3> QED
      BY <1>7, <1>9, <2>1, <3>1 DEF Ascending
  <2>2. CASE j > Len(all) /\ j - Len(all) \in 1..Len(f) /\ more[j] = f[j - Len(all)]
    <3>1. CASE i \in 1..Len(all) /\ more[i] = all[i]
      BY <1>7, <2>2, <3>1
    <3>2. CASE i > Len(all) /\ i - Len(all) \in 1..Len(f) /\ more[i] = f[i - Len(all)]
      <4>1. i - Len(all) < j - Len(all)
        BY <1>3, <1>9
      <4> QED
        BY <1>7, <2>2, <3>2, <4>1 DEF Ascending
    <3> QED
      BY <1>6, <3>1, <3>2
  <2> QED
    BY <1>6, <2>1, <2>2
<1> QED
  BY <1>2, <1>8, <1>9 DEF GoesUp, Ascending

LEMMA JoinsAlternating ==
  ASSUME NEW b \in Nat, NEW s \in Seq(Nat), NEW c \in Nat, NEW fs, <<c>> \in fs,
         Alternates(<<b>> \o s, c, fs)
  PROVE  Alternates(<<b>> \o (s \o <<c>>), c, {})
<1>1. PICK all : all = <<b>> \o s
  OBVIOUS
<1>2. PICK f : f = <<c>>
  OBVIOUS
<1>3. PICK more : more = <<b>> \o (s \o f)
  OBVIOUS
<1>4. /\ Len(all) = Len(s) + 1 /\ Len(s) \in Nat
      /\ \A i \in 1..Len(all) : all[i] = IF i = 1 THEN b ELSE s[i - 1]
  BY <1>1, HistoryFacts
<1>5. f \in Seq(Nat) /\ Len(f) = 1 /\ f[1] = c
  BY <1>2
<1>6. /\ s \o f \in Seq(Nat) /\ Len(s \o f) = Len(s) + 1
      /\ \A i \in 1..Len(s) + 1 : (s \o f)[i] = IF i <= Len(s) THEN s[i] ELSE f[i - Len(s)]
  BY <1>5, ConcatNat
<1>7. /\ Len(more) = Len(s \o f) + 1
      /\ \A i \in 1..Len(more) : more[i] = IF i = 1 THEN b ELSE (s \o f)[i - 1]
  BY <1>3, <1>6, HistoryFacts
<1>8. Len(more) = Len(all) + 1 /\ Len(all) \in Nat /\ more[Len(more)] = c
  <2>1. Len(more) = Len(s) + 2 /\ Len(all) = Len(s) + 1 /\ Len(s) \in Nat
    BY <1>4, <1>6, <1>7
  <2>2. Len(more) - 1 \in 1..Len(s) + 1 /\ ~(Len(more) - 1 <= Len(s)) /\ (Len(more) - 1) - Len(s) = 1
        /\ Len(more) # 1 /\ Len(more) \in 1..Len(more)
    BY <2>1
  <2> QED
    BY <1>5, <1>6, <1>7, <2>1, <2>2
<1>9. ASSUME NEW i \in 1..Len(all) PROVE more[i] = all[i]
  <2>1. CASE i = 1
    BY <1>4, <1>7, <1>8, <2>1
  <2>2. CASE i # 1
    <3>1. i - 1 \in 1..Len(s) + 1 /\ i - 1 <= Len(s) /\ i \in 1..Len(more)
      BY <1>4, <1>8, <2>2
    <3> QED
      BY <1>4, <1>6, <1>7, <2>2, <3>1
  <2> QED
    BY <2>1, <2>2
<1>10. (\A i \in 1..Len(all) - 1 : all[i] # all[i + 1]) /\ all[Len(all)] # c
  BY <1>1 DEF Alternates
<1>11. ASSUME NEW i \in 1..Len(more) - 1 PROVE more[i] # more[i + 1]
  <2>1. CASE i = Len(all)
    <3>1. i + 1 = Len(more) /\ i \in 1..Len(all)
      BY <1>8, <2>1
    <3> QED
      BY <1>8, <1>9, <1>10, <2>1, <3>1
  <2>2. CASE i # Len(all)
    <3>1. i \in 1..Len(all) - 1 /\ i \in 1..Len(all) /\ i + 1 \in 1..Len(all)
      BY <1>8, <2>2
    <3> QED
      BY <1>9, <1>10, <3>1
  <2> QED
    BY <2>1, <2>2
<1>12. Alternates(more, c, {})
  BY <1>8, <1>11 DEF Alternates
<1> QED
  BY <1>2, <1>3, <1>12

\* The step that settles what is pending for a key.
LEMMA SettledPending ==
  ASSUME BaseInv, NEW k \in Keys, KeyOK(k), NEW r \in Runs, task[r][k].stage = "stored",
         NEW record, ToStage(k, r, record), record.stage \in {"completed", "failed"}
  PROVE  /\ Stored(k)' = {} /\ Pendings(k)' = {} /\ Pendings(k) = {task[r][k].fresh}
         /\ \A q \in Runs : task'[q][k].stage = "read" => q # r /\ task'[q][k] = task[q][k]
<1>1. /\ task'[r][k] = record
      /\ \A q \in Runs : q # r => task'[q][k] = task[q][k]
  BY StageFacts DEF BaseInv, HandlesInv
<1>2. Stored(k) = {r}
  BY DEF KeyOK, Stored
<1>3. Stored(k)' = {}
  BY <1>1, <1>2 DEF Stored
<1> QED
  BY <1>1, <1>2, <1>3 DEF Pendings

LEMMA SettleNews ==
  ASSUME BaseInv, NewsInv, NEW k \in Keys, NEW r \in Runs, Announce(k, r) \/ AnnounceFails(k, r)
  PROVE  NewsInv'
<1>1. /\ KeyOK(k) /\ task[r][k].stage = "stored"
      /\ UNCHANGED <<settings, posted, deleted, run, cursor, baseline, excused>>
      /\ cursor[k] \in Nat /\ baseline[k] \in Nat /\ announced[k] \in Seq(Nat)
      /\ announced \in [Keys -> Seq(Nat)] /\ lost \in [Keys -> SUBSET Nat]
      /\ task[r][k].fresh \in Seq(Nat)
  BY DEF NewsInv, Announce, AnnounceFails, author, scheduler, BaseInv, PollTypeOK, CursorsOK,
         TasksOK, TaskOK
<1>2. PICK record : ToStage(k, r, record) /\ record.stage \in {"completed", "failed"}
  <2>1. \/ ToStage(k, r, [stage |-> "completed"])
        \/ ToStage(k, r, [stage |-> "failed"])
    BY DEF Announce, AnnounceFails
  <2>2. [stage |-> "completed"].stage = "completed" /\ [stage |-> "failed"].stage = "failed"
    OBVIOUS
  <2> QED
    BY <2>1, <2>2
<1>3. UNCHANGED <<kind, fallback>> /\ (Split(k)' <=> Split(k))
  BY <1>1 DEF settings, Split
<1>4. /\ Stored(k)' = {} /\ Pendings(k)' = {} /\ Pendings(k) = {task[r][k].fresh}
      /\ \A q \in Runs : task'[q][k].stage = "read" => q # r /\ task'[q][k] = task[q][k]
  BY <1>1, <1>2, SettledPending
<1>5. cursor[k] # 0
  <2>1. r \in Stored(k)
    BY <1>1 DEF Stored
  <2> QED
    BY <1>1, <2>1 DEF KeyOK
<1>6. Unfinished(k, r)
  BY <1>1 DEF Unfinished, Settled
<1>7. k \notin excused /\ Split(k) => \A q \in Runs : q # run' => ~Unfinished(k, q)'
  BY <1>1, <1>2, <1>6, AloneStays
<1>8. ASSUME k \notin excused, NEW q \in Runs PROVE ReadOK(k, task[q][k])'
  BY <1>1, <1>4, <1>8 DEF KeyOK, ReadOK
<1>9. ASSUME k \notin excused
      PROVE  /\ kind[k] # "Live" => GoesUp(History(k)', cursor[k], {})
             /\ kind[k] = "Live" /\ lost'[k] = {} => Alternates(History(k)', cursor[k], {})
  <2>1. PICK f : f = task[r][k].fresh
    OBVIOUS
  <2>2. /\ f \in Seq(Nat) /\ f \in Pendings(k)
        /\ kind[k] # "Live" => GoesUp(<<baseline[k]>> \o announced[k], cursor[k], Pendings(k))
        /\ kind[k] = "Live" /\ lost[k] = {} =>
             Alternates(<<baseline[k]>> \o announced[k], cursor[k], Pendings(k))
    BY <1>1, <1>4, <1>9, <2>1 DEF KeyOK, History
  <2>3. CASE Announce(k, r)
    <3>1. announced'[k] = announced[k] \o f /\ lost' = lost
      BY <1>1, <2>1, <2>3 DEF Announce
    <3>2. History(k)' = <<baseline[k]>> \o (announced[k] \o f)
      BY <1>1, <3>1 DEF History
    <3>3. ASSUME kind[k] # "Live" PROVE GoesUp(History(k)', cursor[k], {})
      BY <1>1, <2>2, <3>2, <3>3, JoinsUp
    <3>4. ASSUME kind[k] = "Live", lost'[k] = {} PROVE Alternates(History(k)', cursor[k], {})
      <4>1. Alternates(<<baseline[k]>> \o announced[k], cursor[k], Pendings(k))
        BY <2>2, <3>1, <3>4
      <4>2. f = <<cursor[k]>>
        BY <2>2, <4>1 DEF Alternates
      <4>3. <<cursor[k]>> \in Pendings(k)
        BY <2>2, <4>2
      <4>4. Alternates(<<baseline[k]>> \o (announced[k] \o <<cursor[k]>>), cursor[k], {})
        BY <1>1, <4>1, <4>3, JoinsAlternating
      <4> QED
        BY <3>2, <4>2, <4>4
    <3> QED
      BY <3>3, <3>4
  <2>4. CASE AnnounceFails(k, r)
    <3>1. announced' = announced /\ lost'[k] = lost[k] \cup ToSet(f)
      BY <1>1, <2>1, <2>4 DEF AnnounceFails
    <3>2. History(k)' = <<baseline[k]>> \o announced[k]
      BY <1>1, <3>1 DEF History
    <3>3. PICK all : all = <<baseline[k]>> \o announced[k]
      OBVIOUS
    <3>4. kind[k] # "Live" => GoesUp(all, cursor[k], {})
      BY <2>2, <3>3 DEF GoesUp
    <3>5. ~(kind[k] = "Live" /\ lost'[k] = {})
      <4> SUFFICES ASSUME kind[k] = "Live", lost'[k] = {} PROVE FALSE
        OBVIOUS
      <4>1. f = <<cursor[k]>>
        BY <2>2, <3>1 DEF Alternates
      <4>2. cursor[k] \in ToSet(f)
        BY <4>1 DEF ToSet
      <4> QED
        BY <3>1, <4>2
    <3> QED
      BY <3>2, <3>3, <3>4, <3>5
  <2> QED
    BY <2>3, <2>4
<1>10. KeyOK(k)'
  BY <1>1, <1>3, <1>4, <1>5, <1>7, <1>8, <1>9 DEF KeyOK
<1>11. \A j \in Keys : j # k => /\ cursor'[j] = cursor[j] /\ announced'[j] = announced[j]
                                /\ baseline'[j] = baseline[j] /\ lost'[j] = lost[j]
  BY <1>1 DEF Announce, AnnounceFails
<1> QED
  BY <1>1, <1>2, <1>10, <1>11, OtherKeysStay

\* The process dies, and every poll with it.
LEMMA CrashNews ==
  ASSUME BaseInv, NewsInv, Crash
  PROVE  NewsInv'
<1> SUFFICES ASSUME NEW k \in Keys PROVE KeyOK(k)'
  BY DEF NewsInv
<1>1. /\ KeyOK(k)
      /\ UNCHANGED <<settings, posted, run, deleted, cursor, announced, baseline, excused>>
      /\ lost'[k] = lost[k] \cup UNION {ToSet(task[r][k].fresh) : r \in Stored(k)}
      /\ \A r \in Runs : task'[r][k].stage = "none"
  BY DEF NewsInv, Crash, author, NoTask, Stored
<1>2. UNCHANGED <<kind, fallback>> /\ (Split(k)' <=> Split(k))
  BY <1>1 DEF settings, Split
<1>3. Stored(k)' = {} /\ Pendings(k)' = {} /\ History(k)' = History(k)
  BY <1>1 DEF Stored, Pendings, History
<1>4. \A r \in Runs : ReadOK(k, task[r][k])' /\ ~Unfinished(k, r)'
  BY <1>1 DEF ReadOK, Unfinished, Settled
<1>5. ASSUME k \notin excused, kind[k] # "Live" PROVE GoesUp(History(k), cursor[k], {})
  BY <1>1, <1>5 DEF KeyOK, GoesUp
<1>6. ASSUME k \notin excused, kind[k] = "Live", lost'[k] = {}
      PROVE  Alternates(History(k), cursor[k], {})
  <2>1. Alternates(History(k), cursor[k], Pendings(k))
    BY <1>1, <1>6 DEF KeyOK
  <2>2. Pendings(k) = {}
    <3> SUFFICES ASSUME NEW r \in Stored(k) PROVE FALSE
      BY DEF Pendings
    <3>1. task[r][k].fresh = <<cursor[k]>>
      BY <2>1 DEF Pendings, Alternates
    <3>2. cursor[k] \in ToSet(task[r][k].fresh)
      BY <3>1 DEF ToSet
    <3> QED
      BY <1>1, <1>6, <3>2
  <2> QED
    BY <2>1, <2>2
<1> QED
  BY <1>1, <1>2, <1>3, <1>4, <1>5, <1>6 DEF KeyOK

LEMMA NewsStep == BaseInv /\ NewsInv /\ Steps => NewsInv'
<1> SUFFICES ASSUME BaseInv, NewsInv, Steps PROVE NewsInv'
  OBVIOUS
<1>1. CASE Quiet
  <2>1. ASSUME NEW k \in Keys PROVE KeyOK(k)'
    <3>1. KeyOK(k) /\ posted' \in Nat /\ posted' >= posted /\ deleted \subseteq deleted'
          /\ excused \subseteq excused' /\ UNCHANGED settings
          /\ UNCHANGED <<task, cursor, announced, baseline, lost>>
          /\ (run' # run => (Split(k) /\ (\E r \in Runs : Unfinished(k, r)) => k \in excused'))
      BY <1>1 DEF NewsInv, Quiet
    <3> QED
      BY <3>1, KeyStays
  <2> QED
    BY <2>1 DEF NewsInv
<1>2. CASE Crash
  BY <1>2, CrashNews
<1>3. ASSUME NEW k \in Keys, NEW r \in Runs, NEW record, Moves(k, r, record) PROVE NewsInv'
  BY <1>3, MoveNews
<1>4. ASSUME NEW k \in Keys, NEW r \in Runs, NEW page, Finishes(k, r, page) PROVE NewsInv'
  BY <1>4, FinishNews
<1>5. ASSUME NEW k \in Keys, NEW r \in Runs, Announce(k, r) \/ AnnounceFails(k, r) PROVE NewsInv'
  BY <1>5, SettleNews
<1> QED
  BY <1>1, <1>2, <1>3, <1>4, <1>5 DEF Steps

\* History is never announced and nothing twice: for a key whose cursor was never found
\* deleted and whose polls did not outlive their event source, announcements go up from
\* the cursor of its first poll, and those of a live room alternate as long as none is lost.
THEOREM OnlyNewsIsAnnounced == PollSpec => []OnlyNews
<1>1. PollInit => BaseInv /\ NewsInv
  BY InitBaseInv, InitNewsInv
<1>2. BaseInv /\ NewsInv /\ [PollNext]_pollVars => BaseInv' /\ NewsInv'
  BY NextBaseInv, NewsStep
<1>3. BaseInv /\ NewsInv => OnlyNews
  BY NewsFromInv
<1> QED
  BY <1>1, <1>2, <1>3, PTL DEF PollSpec

=============================================================================
