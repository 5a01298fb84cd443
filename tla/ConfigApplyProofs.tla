------------------------- MODULE ConfigApplyProofs -------------------------
(***************************************************************************)
(* Theorems about ConfigApply, whatever the clients, the schema and the    *)
(* bounds.                                                                 *)
(*                                                                         *)
(*   - A stale write beyond the initial revision is refused, and memory    *)
(*     and file agree.  Both rest on ConfigInv: an apply owns the mutex of *)
(*     the store from its check to its commit, so what it has checked is   *)
(*     still true when it commits.                                         *)
(*   - Reloads catch up with the file: ReloadInv, an apply in flight has a *)
(*     reload pending as long as the plugins run with old fields.          *)
(*   - Every commit is announced once: AnnounceInv, a revision is in the   *)
(*     events or belongs to one client on its way there.                   *)
(*                                                                         *)
(* Memory, file and reloads are about one context: the file is shared.     *)
(***************************************************************************)
EXTENDS ConfigApply, FiniteSetTheorems, FunctionTheorems, TLAPS

HasSnapshot(c) == client[c].stage \in {"editing", "persisting"}

\* The part of the types the proofs need: domains, revisions and epochs.
Shapes ==
  /\ DOMAIN client = Clients
  /\ DOMAIN store = Contexts
  /\ epoch \in Nat
  /\ \A x \in Contexts :
       /\ store[x].present \in BOOLEAN
       /\ store[x].present => store[x].revision \in Nat \ {0}
  /\ \A c \in Clients : HasSnapshot(c) =>
       /\ client[c].context \in Contexts
       /\ client[c].revision \in Nat
       /\ client[c].epoch \in Nat
       /\ client[c].epoch <= epoch

\* Between check and commit the mutex is held, the candidate written, and the revision
\* that was checked still current.
LockHeld ==
  \A c \in Clients : client[c].stage = "persisting" =>
    /\ lock = c
    /\ Written(client[c].candidate)
    /\ client[c].epoch = epoch => client[c].revision = CurrentRevision(client[c].context)

\* A snapshot of this process is not newer than the store, and shows its value as
\* long as it has its revision, once that is beyond the initial one.
Honest(c) ==
  /\ client[c].revision <= CurrentRevision(client[c].context)
  /\ client[c].revision = CurrentRevision(client[c].context)
       /\ client[c].revision > InitialRevision => BasedOnCurrent(c)
SnapshotsHonest ==
  \A c \in Clients : HasSnapshot(c) /\ client[c].epoch = epoch => Honest(c)

ConfigInv == Shapes /\ LockHeld /\ SnapshotsHonest

\* No client is called nobody, so a free mutex means that no apply is under way.
LEMMA FreeLock ==
  ASSUME LockHeld, lock = Nobody
  PROVE  \A c \in Clients : client[c].stage # "persisting"
  BY ConfigAssumption DEF LockHeld

\* The current revision of a context is a positive number.
LEMMA CurrentRevisionType ==
  ASSUME Shapes, NEW x \in Contexts
  PROVE  CurrentRevision(x) \in Nat \ {0}
  BY DEF Shapes, CurrentRevision, InitialRevision

\* The sink leaves in the file what it was given ...
LEMMA SinkWrites ==
  ASSUME NEW candidate, WriteFile(candidate)
  PROVE  Written(candidate)'
  <1> SUFFICES ASSUME NEW f \in Fields
               PROVE  /\ Sink[f] = "replace" => candidate[f] = file'[f]
                      /\ Sink[f] = "patch" => candidate[f] \in {Missing, file'[f]}
    BY DEF Written
  <1>1. CASE Sink[f] = "replace"
    BY <1>1 DEF WriteFile
  <1>2. CASE Sink[f] = "patch"
    BY <1>2 DEF WriteFile
  <1> QED BY <1>1, <1>2

\* ... and changes no field on which the candidate agrees with what memory shows.
LEMMA SinkChangesDiff ==
  ASSUME NEW STATE value, Written(value), NEW candidate, WriteFile(candidate),
         NEW f \in Fields, file'[f] # file[f]
  PROVE  value[f] # candidate[f]
  <1>1. Sink[f] \in SinkModes
    BY ConfigAssumption
  <1>2. CASE Sink[f] = "replace"
    BY <1>2 DEF WriteFile, Written
  <1>3. CASE Sink[f] = "patch"
    <2>1. file'[f] = IF candidate[f] # Missing THEN candidate[f] ELSE file[f]
      BY <1>3 DEF WriteFile
    <2>2. value[f] \in {Missing, file[f]}
      BY <1>3 DEF Written
    <2> QED BY <2>1, <2>2
  <1>4. CASE Sink[f] = "skip"
    BY <1>4 DEF WriteFile
  <1> QED BY <1>1, <1>2, <1>3, <1>4 DEF SinkModes

LEMMA InitConfigInv == ConfigInit => ConfigInv
  <1> SUFFICES ASSUME ConfigInit PROVE ConfigInv
    OBVIOUS
  <1>1. \A c \in Clients : client[c].stage = "idle"
    BY DEF ConfigInit, Idle
  <1>2. Shapes
    BY <1>1 DEF ConfigInit, Shapes, HasSnapshot, Absent
  <1> QED
    BY <1>1, <1>2 DEF ConfigInv, LockHeld, SnapshotsHonest, HasSnapshot

\* A step that leaves the store, the file, the mutex and the epoch alone, and gives
\* no client a snapshot or takes an apply further.
LEMMA CallsOnly ==
  ASSUME ConfigInv, NEW c \in Clients, NEW STATE call,
         UNCHANGED <<store, defaults, lock, file, epoch>>,
         client' = [client EXCEPT ![c] = call],
         call.stage \notin {"editing", "persisting"}
  PROVE  ConfigInv'
  <1>1. \A d \in Clients : d # c => client'[d] = client[d]
    BY DEF ConfigInv, Shapes
  <1>2. client'[c] = call
    BY DEF ConfigInv, Shapes
  <1>3. \A d \in Clients : HasSnapshot(d)' => d # c /\ HasSnapshot(d)
    BY <1>1, <1>2 DEF HasSnapshot
  <1>4. Shapes'
    BY <1>1, <1>3 DEF ConfigInv, Shapes
  <1>5. \A x : CurrentRevision(x)' = CurrentRevision(x) /\ CurrentValue(x)' = CurrentValue(x)
    BY DEF CurrentRevision, CurrentValue
  <1>6. LockHeld'
    BY <1>1, <1>2, <1>5 DEF ConfigInv, LockHeld, Written
  <1>7. SnapshotsHonest'
    BY <1>1, <1>3, <1>5 DEF ConfigInv, SnapshotsHonest, Honest, BasedOnCurrent
  <1> QED
    BY <1>4, <1>6, <1>7 DEF ConfigInv

\* A new snapshot is honest.
LEMMA ReadStep ==
  ASSUME ConfigInv, NEW c \in Clients, Read(c)
  PROVE  ConfigInv'
  <1> PICK x \in Contexts :
        client' = [client EXCEPT ![c] =
          [stage |-> "editing", context |-> x, epoch |-> epoch,
           value |-> CurrentValue(x), revision |-> CurrentRevision(x)]]
    BY DEF Read
  <1>1. \A d \in Clients : d # c => client'[d] = client[d]
    BY DEF ConfigInv, Shapes
  <1>2. client'[c] = [stage |-> "editing", context |-> x, epoch |-> epoch,
                      value |-> CurrentValue(x), revision |-> CurrentRevision(x)]
    BY DEF ConfigInv, Shapes
  <1>3. CurrentRevision(x) \in Nat
    BY CurrentRevisionType DEF ConfigInv
  <1>4. \A y : CurrentRevision(y)' = CurrentRevision(y) /\ CurrentValue(y)' = CurrentValue(y)
    BY DEF Read, CurrentRevision, CurrentValue
  <1>5. \A d \in Clients : HasSnapshot(d)' => d = c \/ HasSnapshot(d)
    BY <1>1 DEF HasSnapshot
  <1>6. Shapes'
    <2>1. \A d \in Clients : HasSnapshot(d)' =>
            client'[d].context \in Contexts /\ client'[d].revision \in Nat
              /\ client'[d].epoch \in Nat /\ client'[d].epoch <= epoch
      BY <1>1, <1>2, <1>3, <1>5 DEF ConfigInv, Shapes
    <2> QED
      BY <2>1 DEF ConfigInv, Shapes, Read
  <1>7. LockHeld'
    BY <1>1, <1>2, <1>4 DEF ConfigInv, LockHeld, Written, Read
  <1>8. SnapshotsHonest'
    <2> SUFFICES ASSUME NEW d \in Clients, HasSnapshot(d)', client'[d].epoch = epoch'
                 PROVE  Honest(d)'
      BY DEF SnapshotsHonest
    <2>1. CASE d = c
      BY <2>1, <1>2, <1>3, <1>4 DEF Honest, BasedOnCurrent
    <2>2. CASE d # c
      BY <2>2, <1>1, <1>4, <1>5 DEF ConfigInv, SnapshotsHonest, Honest, BasedOnCurrent, Read
    <2> QED
      BY <2>1, <2>2
  <1> QED
    BY <1>6, <1>7, <1>8 DEF ConfigInv

\* The check and the write to the file happen while nobody else holds the mutex.
LEMMA PersistStep ==
  ASSUME ConfigInv, NEW c \in Clients, ApplyPersist(c)
  PROVE  ConfigInv'
  <1> PICK candidate \in Configs(provider) :
        /\ WriteFile(candidate)
        /\ client' = [client EXCEPT ![c] =
             [stage |-> "persisting", context |-> client[c].context, epoch |-> @.epoch,
              value |-> @.value, revision |-> @.revision, candidate |-> candidate,
              pending |-> PendingActions(RestartPolicyFor(
                            Diff(CurrentValue(client[c].context), candidate)))]]
    BY DEF ApplyPersist
  <1>1. \A d \in Clients : d # c => client'[d] = client[d]
    BY DEF ConfigInv, Shapes
  <1>2. /\ client'[c].stage = "persisting"
        /\ client'[c].context = client[c].context
        /\ client'[c].epoch = client[c].epoch
        /\ client'[c].value = client[c].value
        /\ client'[c].revision = client[c].revision
        /\ client'[c].candidate = candidate
    BY DEF ConfigInv, Shapes
  <1>3. \A d \in Clients : client[d].stage # "persisting"
    BY FreeLock DEF ApplyPersist, ConfigInv
  <1>4. \A y : CurrentRevision(y)' = CurrentRevision(y) /\ CurrentValue(y)' = CurrentValue(y)
    BY DEF ApplyPersist, CurrentRevision, CurrentValue
  <1>5. \A d \in Clients : HasSnapshot(d)' => HasSnapshot(d)
    BY <1>1 DEF HasSnapshot, ApplyPersist
  <1>6. \A d \in Clients :
          HasSnapshot(d)' => /\ client'[d].context = client[d].context
                             /\ client'[d].epoch = client[d].epoch
                             /\ client'[d].value = client[d].value
                             /\ client'[d].revision = client[d].revision
    BY <1>1, <1>2
  <1>7. Shapes'
    <2>1. DOMAIN client' = Clients
      BY DEF ConfigInv, Shapes
    <2> QED
      BY <2>1, <1>5, <1>6 DEF ConfigInv, Shapes, ApplyPersist
  <1>8. LockHeld'
    <2>1. Written(candidate)'
      BY SinkWrites
    <2>2. \A d \in Clients : client'[d].stage = "persisting" => d = c
      BY <1>1, <1>3
    <2>3. Written(client[c].candidate)'
      BY <1>2, <2>1 DEF Written
    <2> QED
      BY <1>2, <1>4, <2>2, <2>3 DEF LockHeld, ApplyPersist, ExpectsCurrent
  <1>9. SnapshotsHonest'
    BY <1>4, <1>5, <1>6 DEF ConfigInv, SnapshotsHonest, Honest, BasedOnCurrent, ApplyPersist
  <1> QED
    BY <1>7, <1>8, <1>9 DEF ConfigInv

\* The commit moves the context to a revision no snapshot has, or to the initial one.
LEMMA CommitStep ==
  ASSUME ConfigInv, NEW c \in Clients, ApplyCommit(c)
  PROVE  ConfigInv'
  <1>1. PICK x \in Contexts : x = client[c].context
    BY DEF ApplyCommit, ConfigInv, Shapes, HasSnapshot
  <1>2. \A d \in Clients : d # c => client'[d] = client[d]
    BY DEF ApplyCommit, ConfigInv, Shapes
  <1>3. client'[c].stage = "committed"
    BY DEF ApplyCommit, ConfigInv, Shapes
  <1>4. \A d \in Clients : d # c => client[d].stage # "persisting"
    BY DEF ApplyCommit, ConfigInv, LockHeld
  <1>5. \A d \in Clients : HasSnapshot(d)' => d # c /\ HasSnapshot(d) /\ client'[d] = client[d]
    BY <1>2, <1>3 DEF HasSnapshot
  <1>6. /\ store'[x].present = TRUE
        /\ store'[x].revision = IF store[x].present THEN store[x].revision + 1
                                ELSE InitialRevision
    BY <1>1 DEF ApplyCommit, ConfigInv, Shapes
  <1>7. \A y \in Contexts : y # x => store'[y] = store[y]
    BY <1>1 DEF ApplyCommit, ConfigInv, Shapes
  <1>8. Shapes'
    <2>1. DOMAIN client' = Clients /\ DOMAIN store' = Contexts
      BY DEF ApplyCommit, ConfigInv, Shapes
    <2>2. \A y \in Contexts : store'[y].present \in BOOLEAN
      BY <1>6, <1>7 DEF ConfigInv, Shapes
    <2>3. \A y \in Contexts : store'[y].present => store'[y].revision \in Nat \ {0}
      <3> SUFFICES ASSUME NEW y \in Contexts, store'[y].present
                   PROVE  store'[y].revision \in Nat \ {0}
        OBVIOUS
      <3>1. CASE y # x
        BY <3>1, <1>7 DEF ConfigInv, Shapes
      <3>2. CASE y = x /\ store[x].present
        <4>1. store[x].revision \in Nat \ {0}
          BY <3>2, <1>1 DEF ConfigInv, Shapes
        <4>2. store'[y].revision = store[x].revision + 1
          BY <3>2, <1>6
        <4> QED
          BY <4>1, <4>2
      <3>3. CASE y = x /\ ~store[x].present
        <4>1. store'[y].revision = 1
          BY <3>3, <1>6 DEF InitialRevision
        <4> QED
          BY <4>1
      <3> QED
        BY <3>1, <3>2, <3>3
    <2> QED
      BY <2>1, <2>2, <2>3, <1>5 DEF ApplyCommit, ConfigInv, Shapes
  <1>9. LockHeld'
    BY <1>2, <1>3, <1>4 DEF LockHeld
  <1>10. SnapshotsHonest'
    <2> SUFFICES ASSUME NEW d \in Clients, HasSnapshot(d)', client'[d].epoch = epoch'
                 PROVE  Honest(d)'
      BY DEF SnapshotsHonest
    <2>1. client'[d] = client[d] /\ HasSnapshot(d) /\ client[d].epoch = epoch
      BY <1>5 DEF ApplyCommit
    <2> PICK y \in Contexts, r \in Nat : y = client[d].context /\ r = client[d].revision
      BY <2>1 DEF ConfigInv, Shapes
    <2>2. y \in Contexts /\ r \in Nat
      OBVIOUS
    <2>3. /\ r <= CurrentRevision(y)
          /\ r = CurrentRevision(y) /\ r > InitialRevision => client[d].value = CurrentValue(y)
      BY <2>1 DEF ConfigInv, SnapshotsHonest, Honest, BasedOnCurrent
    <2>4. CASE y # x
      <3>1. CurrentRevision(y)' = CurrentRevision(y) /\ CurrentValue(y)' = CurrentValue(y)
        BY <2>2, <2>4, <1>7 DEF CurrentRevision, CurrentValue, ApplyCommit
      <3> QED
        BY <2>1, <2>3, <3>1 DEF Honest, BasedOnCurrent
    <2>5. CASE y = x /\ store[x].present
      <3>1. CurrentRevision(y)' = CurrentRevision(y) + 1
        BY <2>5, <1>6 DEF CurrentRevision
      <3>2. CurrentRevision(y) \in Nat
        BY <2>2, CurrentRevisionType DEF ConfigInv
      <3>3. r < CurrentRevision(y)'
        BY <3>1, <3>2, <2>2, <2>3
      <3> QED
        BY <2>1, <2>2, <3>1, <3>2, <3>3 DEF Honest
    <2>6. CASE y = x /\ ~store[x].present
      <3>1. CurrentRevision(y)' = 1 /\ CurrentRevision(y) = 1
        BY <2>6, <1>6 DEF CurrentRevision, InitialRevision
      <3> QED
        BY <2>1, <2>2, <2>3, <3>1 DEF Honest, InitialRevision
    <2> QED
      BY <2>4, <2>5, <2>6
  <1> QED
    BY <1>8, <1>9, <1>10 DEF ConfigInv

\* A new process has a new epoch: the snapshots that survive are all older.
LEMMA RestartStep ==
  ASSUME ConfigInv, Restart
  PROVE  ConfigInv'
  <1>1. \A c \in Clients : HasSnapshot(c)' => HasSnapshot(c) /\ client'[c] = client[c]
    BY DEF Restart, HasSnapshot, Idle
  <1>2. \A c \in Clients : client'[c].stage # "persisting"
    BY DEF Restart, Idle
  <1>3. epoch \in Nat /\ epoch' = epoch + 1
    BY DEF Restart, ConfigInv, Shapes
  <1>4. \A c \in Clients : HasSnapshot(c)' =>
          /\ client'[c].context \in Contexts
          /\ client'[c].revision \in Nat
          /\ client'[c].epoch \in Nat
          /\ client'[c].epoch < epoch'
    BY <1>1, <1>3 DEF ConfigInv, Shapes
  <1>5. Shapes'
    <2>1. DOMAIN client' = Clients /\ DOMAIN store' = Contexts
      BY DEF Restart
    <2>2. \A x \in Contexts : store'[x].present = FALSE
      BY DEF Restart, Absent
    <2>3. epoch' \in Nat
      BY <1>3
    <2>4. \A c \in Clients : HasSnapshot(c)' => client'[c].epoch <= epoch'
      BY <1>4, <2>3
    <2> QED
      BY <1>4, <2>1, <2>2, <2>3, <2>4 DEF Shapes
  <1>6. LockHeld'
    BY <1>2 DEF LockHeld
  <1>7. SnapshotsHonest'
    BY <1>3, <1>4 DEF SnapshotsHonest
  <1> QED
    BY <1>5, <1>6, <1>7 DEF ConfigInv

\* No step of any client, and no crash, breaks the invariant.
LEMMA NextConfigInv == ConfigInv /\ [ConfigNext]_configVars => ConfigInv'
  <1> SUFFICES ASSUME ConfigInv, [ConfigNext]_configVars PROVE ConfigInv'
    OBVIOUS
  <1>1. CASE Restart
    BY <1>1, RestartStep
  <1>2. ASSUME NEW c \in Clients, ClientNext(c) PROVE ConfigInv'
    <2>1. CASE Read(c)
      BY <2>1, ReadStep
    <2>2. CASE ApplyConflict(c)
      <3>1. Idle("conflict").stage \notin {"editing", "persisting"}
        BY DEF Idle
      <3> QED
        BY <2>2, <3>1, CallsOnly DEF ApplyConflict
    <2>3. CASE ApplyPersist(c)
      BY <2>3, PersistStep
    <2>4. CASE ApplyPersistFails(c)
      <3>1. Idle("failed").stage \notin {"editing", "persisting"}
        BY DEF Idle
      <3> QED
        BY <2>4, <3>1, CallsOnly DEF ApplyPersistFails
    <2>5. CASE ApplyCommit(c)
      BY <2>5, CommitStep
    <2>6. CASE Notify(c)
      <3> DEFINE call == [client[c] EXCEPT !.stage = "notified"]
      <3>1. client' = [client EXCEPT ![c] = call]
        BY <2>6 DEF Notify
      <3>2. call.stage \notin {"editing", "persisting"}
        <4>1. call.stage \in {"notified", client[c].stage}
          OBVIOUS
        <4> QED
          BY <4>1, <2>6 DEF Notify
      <3> HIDE DEF call
      <3> QED
        BY <2>6, <3>1, <3>2, CallsOnly DEF Notify
    <2>7. CASE NothingToReload(c)
      <3> DEFINE call == IF client[c].pending = {} THEN Done(client[c]) ELSE Idle("scheduled")
      <3>1. client' = [client EXCEPT ![c] = call]
        BY <2>7 DEF NothingToReload
      <3>2. call.stage \notin {"editing", "persisting"}
        BY DEF Done, Idle
      <3> HIDE DEF call
      <3> QED
        BY <2>7, <3>1, <3>2, CallsOnly DEF NothingToReload
    <2>8. CASE Reload(c)
      <3> DEFINE call == Done(client[c])
      <3>1. client' = [client EXCEPT ![c] = call]
        BY <2>8 DEF Reload
      <3>2. call.stage \notin {"editing", "persisting"}
        BY DEF Done
      <3> HIDE DEF call
      <3> QED
        BY <2>8, <3>1, <3>2, CallsOnly DEF Reload
    <2>9. CASE ReloadFails(c)
      <3>1. Idle("failed").stage \notin {"editing", "persisting"}
        BY DEF Idle
      <3> QED
        BY <2>9, <3>1, CallsOnly DEF ReloadFails
    <2> QED
      BY <1>2, <2>1, <2>2, <2>3, <2>4, <2>5, <2>6, <2>7, <2>8, <2>9 DEF ClientNext
  <1>3. CASE UNCHANGED configVars
    BY <1>3 DEF configVars, ConfigInv, Shapes, LockHeld, SnapshotsHonest, Honest, HasSnapshot,
                CurrentRevision, CurrentValue, BasedOnCurrent, Written
  <1> QED
    BY <1>1, <1>2, <1>3 DEF ConfigNext

\* ConfigInv holds in every state of every process.
THEOREM ConfigInvariant == ConfigSpec => []ConfigInv
  <1>1. ConfigInit => ConfigInv
    BY InitConfigInv
  <1>2. ConfigInv /\ [ConfigNext]_configVars => ConfigInv'
    BY NextConfigInv
  <1> QED
    BY <1>1, <1>2, PTL DEF ConfigSpec

\* An apply that takes hold with a revision beyond the initial one, read in the
\* same process, replaces the value its client has read.
THEOREM StaleWritesRefused == ConfigSpec => []StaleWriteRefused
  <1>1. ConfigInv => StaleWriteRefused
    BY DEF ConfigInv, LockHeld, SnapshotsHonest, Honest, StaleWriteRefused, HasSnapshot
  <1> QED
    BY <1>1, ConfigInvariant, PTL

\* With one context, as the sinks suppose, the store in memory shows what is in the
\* file of the fields its sink writes, and of a patched field if it shows it at all,
\* whenever no apply is between its write and its commit (memory.rs and the two sinks
\* of product_config.rs).  Of the other fields it says nothing.
THEOREM MemoryFollowsFile ==
  ASSUME \A x, y \in Contexts : x = y
  PROVE  ConfigSpec => []MemoryMatchesFile
  <1>1. ConfigInit => MemoryMatchesFile
    BY DEF ConfigInit, MemoryMatchesFile, Absent
  <1>2. ConfigInv /\ MemoryMatchesFile /\ [ConfigNext]_configVars => MemoryMatchesFile'
    <2> SUFFICES ASSUME ConfigInv, MemoryMatchesFile, [ConfigNext]_configVars
                 PROVE  MemoryMatchesFile'
      OBVIOUS
    <2>1. CASE Restart
      BY <2>1 DEF Restart, MemoryMatchesFile, Absent
    <2>2. ASSUME NEW c \in Clients, ClientNext(c) PROVE MemoryMatchesFile'
      <3>1. CASE ApplyPersist(c)
        BY <3>1, ConfigAssumption DEF ApplyPersist, MemoryMatchesFile
      <3>2. CASE ApplyCommit(c)
        <4>1. client[c].context \in Contexts /\ Written(client[c].candidate)
          BY <3>2 DEF ApplyCommit, ConfigInv, Shapes, LockHeld, HasSnapshot
        <4> PICK x \in Contexts : x = client[c].context
          BY <4>1
        <4>2. store'[x].value = client[c].candidate /\ file' = file
          BY <3>2 DEF ApplyCommit, ConfigInv, Shapes
        <4>3. Written(store[x].value)'
          BY <4>1, <4>2 DEF Written
        <4>4. \A y \in Contexts : y = x
          OBVIOUS
        <4> QED
          BY <4>3, <4>4 DEF MemoryMatchesFile
      <3>3. CASE UNCHANGED <<store, lock, file>>
        BY <3>3 DEF MemoryMatchesFile, Written
      <3> QED
        BY <2>2, <3>1, <3>2, <3>3 DEF ClientNext, Read, ApplyConflict, ApplyPersistFails,
           Notify, NothingToReload, Reload, ReloadFails
    <2>3. CASE UNCHANGED configVars
      BY <2>3 DEF configVars, MemoryMatchesFile, Written
    <2> QED
      BY <2>1, <2>2, <2>3 DEF ConfigNext
  <1> QED
    BY <1>1, <1>2, ConfigInvariant, PTL DEF ConfigSpec

-----------------------------------------------------------------------------
(* The plugins catch up with the file.                                     *)

LEMMA Ranks ==
  /\ Rank("None") = 1 /\ Rank("Reconfigure") = 2 /\ Rank("PluginReload") = 3
  /\ Rank("BotRestart") = 4 /\ Rank("HostRestart") = 5
  BY DEF Rank, RestartPolicies

LEMMA PolicyNames ==
  ToSet(RestartPolicies) = {"None", "Reconfigure", "PluginReload", "BotRestart", "HostRestart"}
  BY DEF ToSet, RestartPolicies

\* Of several policies one is the strongest, and it is not None if one is not.
LEMMA SomeStrongest ==
  ASSUME NEW policies, policies \subseteq ToSet(RestartPolicies), NEW r \in policies, r # "None"
  PROVE  LET p == CHOOSE p \in policies : \A q \in policies : Rank(q) <= Rank(p)
         IN p \in ToSet(RestartPolicies) \ {"None"}
  <1> DEFINE Strongest(p) == \A q \in policies : Rank(q) <= Rank(p)
  <1>1. \A q \in policies :
          q = "None" \/ q = "Reconfigure" \/ q = "PluginReload" \/ q = "BotRestart" \/ q = "HostRestart"
    BY PolicyNames
  <1>2. \E p \in policies : Strongest(p)
    <2>1. CASE "HostRestart" \in policies BY <2>1, <1>1, Ranks
    <2>2. CASE "HostRestart" \notin policies /\ "BotRestart" \in policies BY <2>2, <1>1, Ranks
    <2>3. CASE /\ "HostRestart" \notin policies /\ "BotRestart" \notin policies
               /\ "PluginReload" \in policies
      BY <2>3, <1>1, Ranks
    <2>4. CASE /\ "HostRestart" \notin policies /\ "BotRestart" \notin policies
               /\ "PluginReload" \notin policies /\ "Reconfigure" \in policies
      BY <2>4, <1>1, Ranks
    <2> QED BY <1>1, <2>1, <2>2, <2>3, <2>4
  <1> DEFINE p == CHOOSE p \in policies : Strongest(p)
  <1>3. p \in policies /\ Strongest(p) BY <1>2
  <1>4. Rank(r) <= Rank(p) BY <1>3
  <1> HIDE DEF p
  <1>5. p # "None"
    <2> SUFFICES ASSUME p = "None" PROVE FALSE OBVIOUS
    <2>1. Rank(r) \in {2, 3, 4, 5} BY <1>1, Ranks
    <2> QED BY <2>1, <1>4, Ranks
  <1>6. p \in ToSet(RestartPolicies) \ {"None"} BY <1>3, <1>5
  <1> QED BY <1>6 DEF p

\* A change of a field that calls for a reload leaves something pending.
LEMMA ChangeIsPending ==
  ASSUME NEW diff \in SUBSET Fields, NEW f \in diff, Policy[f] \in {"Reconfigure", "PluginReload"}
  PROVE  PendingActions(RestartPolicyFor(diff)) # {}
  <1> DEFINE policies == {"None"} \cup {Policy[g] : g \in diff}
  <1>1. policies \subseteq ToSet(RestartPolicies)
    BY ConfigAssumption, PolicyNames
  <1>2. Policy[f] \in policies /\ Policy[f] # "None"
    OBVIOUS
  <1>3. RestartPolicyFor(diff) \in ToSet(RestartPolicies) \ {"None"}
    BY <1>1, <1>2, SomeStrongest DEF RestartPolicyFor
  <1> DEFINE policy == RestartPolicyFor(diff)
  <1>4. policy \in {"Reconfigure", "PluginReload", "BotRestart", "HostRestart"}
    BY <1>3, PolicyNames
  <1> HIDE DEF policy
  <1>5. PendingActions(policy) # {}
    BY <1>4 DEF PendingActions
  <1> QED BY <1>5 DEF policy

\* What a call between its commit and its answer carries.
InFlight(c) == client[c].stage \in {"persisting", "committed", "notified"}
Carries ==
  \A c \in Clients : client[c].stage \in {"committed", "notified"} =>
    client[c] = [stage |-> client[c].stage, context |-> client[c].context,
                 candidate |-> client[c].candidate, pending |-> client[c].pending,
                 revision |-> client[c].revision]

\* Memory shows the file whenever nobody holds the store, and when the plugins are
\* behind the file, somebody has yet to reload them or could not.
ReadsFile == lock = Nobody => \A x \in Contexts : Written(CurrentValue(x))
ReloadDue ==
  \/ owed = TRUE
  \/ RunningIsCurrent
  \/ \E c \in Clients : InFlight(c) /\ client[c].pending # {}
ReloadInv == Carries /\ ReadsFile /\ ReloadDue

LEMMA CarriesStep == ASSUME ConfigInv, Carries, [ConfigNext]_configVars PROVE Carries'
  <1>0. DOMAIN client = Clients
    BY DEF ConfigInv, Shapes
  <1>1. CASE Restart
    BY <1>1 DEF Restart, Carries, Idle
  <1>2. ASSUME NEW c \in Clients, ClientNext(c) PROVE Carries'
    <2>1. \A d \in Clients : d # c => client'[d] = client[d]
      BY <1>0, <1>2 DEF ClientNext, Read, ApplyConflict, ApplyPersist, ApplyPersistFails,
                        ApplyCommit, Notify, NothingToReload, Reload, ReloadFails
    <2>2. client'[c].stage \in {"committed", "notified"} =>
            client'[c] = [stage |-> client'[c].stage, context |-> client'[c].context,
                          candidate |-> client'[c].candidate, pending |-> client'[c].pending,
                          revision |-> client'[c].revision]
      <3>1. CASE Read(c) \/ ApplyConflict(c) \/ ApplyPersist(c) \/ ApplyPersistFails(c)
                 \/ NothingToReload(c) \/ Reload(c) \/ ReloadFails(c)
        <4>1. client'[c].stage \in {"idle", "editing", "persisting"}
          <5>1. CASE Read(c) BY <1>0, <5>1 DEF Read
          <5>2. CASE ApplyPersist(c) BY <1>0, <5>2 DEF ApplyPersist
          <5>3. CASE ApplyConflict(c) \/ ApplyPersistFails(c) \/ ReloadFails(c)
            BY <1>0, <5>3 DEF ApplyConflict, ApplyPersistFails, ReloadFails, Idle
          <5>4. CASE NothingToReload(c) BY <1>0, <5>4 DEF NothingToReload, Idle, Done
          <5>5. CASE Reload(c) BY <1>0, <5>5 DEF Reload, Done
          <5> QED BY <3>1, <5>1, <5>2, <5>3, <5>4, <5>5
        <4> QED BY <4>1
      <3>2. CASE ApplyCommit(c)
        BY <1>0, <3>2 DEF ApplyCommit
      <3>3. CASE Notify(c)
        <4> DEFINE k == client[c]
        <4>1. client'[c] = [k EXCEPT !.stage = "notified"] BY <1>0, <3>3 DEF Notify
        <4>2. k = [stage |-> k.stage, context |-> k.context, candidate |-> k.candidate,
                   pending |-> k.pending, revision |-> k.revision]
          BY <3>3 DEF Notify, Carries
        <4> HIDE DEF k
        <4>3. client'[c] = [stage |-> "notified", context |-> k.context, candidate |-> k.candidate,
                            pending |-> k.pending, revision |-> k.revision]
          BY <4>1, <4>2
        <4> QED BY <4>3
      <3> QED BY <1>2, <3>1, <3>2, <3>3 DEF ClientNext
    <2> QED BY <2>1, <2>2 DEF Carries
  <1>3. CASE UNCHANGED configVars
    BY <1>3 DEF configVars, Carries
  <1> QED BY <1>1, <1>2, <1>3 DEF ConfigNext

LEMMA ReadsFileStep ==
  ASSUME \A x, y \in Contexts : x = y, ConfigInv, ReadsFile, [ConfigNext]_configVars
  PROVE  ReadsFile'
  <1>1. CASE Restart
    BY <1>1 DEF Restart, ReadsFile, CurrentValue, Absent, Written
  <1>2. ASSUME NEW c \in Clients, ClientNext(c) PROVE ReadsFile'
    <2>1. CASE ApplyPersist(c)
      BY <2>1, ConfigAssumption DEF ApplyPersist, ReadsFile
    <2>2. CASE ApplyCommit(c)
      <3>1. client[c].context \in Contexts /\ Written(client[c].candidate)
        BY <2>2 DEF ApplyCommit, ConfigInv, Shapes, LockHeld, HasSnapshot
      <3> PICK x \in Contexts : x = client[c].context
        BY <3>1
      <3>2. CurrentValue(x)' = client[c].candidate /\ file' = file
        BY <2>2 DEF ApplyCommit, ConfigInv, Shapes, CurrentValue
      <3>3. Written(CurrentValue(x))'
        BY <3>1, <3>2 DEF Written
      <3>4. \A y \in Contexts : y = x
        OBVIOUS
      <3> QED
        BY <3>3, <3>4 DEF ReadsFile
    <2>3. CASE UNCHANGED <<store, defaults, lock, file>>
      BY <2>3 DEF ReadsFile, CurrentValue, Written
    <2> QED
      BY <1>2, <2>1, <2>2, <2>3 DEF ClientNext, Read, ApplyConflict, ApplyPersistFails,
         Notify, NothingToReload, Reload, ReloadFails
  <1>3. CASE UNCHANGED configVars
    BY <1>3 DEF configVars, ReadsFile, CurrentValue, Written
  <1> QED BY <1>1, <1>2, <1>3 DEF ConfigNext

LEMMA ReloadDueStep ==
  ASSUME ConfigInv, ReloadInv, [ConfigNext]_configVars
  PROVE  ReloadDue'
  <1>0. DOMAIN client = Clients /\ ReloadDue /\ Carries
    BY DEF ConfigInv, Shapes, ReloadInv
  <1>1. CASE Restart
    BY <1>1 DEF Restart, ReloadDue, RunningIsCurrent
  <1>2. ASSUME NEW c \in Clients, ClientNext(c) PROVE ReloadDue'
    <2>1. \A d \in Clients : d # c => client'[d] = client[d]
      BY <1>0, <1>2 DEF ClientNext, Read, ApplyConflict, ApplyPersist, ApplyPersistFails,
                        ApplyCommit, Notify, NothingToReload, Reload, ReloadFails
    <2>2. CASE Read(c) \/ ApplyConflict(c) \/ ApplyPersistFails(c)
      <3>1. ~InFlight(c) /\ UNCHANGED <<owed, running, file>>
        BY <2>2 DEF Read, ApplyConflict, ApplyPersistFails, InFlight
      <3> QED BY <1>0, <2>1, <3>1 DEF ReloadDue, RunningIsCurrent, InFlight
    <2>3. CASE ApplyPersist(c)
      <3> DEFINE x == client[c].context
      <3>1. PICK candidate \in Configs(provider) :
              /\ WriteFile(candidate)
              /\ client' = [client EXCEPT ![c] =
                   [stage |-> "persisting", context |-> x, epoch |-> @.epoch, value |-> @.value,
                    revision |-> @.revision, candidate |-> candidate,
                    pending |-> PendingActions(RestartPolicyFor(Diff(CurrentValue(x), candidate)))]]
        BY <2>3 DEF ApplyPersist
      <3>2. x \in Contexts /\ Written(CurrentValue(x))
        BY <2>3 DEF ApplyPersist, ConfigInv, Shapes, HasSnapshot, ReloadInv, ReadsFile
      <3>3. /\ client'[c].stage = "persisting"
            /\ client'[c].pending = PendingActions(RestartPolicyFor(Diff(CurrentValue(x), candidate)))
        BY <1>0, <3>1
      <3>4. UNCHANGED <<owed, running>> /\ client[c].stage = "editing"
        BY <2>3 DEF ApplyPersist
      <3>5. CASE \E f \in Fields : /\ Policy[f] \in {"Reconfigure", "PluginReload"}
                                   /\ file'[f] # file[f]
        <4> DEFINE before == CurrentValue(x)
                   diff == Diff(before, candidate)
        <4>0. PICK f \in Fields : /\ Policy[f] \in {"Reconfigure", "PluginReload"}
                                  /\ file'[f] # file[f]
          BY <3>5
        <4>1. f \in diff
          <5>1. Written(before) BY <3>2
          <5> HIDE DEF before
          <5>2. before[f] # candidate[f] BY <3>1, <4>0, <5>1, SinkChangesDiff
          <5> QED BY <5>2 DEF Diff
        <4>2. diff \in SUBSET Fields BY DEF Diff
        <4>3. client'[c].pending = PendingActions(RestartPolicyFor(diff)) BY <3>3
        <4> HIDE DEF diff
        <4>4. client'[c].pending # {} BY <4>0, <4>1, <4>2, <4>3, ChangeIsPending
        <4> QED BY <3>3, <4>4 DEF ReloadDue, InFlight
      <3>6. CASE \A f \in Fields : Policy[f] \in {"Reconfigure", "PluginReload"} =>
                                     file'[f] = file[f]
        <4>1. RunningIsCurrent => RunningIsCurrent'
          BY <3>4, <3>6 DEF RunningIsCurrent
        <4> QED BY <1>0, <2>1, <3>4, <4>1 DEF ReloadDue, InFlight
      <3> QED BY <3>5, <3>6
    <2>4. CASE ApplyCommit(c) \/ Notify(c)
      <3>1. UNCHANGED <<owed, running, file>> BY <2>4 DEF ApplyCommit, Notify
      <3>2. client'[c].stage \in {"committed", "notified"} /\ client'[c].pending = client[c].pending
        <4>1. CASE ApplyCommit(c) BY <1>0, <4>1 DEF ApplyCommit
        <4>2. CASE Notify(c)
          <5> DEFINE k == client[c]
          <5>1. client'[c] = [k EXCEPT !.stage = "notified"] BY <1>0, <4>2 DEF Notify
          <5>2. k = [stage |-> k.stage, context |-> k.context, candidate |-> k.candidate,
                     pending |-> k.pending, revision |-> k.revision]
            BY <1>0, <4>2 DEF Notify, Carries
          <5> HIDE DEF k
          <5>3. client'[c] = [stage |-> "notified", context |-> k.context,
                              candidate |-> k.candidate, pending |-> k.pending,
                              revision |-> k.revision]
            BY <5>1, <5>2
          <5>4. client'[c].stage = "notified" /\ client'[c].pending = k.pending BY <5>3
          <5> QED BY <5>4 DEF k
        <4> QED BY <2>4, <4>1, <4>2
      <3> QED BY <1>0, <2>1, <3>1, <3>2 DEF ReloadDue, RunningIsCurrent, InFlight
    <2>5. CASE NothingToReload(c)
      <3>1. UNCHANGED <<running, file>> BY <2>5 DEF NothingToReload
      <3>2. owed' = (owed \/ client[c].pending # {}) BY <2>5 DEF NothingToReload
      <3>3. CASE client[c].pending # {}
        <4>1. owed' = TRUE BY <3>2, <3>3
        <4> QED BY <4>1 DEF ReloadDue
      <3>4. CASE owed = TRUE
        <4>1. owed' = TRUE BY <3>2, <3>4
        <4> QED BY <4>1 DEF ReloadDue
      <3>5. CASE client[c].pending = {} /\ owed # TRUE
        BY <1>0, <2>1, <3>1, <3>5 DEF ReloadDue, RunningIsCurrent, InFlight
      <3> QED BY <3>3, <3>4, <3>5
    <2>6. CASE Reload(c)
      BY <2>6 DEF Reload, ReloadDue, RunningIsCurrent
    <2>7. CASE ReloadFails(c)
      BY <2>7 DEF ReloadFails, ReloadDue
    <2> QED BY <1>2, <2>2, <2>3, <2>4, <2>5, <2>6, <2>7 DEF ClientNext
  <1>3. CASE UNCHANGED configVars
    BY <1>0, <1>3 DEF configVars, ReloadDue, RunningIsCurrent, InFlight
  <1> QED BY <1>1, <1>2, <1>3 DEF ConfigNext

\* With one context, the plugins end up with what the file holds, in whatever order
\* concurrent applies persist, commit and reload, unless the last reload failed or
\* a restart is scheduled (service.rs, after the commit of memory.rs).
THEOREM ReloadsDoCatchUp ==
  ASSUME \A x, y \in Contexts : x = y
  PROVE  ConfigSpec => []ReloadsCatchUp
  <1>1. ConfigInit => ReloadInv
    BY DEF ConfigInit, ReloadInv, Carries, ReadsFile, ReloadDue, RunningIsCurrent, CurrentValue,
           Absent, Idle, Written
  <1>2. ConfigInv /\ ReloadInv /\ [ConfigNext]_configVars => ReloadInv'
    BY CarriesStep, ReadsFileStep, ReloadDueStep DEF ReloadInv
  <1>3. ReloadInv => ReloadsCatchUp
    BY DEF ReloadInv, ReloadDue, ReloadsCatchUp, Quiescent, InFlight
  <1> QED
    BY <1>1, <1>2, <1>3, ConfigInvariant, PTL DEF ConfigSpec

-----------------------------------------------------------------------------
(* Watchers: every commit is announced exactly once.                       *)

\* The revisions a context has gone through in this process.
Committed(x, r) ==
  /\ x \in Contexts /\ store[x].present = TRUE
  /\ r \in Nat /\ 1 <= r /\ r <= store[x].revision

Waiting(c, x, r) ==
  client[c].stage = "committed" /\ client[c].context = x /\ client[c].revision = r

\* Announced is what was committed, and nothing twice ...
EventsFine ==
  /\ events \in Seq(Contexts \X Nat)
  /\ \A i \in DOMAIN events : Committed(events[i][1], events[i][2])
  /\ \A i, j \in DOMAIN events : events[i] = events[j] => i = j

\* ... a commit that is still to be announced belongs to one client ...
WaitersFine ==
  /\ \A c \in Clients : \A x, r : Waiting(c, x, r) =>
       Committed(x, r) /\ \A i \in DOMAIN events : events[i] # <<x, r>>
  /\ \A c, d \in Clients : \A x, r : Waiting(c, x, r) /\ Waiting(d, x, r) => c = d

\* ... and there is no third kind.
NoneMissed ==
  \A x, r : Committed(x, r) =>
    \/ \E i \in DOMAIN events : events[i] = <<x, r>>
    \/ \E c \in Clients : Waiting(c, x, r)

WithinBound ==
  /\ \A x \in Contexts : store[x].present => store[x].revision <= MaxRevision
  /\ \A c \in Clients : client[c].stage = "persisting" =>
       CurrentRevision(client[c].context) < MaxRevision

AnnounceInv == EventsFine /\ WaitersFine /\ NoneMissed /\ WithinBound

\* A call that neither commits nor announces.
LEMMA QuietStep ==
  ASSUME ConfigInv, AnnounceInv, NEW c \in Clients, UNCHANGED <<store, events>>,
         \A d \in Clients : d # c => client'[d] = client[d],
         client[c].stage # "committed",
         client'[c].stage # "committed",
         client'[c].stage = "persisting" => (CurrentRevision(client[c].context) < MaxRevision)'
  PROVE  AnnounceInv'
  <1>1. \A x, r : Committed(x, r)' <=> Committed(x, r)
    BY DEF Committed
  <1>2. \A d \in Clients : \A x, r : Waiting(d, x, r)' <=> Waiting(d, x, r)
    BY DEF Waiting
  <1>3. \A x : CurrentRevision(x)' = CurrentRevision(x)
    BY DEF CurrentRevision
  <1>4. EventsFine' BY <1>1 DEF AnnounceInv, EventsFine
  <1>5. WaitersFine' BY <1>1, <1>2 DEF AnnounceInv, WaitersFine
  <1>6. NoneMissed' BY <1>1, <1>2 DEF AnnounceInv, NoneMissed
  <1>7. WithinBound'
    <2>1. ASSUME NEW d \in Clients, client'[d].stage = "persisting", d # c
          PROVE  (CurrentRevision(client[d].context) < MaxRevision)'
      <3>1. client'[d] = client[d] BY <2>1
      <3>2. CurrentRevision(client[d].context) < MaxRevision
        BY <2>1, <3>1 DEF AnnounceInv, WithinBound
      <3> QED BY <1>3, <3>1, <3>2
    <2> QED BY <2>1 DEF AnnounceInv, WithinBound
  <1> QED BY <1>4, <1>5, <1>6, <1>7 DEF AnnounceInv

\* A commit adds the next revision of its context, which nobody has seen.
LEMMA AnnounceAfterCommit ==
  ASSUME ConfigInv, AnnounceInv, NEW c \in Clients, ApplyCommit(c)
  PROVE  AnnounceInv'
  <1> DEFINE x == client[c].context
             r == IF store[x].present THEN store[x].revision + 1 ELSE InitialRevision
  <1>1. x \in Contexts /\ DOMAIN store = Contexts /\ DOMAIN client = Clients
    BY DEF ApplyCommit, ConfigInv, Shapes, HasSnapshot
  <1>2. store'[x].present = TRUE /\ store'[x].revision = r
    BY <1>1 DEF ApplyCommit
  <1>3. \A y \in Contexts : y # x => store'[y] = store[y]
    BY <1>1 DEF ApplyCommit
  <1>4. \A d \in Clients : d # c => client'[d] = client[d]
    BY <1>1 DEF ApplyCommit
  <1>5. client'[c].stage = "committed" /\ client'[c].context = x /\ client'[c].revision = r
    BY <1>1, <1>2 DEF ApplyCommit
  <1>6. UNCHANGED events /\ client[c].stage = "persisting"
    BY DEF ApplyCommit
  <1>7. r \in Nat /\ 1 <= r /\ (store[x].present => store[x].revision = r - 1 /\ store[x].revision \in Nat)
    BY <1>1 DEF ConfigInv, Shapes, InitialRevision
  <1>8. \A d \in Clients : d # c => client[d].stage # "persisting"
    BY <1>6 DEF ConfigInv, LockHeld
  <1>9. r <= MaxRevision
    <2>1. CurrentRevision(x) < MaxRevision
      BY <1>6 DEF AnnounceInv, WithinBound
    <2>2. MaxRevision \in Nat BY ConfigAssumption
    <2> QED BY <1>7, <2>1, <2>2 DEF CurrentRevision, InitialRevision
  <1> HIDE DEF x, r
  <1>10. ~Committed(x, r)
    BY <1>7 DEF Committed
  <1>11. \A y, n : Committed(y, n)' <=> Committed(y, n) \/ (y = x /\ n = r)
    <2> SUFFICES ASSUME NEW y, NEW n
                 PROVE  Committed(y, n)' <=> Committed(y, n) \/ (y = x /\ n = r)
      OBVIOUS
    <2>1. CASE y # x
      BY <2>1, <1>3 DEF Committed
    <2>2. CASE y = x /\ store[x].present = TRUE
      BY <2>2, <1>1, <1>2, <1>7 DEF Committed
    <2>3. CASE y = x /\ ~(store[x].present = TRUE)
      <3>1. store[x].present = FALSE BY <1>1, <2>3 DEF ConfigInv, Shapes
      <3>2. ~store[x].present BY <3>1
      <3>3. r = 1 BY <3>2 DEF r, InitialRevision
      <3> QED BY <2>3, <1>1, <1>2, <3>3 DEF Committed
    <2> QED BY <2>1, <2>2, <2>3
  <1>12. \A d \in Clients : \A y, n :
           Waiting(d, y, n)' <=> Waiting(d, y, n) \/ (d = c /\ y = x /\ n = r)
    BY <1>4, <1>5, <1>6 DEF Waiting
  <1>13. EventsFine'
    BY <1>6, <1>11 DEF AnnounceInv, EventsFine
  <1>14. \A i \in DOMAIN events : events[i] # <<x, r>>
    BY <1>10 DEF AnnounceInv, EventsFine
  <1>15. WaitersFine'
    BY <1>6, <1>10, <1>11, <1>12, <1>14 DEF AnnounceInv, WaitersFine
  <1>16. NoneMissed'
    BY <1>6, <1>11, <1>12 DEF AnnounceInv, NoneMissed
  <1>17. WithinBound'
    <2>1. \A d \in Clients : client'[d].stage # "persisting"
      BY <1>4, <1>5, <1>8
    <2> QED BY <2>1, <1>2, <1>3, <1>9 DEF AnnounceInv, WithinBound
  <1> QED BY <1>13, <1>15, <1>16, <1>17 DEF AnnounceInv

\* An announcement moves one revision from its client to the events.
LEMMA AnnounceAfterNotify ==
  ASSUME ConfigInv, Carries, AnnounceInv, NEW c \in Clients, Notify(c), Carries'
  PROVE  AnnounceInv'
  <1> DEFINE x == client[c].context
             r == client[c].revision
             n == Len(events)
  <1>1. DOMAIN client = Clients
    BY DEF ConfigInv, Shapes
  <1>2. Waiting(c, x, r)
    BY DEF Notify, Waiting
  <1>3. Committed(x, r) /\ \A i \in DOMAIN events : events[i] # <<x, r>>
    BY <1>2 DEF AnnounceInv, WaitersFine
  <1>4. events \in Seq(Contexts \X Nat) /\ <<x, r>> \in Contexts \X Nat
    BY <1>3 DEF AnnounceInv, EventsFine, Committed
  <1>5. events' = Append(events, <<x, r>>)
    BY DEF Notify
  <1>6. client'[c].stage = "notified"
    <2> DEFINE k == client[c]
    <2>1. client'[c] = [k EXCEPT !.stage = "notified"] BY <1>1 DEF Notify
    <2>2. k = [stage |-> k.stage, context |-> k.context, candidate |-> k.candidate,
               pending |-> k.pending, revision |-> k.revision]
      BY DEF Notify, Carries
    <2> HIDE DEF k
    <2>3. client'[c] = [stage |-> "notified", context |-> k.context, candidate |-> k.candidate,
                        pending |-> k.pending, revision |-> k.revision]
      BY <2>1, <2>2
    <2> QED BY <2>3
  <1>7. \A d \in Clients : d # c => client'[d] = client[d]
    BY <1>1 DEF Notify
  <1>8. UNCHANGED store
    BY DEF Notify
  <1> HIDE DEF x, r, n
  <1>9. /\ events' \in Seq(Contexts \X Nat)
        /\ DOMAIN events' = 1..n + 1 /\ DOMAIN events = 1..n /\ n \in Nat
        /\ \A i \in 1..n : events'[i] = events[i]
        /\ events'[n + 1] = <<x, r>>
    BY <1>4, <1>5 DEF n
  <1>10. \A y, m : Committed(y, m)' <=> Committed(y, m)
    BY <1>8 DEF Committed
  <1>11. \A d \in Clients : \A y, m : Waiting(d, y, m)' <=> Waiting(d, y, m) /\ d # c
    BY <1>6, <1>7 DEF Waiting
  <1>12. \A y, m : (\E i \in DOMAIN events' : events'[i] = <<y, m>>) <=>
                   (\E i \in DOMAIN events : events[i] = <<y, m>>) \/ (y = x /\ m = r)
    <2> SUFFICES ASSUME NEW y, NEW m
                 PROVE  (\E i \in 1..n + 1 : events'[i] = <<y, m>>) <=>
                        (\E i \in 1..n : events[i] = <<y, m>>) \/ (y = x /\ m = r)
      BY <1>9
    <2>1. \A i \in 1..n + 1 : i \in 1..n \/ i = n + 1 BY <1>9
    <2>2. \A i \in 1..n : i \in 1..n + 1 BY <1>9
    <2>3. n + 1 \in 1..n + 1 BY <1>9
    <2>4. <<x, r>> = <<y, m>> <=> y = x /\ m = r OBVIOUS
    <2> QED BY <1>9, <2>1, <2>2, <2>3, <2>4
  <1>13. EventsFine'
    <2>1. \A i \in DOMAIN events' : Committed(events'[i][1], events'[i][2])
      BY <1>3, <1>9 DEF AnnounceInv, EventsFine
    <2>2. \A i, j \in DOMAIN events' : events'[i] = events'[j] => i = j
      <3> SUFFICES ASSUME NEW i \in 1..n + 1, NEW j \in 1..n + 1, events'[i] = events'[j]
                   PROVE  i = j
        BY <1>9
      <3>1. CASE i = n + 1 /\ j # n + 1
        <4>1. j \in 1..n BY <1>9, <3>1
        <4> QED BY <1>3, <1>9, <3>1, <4>1
      <3>2. CASE i # n + 1 /\ j = n + 1
        <4>1. i \in 1..n BY <1>9, <3>2
        <4> QED BY <1>3, <1>9, <3>2, <4>1
      <3>3. CASE i # n + 1 /\ j # n + 1
        <4>1. i \in 1..n /\ j \in 1..n BY <1>9, <3>3
        <4>2. events[i] = events[j] BY <1>9, <4>1
        <4> QED BY <1>9, <4>1, <4>2 DEF AnnounceInv, EventsFine
      <3> QED BY <3>1, <3>2, <3>3
    <2> QED BY <1>9, <1>10, <2>1, <2>2 DEF EventsFine
  <1>14. \A d \in Clients : Waiting(d, x, r) => d = c
    BY <1>2 DEF AnnounceInv, WaitersFine
  <1>15. WaitersFine'
    <2>1. \A d \in Clients : \A y, m : Waiting(d, y, m)' =>
            Committed(y, m)' /\ \A i \in DOMAIN events' : events'[i] # <<y, m>>
      BY <1>10, <1>11, <1>12, <1>14 DEF AnnounceInv, WaitersFine
    <2>2. \A d, e \in Clients : \A y, m : Waiting(d, y, m)' /\ Waiting(e, y, m)' => d = e
      BY <1>11 DEF AnnounceInv, WaitersFine
    <2> QED BY <2>1, <2>2 DEF WaitersFine
  <1>16. NoneMissed'
    <2> SUFFICES ASSUME NEW y, NEW m, Committed(y, m)
                 PROVE  \/ \E i \in DOMAIN events' : events'[i] = <<y, m>>
                        \/ \E d \in Clients : Waiting(d, y, m)'
      BY <1>10 DEF NoneMissed
    <2>1. CASE y = x /\ m = r
      BY <2>1, <1>12
    <2>2. CASE ~(y = x /\ m = r)
      <3>1. ~Waiting(c, y, m) BY <2>2 DEF Waiting, x, r
      <3> QED BY <3>1, <1>11, <1>12 DEF AnnounceInv, NoneMissed
    <2> QED BY <2>1, <2>2
  <1>17. WithinBound'
    <2>1. \A y : CurrentRevision(y)' = CurrentRevision(y) BY <1>8 DEF CurrentRevision
    <2> QED BY <1>6, <1>7, <1>8, <2>1 DEF AnnounceInv, WithinBound
  <1> QED BY <1>13, <1>15, <1>16, <1>17 DEF AnnounceInv

LEMMA AnnounceStep ==
  ASSUME ConfigInv, Carries, Carries', AnnounceInv, [ConfigNext]_configVars
  PROVE  AnnounceInv'
  <1>0. DOMAIN client = Clients
    BY DEF ConfigInv, Shapes
  <1>1. CASE Restart
    <2>1. \A x \in Contexts : store'[x].present = FALSE
      BY <1>1 DEF Restart, Absent
    <2>2. \A c \in Clients : client'[c].stage \notin {"committed", "persisting"}
      BY <1>1 DEF Restart, Idle
    <2>3. \A x, r : ~Committed(x, r)' BY <2>1 DEF Committed
    <2>4. \A c \in Clients : \A x, r : ~Waiting(c, x, r)' BY <2>2 DEF Waiting
    <2>5. events' = <<>> BY <1>1 DEF Restart
    <2>6. EventsFine' BY <2>5 DEF EventsFine
    <2>7. WaitersFine' BY <2>4 DEF WaitersFine
    <2>8. NoneMissed' BY <2>3 DEF NoneMissed
    <2>9. WithinBound' BY <2>1, <2>2 DEF WithinBound
    <2> QED BY <2>6, <2>7, <2>8, <2>9 DEF AnnounceInv
  <1>2. ASSUME NEW c \in Clients, ClientNext(c) PROVE AnnounceInv'
    <2>1. \A d \in Clients : d # c => client'[d] = client[d]
      BY <1>0, <1>2 DEF ClientNext, Read, ApplyConflict, ApplyPersist, ApplyPersistFails,
                        ApplyCommit, Notify, NothingToReload, Reload, ReloadFails
    <2>2. CASE Read(c) \/ ApplyConflict(c) \/ ApplyPersistFails(c)
               \/ NothingToReload(c) \/ Reload(c) \/ ReloadFails(c)
      <3>1. client'[c].stage \in {"idle", "editing"}
        <4>1. CASE Read(c) BY <1>0, <4>1 DEF Read
        <4>2. CASE ApplyConflict(c) \/ ApplyPersistFails(c) \/ ReloadFails(c)
          BY <1>0, <4>2 DEF ApplyConflict, ApplyPersistFails, ReloadFails, Idle
        <4>3. CASE NothingToReload(c) BY <1>0, <4>3 DEF NothingToReload, Idle, Done
        <4>4. CASE Reload(c) BY <1>0, <4>4 DEF Reload, Done
        <4> QED BY <2>2, <4>1, <4>2, <4>3, <4>4
      <3>2. client[c].stage # "committed" /\ UNCHANGED <<store, events>>
        BY <2>2 DEF Read, ApplyConflict, ApplyPersistFails, NothingToReload, Reload, ReloadFails
      <3> QED BY <2>1, <3>1, <3>2, QuietStep
    <2>3. CASE ApplyPersist(c)
      <3>1. client'[c].stage = "persisting" /\ client'[c].context = client[c].context
        BY <1>0, <2>3 DEF ApplyPersist
      <3>2. client[c].stage # "committed" /\ UNCHANGED <<store, events>>
        BY <2>3 DEF ApplyPersist
      <3>3. (CurrentRevision(client[c].context) < MaxRevision)'
        BY <2>3, <3>1 DEF ApplyPersist, CurrentRevision
      <3> QED BY <2>1, <3>1, <3>2, <3>3, QuietStep
    <2>4. CASE ApplyCommit(c) BY <2>4, AnnounceAfterCommit
    <2>5. CASE Notify(c) BY <2>5, AnnounceAfterNotify
    <2> QED BY <1>2, <2>2, <2>3, <2>4, <2>5 DEF ClientNext
  <1>3. CASE UNCHANGED configVars
    <2>1. UNCHANGED <<store, events, client>> BY <1>3 DEF configVars
    <2> QED BY <2>1 DEF AnnounceInv, EventsFine, WaitersFine, NoneMissed, WithinBound,
                        Committed, Waiting, CurrentRevision
  <1> QED BY <1>1, <1>2, <1>3 DEF ConfigNext

\* A sequence without repetitions has as many elements as places.
LEMMA DistinctElements ==
  ASSUME NEW S, NEW s \in Seq(S), \A i, j \in DOMAIN s : s[i] = s[j] => i = j
  PROVE  Cardinality(ToSet(s)) = Len(s)
  <1>1. s \in [1..Len(s) -> ToSet(s)] /\ DOMAIN s = 1..Len(s) /\ Len(s) \in Nat
    BY DEF ToSet
  <1>2. \A t \in ToSet(s) : \E i \in 1..Len(s) : s[i] = t
    BY <1>1 DEF ToSet
  <1>3. s \in Bijection(1..Len(s), ToSet(s))
    BY <1>1, <1>2, Fun_IsBij
  <1>4. ExistsBijection(1..Len(s), ToSet(s))
    BY <1>3 DEF ExistsBijection
  <1> QED BY <1>1, <1>4, FS_CountingElements

LEMMA QuietAnnounced == ConfigInv /\ AnnounceInv => EveryCommitAnnounced
  <1> SUFFICES ASSUME ConfigInv, AnnounceInv, Quiescent PROVE
        /\ Cardinality(ToSet(events)) = Len(events)
        /\ ToSet(events) = {x \in Contexts \X (1..MaxRevision) :
                              store[x[1]].present /\ x[2] <= store[x[1]].revision}
    BY DEF EveryCommitAnnounced
  <1>1. events \in Seq(Contexts \X Nat)
    BY DEF AnnounceInv, EventsFine
  <1>2. Cardinality(ToSet(events)) = Len(events)
    BY <1>1, DistinctElements DEF AnnounceInv, EventsFine
  <1>3. \A c \in Clients : \A x, r : ~Waiting(c, x, r)
    BY DEF Quiescent, Waiting
  <1>4. \A x, r : Committed(x, r) <=> \E i \in DOMAIN events : events[i] = <<x, r>>
    BY <1>1, <1>3 DEF AnnounceInv, EventsFine, NoneMissed
  <1>5. \A x, r : Committed(x, r) <=> /\ x \in Contexts /\ r \in 1..MaxRevision
                                      /\ store[x].present /\ r <= store[x].revision
    BY ConfigAssumption DEF Committed, AnnounceInv, WithinBound, ConfigInv, Shapes
  <1>6. \A e : e \in ToSet(events) => e \in Contexts \X Nat
    BY <1>1 DEF ToSet
  <1>7. \A x, r : <<x, r>> \in ToSet(events) <=> Committed(x, r)
    BY <1>4 DEF ToSet
  <1>8. ToSet(events) = {x \in Contexts \X (1..MaxRevision) :
                           store[x[1]].present /\ x[2] <= store[x[1]].revision}
    BY <1>5, <1>6, <1>7
  <1> QED BY <1>2, <1>8

\* Whatever the interleaving of clients, the watchers hear of every commit of this
\* process exactly once (service.rs, after the commit of memory.rs).
THEOREM CommitsAreAnnounced == ConfigSpec => []EveryCommitAnnounced
  <1>1. ConfigInit => Carries /\ AnnounceInv
    <2> SUFFICES ASSUME ConfigInit PROVE Carries /\ AnnounceInv
      OBVIOUS
    <2>1. \A x, r : ~Committed(x, r) BY DEF ConfigInit, Absent, Committed
    <2>2. \A c \in Clients : client[c].stage = "idle" BY DEF ConfigInit, Idle
    <2>3. \A x \in Contexts : store[x].present = FALSE BY DEF ConfigInit, Absent
    <2>4. events = <<>> BY DEF ConfigInit
    <2>5. EventsFine BY <2>4 DEF EventsFine
    <2>6. WaitersFine /\ NoneMissed BY <2>1, <2>2 DEF WaitersFine, NoneMissed, Waiting
    <2>7. WithinBound BY <2>2, <2>3 DEF WithinBound
    <2>8. Carries BY <2>2 DEF Carries
    <2> QED BY <2>5, <2>6, <2>7, <2>8 DEF AnnounceInv
  <1>2. ConfigInv /\ Carries /\ AnnounceInv /\ [ConfigNext]_configVars => Carries' /\ AnnounceInv'
    BY CarriesStep, AnnounceStep
  <1> QED
    BY <1>1, <1>2, QuietAnnounced, ConfigInvariant, PTL DEF ConfigSpec
=============================================================================
