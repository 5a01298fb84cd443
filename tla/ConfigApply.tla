---------------------------- MODULE ConfigApply ----------------------------
(***************************************************************************)
(* The configuration service as the product assembles it: ConfigService    *)
(* (mutsuki-bot-config/src/service.rs) over one MemoryConfigProvider with a *)
(* persist sink (memory.rs, persist.rs), the lifecycle that reloads the    *)
(* plugins (mutsuki-bot-web-console), and clients that read a snapshot and *)
(* later apply a candidate with the revision they read.                    *)
(*                                                                         *)
(* The product registers two providers that share nothing but the product  *)
(* file, so a behaviour is about one of them.  A configuration gives every *)
(* field a value or is Missing it; a candidate that reaches the store has  *)
(* passed validate_structure, so it has the fields of its schema and all   *)
(* of them but the optional ones.  What the sink makes of a field differs: *)
(* the command plugin's replaces its configuration in the file, that of    *)
(* the product patches four keys with what the candidate holds of them and *)
(* leaves the rest of the file alone.  apply does not look at read_only.   *)
(* No field is a secret in either schema, so merge_secrets returns its     *)
(* candidate.  An apply is cut where other calls can come in between: it   *)
(* persists and commits under the mutex of the store, then notifies, then  *)
(* runs the lifecycle with no lock held.                                   *)
(* validate and a dry run change nothing.  A definition named after a      *)
(* slip, such as WriteNothing, is a mutant of the one that follows it and  *)
(* no part of the model.                                                   *)
(***************************************************************************)
EXTENDS Integers, Sequences, SequencesExt, FiniteSets

CONSTANTS
  Clients,
  Contexts,            \* the storage keys clients use; the sink ignores them
  Fields, Values,      \* of the schemas
  ProviderFields,      \* provider -> the fields of its schema
  Optional,            \* the fields a candidate may leave out
  Policy,              \* restart_policy of each field
  Sink,                \* what the provider's sink does with each field
  MaxRevision,         \* bound on the revisions of one process
  MaxPersistFailures,  \* bound on the failures of the persist sink
  MaxReloadFailures,   \* bound on the failures of plugin_reload
  MaxCrashes           \* bound on the restarts of the process

RestartPolicies == <<"None", "Reconfigure", "PluginReload", "BotRestart", "HostRestart">>

\* A sink replaces the field in the file, patches it if the candidate has it, or
\* leaves it alone.
SinkModes == {"replace", "patch", "skip"}

Nobody == "nobody"
Missing == "missing"

ASSUME ConfigAssumption ==
  /\ Policy \in [Fields -> ToSet(RestartPolicies)]
  /\ Sink \in [Fields -> SinkModes]
  /\ \A p \in DOMAIN ProviderFields : ProviderFields[p] \subseteq Fields
  /\ Optional \subseteq Fields
  /\ {MaxRevision, MaxPersistFailures, MaxReloadFailures, MaxCrashes} \subseteq Nat
  /\ Fields # {} /\ Values # {} /\ Clients # {} /\ Contexts # {}
  /\ Nobody \notin Clients /\ Missing \notin Values

VARIABLES
  provider,   \* the provider a behaviour is about
  store,      \* store: HashMap<String, Stored>, a context without entry is Absent
  defaults,   \* defaults: what the file held when the process started
  lock,       \* who holds the mutex of the store across the sink, or Nobody
  file,       \* what the product file has for the fields of the provider
  running,    \* the config the plugins were last loaded with
  client,     \* each client's call
  epoch,      \* how many processes there have been
  events,     \* history: the RevisionChangedEvents of this process, in order
  owed,       \* history: a reload failed or a restart was scheduled, and no load since
  persistFailures, reloadFailures

configVars == <<provider, store, defaults, lock, file, running, client, epoch, events, owed,
                persistFailures, reloadFailures>>

\* What the schema of a provider admits, and what the file gives all its fields:
\* product_defaults fills in what it does not say.
Configs(p) ==
  {config \in [Fields -> Values \cup {Missing}] : \A f \in Fields :
     IF f \in ProviderFields[p] THEN config[f] = Missing => f \in Optional
     ELSE config[f] = Missing}
Complete(p) == {config \in Configs(p) : \A f \in ProviderFields[p] : config[f] # Missing}
Absent == [present |-> FALSE]
InitialRevision == 1  \* ConfigRevision::initial

\* What read and apply take for the current value and revision of a context.
CurrentValue(x) == IF store[x].present THEN store[x].value ELSE defaults
CurrentRevision(x) == IF store[x].present THEN store[x].revision ELSE InitialRevision

\* A client that has no snapshot, with the answer to its last apply; an apply that
\* took hold is known by its context and revision.
Idle(outcome) == [stage |-> "idle", outcome |-> outcome]
Done(call) == [stage |-> "idle", outcome |-> "done", context |-> call.context,
               revision |-> call.revision]

-----------------------------------------------------------------------------
(* What an apply asks for.                                                 *)

Rank(policy) == CHOOSE i \in DOMAIN RestartPolicies : RestartPolicies[i] = policy

\* diff_objects and restart_policy_for: the strongest policy of a changed field.
Diff(before, after) == {f \in Fields : before[f] # after[f]}
RestartPolicyFor(diff) ==
  LET policies == {"None"} \cup {Policy[f] : f \in diff}
  IN CHOOSE p \in policies : \A q \in policies : Rank(q) <= Rank(p)

\* The pending half of actions_for.  The apply mode makes a difference for
\* Reconfigure alone, and no product schema has a field of that policy.
PendingActions(policy) ==
  CASE policy = "None" -> {}
    [] policy \in {"Reconfigure", "PluginReload"} -> {"PluginReloaded"}
    [] policy = "BotRestart" -> {"BotRestartScheduled"}
    [] policy = "HostRestart" -> {"HostRestartScheduled"}

-----------------------------------------------------------------------------
ConfigInit ==
  /\ store = [x \in Contexts |-> Absent]
  /\ provider \in DOMAIN ProviderFields
  /\ file \in Complete(provider) /\ defaults = file /\ running = file
  /\ lock = Nobody
  /\ client = [c \in Clients |-> Idle("none")]
  /\ epoch = 1
  /\ events = <<>>
  /\ owed = FALSE
  /\ persistFailures = 0 /\ reloadFailures = 0

\* read: a snapshot of one context.
Read(c) ==
  /\ client[c].stage = "idle"
  /\ lock = Nobody
  /\ \E x \in Contexts :
       client' = [client EXCEPT ![c] =
         [stage |-> "editing", context |-> x, epoch |-> epoch,
          value |-> CurrentValue(x), revision |-> CurrentRevision(x)]]
  /\ UNCHANGED <<store, defaults, lock, file, running, epoch, events, owed,
                 persistFailures, reloadFailures>>

\* The optimistic check of apply.
NotOlderThanCurrent(c) == CurrentRevision(client[c].context) >= client[c].revision
ExpectsCurrent(c) == CurrentRevision(client[c].context) = client[c].revision

\* The sink replaces the plugin's configuration in the file, or writes what the
\* candidate holds of its four keys.
WriteNothing(candidate) == UNCHANGED file
WriteFile(candidate) ==
  file' = [f \in Fields |->
    CASE Sink[f] = "replace" -> candidate[f]
      [] Sink[f] = "patch" -> IF candidate[f] # Missing THEN candidate[f] ELSE file[f]
      [] Sink[f] = "skip" -> file[f]]

\* apply refuses a revision that is not the current one, and changes nothing.
ApplyConflict(c) ==
  /\ client[c].stage = "editing"
  /\ lock = Nobody
  /\ ~ExpectsCurrent(c)
  /\ client' = [client EXCEPT ![c] = Idle("conflict")]
  /\ UNCHANGED <<store, defaults, lock, file, running, epoch, events, owed,
                 persistFailures, reloadFailures>>

\* apply with the current revision takes the mutex and keeps it while the sink
\* writes the file.
ApplyPersist(c) ==
  LET x == client[c].context IN
  /\ client[c].stage = "editing"
  /\ lock = Nobody
  /\ ExpectsCurrent(c)
  /\ CurrentRevision(x) < MaxRevision
  /\ lock' = c
  /\ \E candidate \in Configs(provider) :
       /\ WriteFile(candidate)
       /\ client' = [client EXCEPT ![c] =
            [stage |-> "persisting", context |-> x, epoch |-> @.epoch, value |-> @.value,
             revision |-> @.revision, candidate |-> candidate,
             pending |-> PendingActions(RestartPolicyFor(Diff(CurrentValue(x), candidate)))]]
  /\ UNCHANGED <<store, defaults, running, epoch, events, owed,
                 persistFailures, reloadFailures>>

\* The sink rejects the candidate or cannot write: nothing is committed.
ApplyPersistFails(c) ==
  /\ client[c].stage = "editing"
  /\ lock = Nobody
  /\ ExpectsCurrent(c)
  /\ persistFailures < MaxPersistFailures
  /\ persistFailures' = persistFailures + 1
  /\ client' = [client EXCEPT ![c] = Idle("failed")]
  /\ UNCHANGED <<store, defaults, lock, file, running, epoch, events, owed,
                 reloadFailures>>

\* The commit in memory: the first one of a context keeps the initial revision.
ApplyCommit(c) ==
  LET x == client[c].context IN
  /\ client[c].stage = "persisting"
  /\ store' = [store EXCEPT ![x] =
       [present |-> TRUE, value |-> client[c].candidate,
        revision |-> IF @.present THEN @.revision + 1 ELSE InitialRevision]]
  /\ lock' = Nobody
  /\ client' = [client EXCEPT ![c] =
       [stage |-> "committed", context |-> x, candidate |-> @.candidate,
        pending |-> @.pending, revision |-> store'[x].revision]]
  /\ UNCHANGED <<defaults, file, running, epoch, events, owed,
                 persistFailures, reloadFailures>>

\* ConfigService tells the watchers ...
NotifyCurrentRevision(c) ==
  /\ client[c].stage = "committed"
  /\ events' = Append(events, <<client[c].context, CurrentRevision(client[c].context)>>)
  /\ client' = [client EXCEPT ![c] = [@ EXCEPT !.stage = "notified"]]
  /\ UNCHANGED <<store, defaults, lock, file, running, epoch, owed,
                 persistFailures, reloadFailures>>
Notify(c) ==
  /\ client[c].stage = "committed"
  /\ events' = Append(events, <<client[c].context, client[c].revision>>)
  /\ client' = [client EXCEPT ![c] = [@ EXCEPT !.stage = "notified"]]
  /\ UNCHANGED <<store, defaults, lock, file, running, epoch, owed,
                 persistFailures, reloadFailures>>

\* ... and runs the lifecycle.  It has nothing to do without a reload pending;
\* scheduled restarts stay pending in the answer.
NothingToReload(c) ==
  /\ client[c].stage = "notified"
  /\ "PluginReloaded" \notin client[c].pending
  /\ client' = [client EXCEPT ![c] = IF @.pending = {} THEN Done(@) ELSE Idle("scheduled")]
  /\ owed' = (owed \/ client[c].pending # {})
  /\ UNCHANGED <<store, defaults, lock, file, running, epoch, events,
                 persistFailures, reloadFailures>>

\* plugin_reload loads the plugins with what the file holds now ...
ReloadOwnCandidate(c) ==
  /\ client[c].stage = "notified"
  /\ "PluginReloaded" \in client[c].pending
  /\ running' = client[c].candidate
  /\ owed' = FALSE
  /\ client' = [client EXCEPT ![c] = Done(@)]
  /\ UNCHANGED <<store, defaults, lock, file, epoch, events, persistFailures, reloadFailures>>
Reload(c) ==
  /\ client[c].stage = "notified"
  /\ "PluginReloaded" \in client[c].pending
  /\ running' = file
  /\ owed' = FALSE
  /\ client' = [client EXCEPT ![c] = Done(@)]
  /\ UNCHANGED <<store, defaults, lock, file, epoch, events, persistFailures, reloadFailures>>

\* ... or fails, and the apply answers with an error.
ReloadFails(c) ==
  /\ client[c].stage = "notified"
  /\ "PluginReloaded" \in client[c].pending
  /\ reloadFailures < MaxReloadFailures
  /\ reloadFailures' = reloadFailures + 1
  /\ owed' = TRUE
  /\ client' = [client EXCEPT ![c] = Idle("failed")]
  /\ UNCHANGED <<store, defaults, lock, file, running, epoch, events, persistFailures>>

\* The process dies and starts again from the file: the store, its revisions and
\* the calls in flight are gone, a client that was editing keeps its snapshot.
Restart ==
  /\ epoch <= MaxCrashes
  /\ epoch' = epoch + 1
  /\ store' = [x \in Contexts |-> Absent]
  /\ defaults' = file /\ running' = file
  /\ lock' = Nobody
  /\ client' = [c \in Clients |->
       IF client[c].stage \in {"idle", "editing"} THEN client[c] ELSE Idle("lost")]
  /\ events' = <<>>
  /\ owed' = FALSE
  /\ UNCHANGED <<file, persistFailures, reloadFailures>>

ClientNext(c) ==
  \/ Read(c) \/ ApplyConflict(c) \/ ApplyPersist(c) \/ ApplyPersistFails(c)
  \/ ApplyCommit(c) \/ Notify(c) \/ NothingToReload(c) \/ Reload(c) \/ ReloadFails(c)

ConfigNext == UNCHANGED provider /\ (Restart \/ \E c \in Clients : ClientNext(c))

ConfigSpec == ConfigInit /\ [][ConfigNext]_configVars

-----------------------------------------------------------------------------
(* Properties.                                                             *)

\* The file holds what a sink was given of a value: all of a replaced field, a
\* patched one if it was there.
Written(value) ==
  \A f \in Fields :
    /\ Sink[f] = "replace" => value[f] = file[f]
    /\ Sink[f] = "patch" => value[f] \in {Missing, file[f]}

\* The file is written before the commit in memory and never without it: while no
\* apply holds the store, both agree on every field the sink writes, however often
\* the sink fails or the process dies (persist.rs: "Fail loud; do not advance
\* revision on Err").  On the fields it does not write, the read-only ones of the
\* product, and on one that a candidate leaves out, they may differ until the
\* process restarts.
MemoryMatchesFile ==
  lock = Nobody => \A x \in Contexts : store[x].present => Written(store[x].value)

\* An apply that takes hold replaces the value its client had read: optimistic
\* concurrency on the revision, for whoever is about to overwrite the file.
BasedOnCurrent(c) == client[c].value = CurrentValue(client[c].context)
NoLostUpdate == \A c \in Clients : client[c].stage = "persisting" => BasedOnCurrent(c)

\* What the revisions do protect: a snapshot taken in this process with a
\* revision beyond the initial one is refused once another apply has committed.
StaleWriteRefused ==
  \A c \in Clients :
    client[c].stage = "persisting" /\ client[c].epoch = epoch
      /\ client[c].revision > InitialRevision => BasedOnCurrent(c)

Quiescent == \A c \in Clients : client[c].stage \in {"idle", "editing"}

\* The plugins run with the fields that call for a reload.
RunningIsCurrent ==
  \A f \in Fields : Policy[f] \in {"Reconfigure", "PluginReload"} => running[f] = file[f]

\* Whatever the order in which concurrent applies persist, commit and reload, the
\* plugins end up with the last configuration, unless the last reload failed or they
\* wait for a scheduled restart.
ReloadsCatchUp == Quiescent /\ ~owed => RunningIsCurrent

\* Every commit is announced to the watchers, exactly once.
EveryCommitAnnounced ==
  Quiescent =>
    /\ Cardinality(ToSet(events)) = Len(events)
    /\ ToSet(events) = {x \in Contexts \X (1..MaxRevision) :
                          store[x[1]].present /\ x[2] <= store[x[1]].revision}

\* An apply answered without an error and with nothing pending has its
\* configuration running, as long as no later apply replaces it.
DoneMeansRunning ==
  \A c \in Clients :
    Quiescent /\ client[c].stage = "idle" /\ client[c].outcome = "done"
      /\ client[c].revision = CurrentRevision(client[c].context) => RunningIsCurrent
=============================================================================
