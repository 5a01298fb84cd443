--------------------------- MODULE CatalogUpgrade ---------------------------
(***************************************************************************)
(* The upgrade of a module (mutsuki-plugin-catalog): a plan is made from   *)
(* the release set, then the steps fetch, build and abi run on a checkout, *)
(* each whether or not the one before failed, and a report says how they   *)
(* went.  The command line executes, the web console (bot-upgrade-web)     *)
(* shows plans and dry runs.  Nothing keeps two executions from using one  *)
(* checkout.                                                               *)
(*                                                                         *)
(* A revision is a commit; an abbreviated one is the same revision.        *)
(* KeepSuccess and FetchAnyway are mutants of what follows them.           *)
(***************************************************************************)
EXTENDS Naturals, Sequences, SequencesExt

CONSTANTS
  Repositories,  \* of the release set: [id, kind, revision]
  PluginKits,    \* the ids that end in _plugins
  Revisions,     \* commits
  Callers,       \* command lines, and the console
  Checkouts,     \* what the checkout may be at first
  OptionSets     \* the options an execution may have

ASSUME CatalogAssumption ==
  /\ "web" \in Callers
  /\ Checkouts \subseteq [git : BOOLEAN, manifest : BOOLEAN,
                          head : Revisions, built : SUBSET Revisions]

VARIABLES
  repo,      \* the module that is upgraded
  checkout,  \* its directory: its head, and the revisions that libraries were built of
  upgrades,  \* of each caller: the execution it is at
  shown      \* what the console showed last: a status, or the revision of a plan

catalogVars == <<repo, checkout, upgrades, shown>>

NotStarted == [at |-> "idle"]

\* An execution: where it is, what it is to bring, the steps it reports, of which
\* revisions the libraries are that it verified, and whether another execution
\* changed the checkout under it.
Execution(target, options) ==
  [at |-> "fetch", target |-> target, options |-> options, steps |-> <<>>,
   success |-> TRUE, verified |-> {}, disturbed |-> FALSE]

-----------------------------------------------------------------------------
(* Check and plan.                                                         *)

\* summarize_repo: a remote that cannot be read leaves the status unknown.
StatusOf(head) ==
  IF head = "none" THEN "unknown" ELSE IF head = repo.revision THEN "up_to_date" ELSE "update_available"

\* plan_steps.  Nothing keeps a python repository from having the id of a plugin
\* kit: the plan then leaves out the abi step, which the execution runs.
HasAbi == repo.id \in PluginKits
PlannedSteps ==
  <<"check", "fetch">> \o
  (IF repo.kind = "python" THEN <<"validate">>
   ELSE <<"build">> \o (IF HasAbi THEN <<"abi">> ELSE <<>>) \o <<"pin">>) \o <<"reload">>

\* What is to be brought: what was asked for, or else what is pinned; the plan
\* of the console prefers the head of the remote to the pin.
TargetOf(asked) == IF asked = "none" THEN repo.revision ELSE asked
WebTarget(asked, head) == TargetOf(IF asked = "none" THEN head ELSE asked)

CatalogInit ==
  /\ repo \in Repositories
  /\ checkout \in Checkouts
  /\ upgrades = [c \in Callers |-> NotStarted]
  /\ shown = [status |-> "none", plan |-> "none"]

\* The head of the remote may be any revision by now, and the console reads it in
\* a thread of its own or fails to.
Shows(view) == shown' = view /\ UNCHANGED <<repo, checkout, upgrades>>
Check == \E head \in Revisions \cup {"none"} : Shows([status |-> StatusOf(head), plan |-> "none"])
Plan ==
  \E plan \in {WebTarget(asked, head) : asked \in Revisions \cup {"none"}, head \in Revisions \cup {"none"}} :
    Shows([status |-> "none", plan |-> plan])

-----------------------------------------------------------------------------
(* Execute.                                                                *)

\* The console may only ask for dry runs; a command line may use the revision
\* that the console showed.  Any execution is refused when the module is unknown,
\* or when its directory does not exist and was not named.
Begin(c) ==
  /\ upgrades[c].at = "idle"
  /\ \E options \in OptionSets, asked \in {"none", shown.plan} :
       LET execution == Execution(TargetOf(asked), options)
       IN \E refused \in BOOLEAN :
            /\ c = "web" /\ ~options.dry_run => refused
            /\ upgrades' = [upgrades EXCEPT ![c] = IF refused THEN [execution EXCEPT !.at = "error"] ELSE execution]
  /\ UNCHANGED <<repo, checkout, shown>>

\* A step ends and the next begins; a step that failed makes the report one of
\* failure and stops nothing.
KeepSuccess(c, step, status, next) ==
  [upgrades[c] EXCEPT !.at = next, !.steps = Append(@, [id |-> step, status |-> status]),
                      !.success = @ /\ ~(status = "failed" /\ step = "fetch")]
Reports(c, step, status, next) ==
  [upgrades[c] EXCEPT !.at = next, !.steps = Append(@, [id |-> step, status |-> status]),
                      !.success = @ /\ status # "failed"]
Goes(c, execution) ==
  /\ upgrades' = [upgrades EXCEPT ![c] = execution]
  /\ UNCHANGED <<repo, checkout, shown>>

\* The same, with a change of the checkout that others at work on it suffer.
Changes(c, execution, directory) ==
  /\ checkout' = directory
  /\ upgrades' = [d \in Callers |->
       IF d = c THEN execution
       ELSE IF upgrades[d].at \notin {"idle", "done", "error"} /\ directory # checkout
         THEN [upgrades[d] EXCEPT !.disturbed = TRUE] ELSE upgrades[d]]
  /\ UNCHANGED <<repo, shown>>

FetchAnyway(c) == upgrades[c].options.skip_fetch
FetchSkipped(c) == upgrades[c].options.skip_fetch \/ upgrades[c].options.dry_run

Fetch(c) ==
  /\ upgrades[c].at = "fetch"
  /\ IF FetchSkipped(c) THEN Goes(c, Reports(c, "fetch", "skipped", "build"))
     ELSE \/ Goes(c, Reports(c, "fetch", "failed", "build"))   \* no repository, or git fetch fails
          \/ checkout.git /\ Goes(c, [upgrades[c] EXCEPT !.at = "checkout"])

Checkout(c) ==
  /\ upgrades[c].at = "checkout"
  /\ \/ Goes(c, Reports(c, "fetch", "failed", "build"))
     \/ Changes(c, Reports(c, "fetch", "succeeded", "build"), [checkout EXCEPT !.head = upgrades[c].target])

IsBuilt == repo.kind # "python"

\* A build that fails leaves what was built before it; one that succeeds may
\* replace it or leave libraries of other names.
Build(c) ==
  /\ upgrades[c].at = "build"
  /\ \/ ~IsBuilt /\ Goes(c, [upgrades[c] EXCEPT !.at = "abi"])
     \/ /\ IsBuilt
        /\ IF upgrades[c].options.skip_build \/ upgrades[c].options.dry_run
             THEN Goes(c, Reports(c, "build", "skipped", "abi"))
             ELSE \/ Goes(c, Reports(c, "build", "failed", "abi"))   \* no Cargo.toml, or cargo fails
                  \/ /\ checkout.manifest
                     /\ \E left \in {{}, checkout.built} :
                          Changes(c, Reports(c, "build", "succeeded", "abi"),
                                  [checkout EXCEPT !.built = left \cup {checkout.head}])

\* The libraries of the release directory, whoever built them.  One that cannot
\* be read for its digest ends the execution without a report.
Abi(c) ==
  /\ upgrades[c].at = "abi"
  /\ \/ ~HasAbi /\ Goes(c, [upgrades[c] EXCEPT !.at = "report"])
     \/ /\ HasAbi
        /\ IF upgrades[c].options.skip_abi \/ upgrades[c].options.dry_run
             THEN Goes(c, Reports(c, "abi", "skipped", "report"))
             ELSE \/ Goes(c, Reports(c, "abi", "failed", "report"))   \* none, or without an entry symbol
                  \/ /\ checkout.built # {}
                     /\ Goes(c, [Reports(c, "abi", "succeeded", "report") EXCEPT !.verified = checkout.built])
                  \/ /\ checkout.built # {}
                     /\ Goes(c, [upgrades[c] EXCEPT !.at = "error"])

\* The pin, if it is asked for, and the reload are left to the reader of the report.
LeftToReader(options) ==
  (IF options.skip_pin THEN <<>> ELSE <<[id |-> "pin", status |-> "skipped"]>>)
  \o <<[id |-> "reload", status |-> "skipped"]>>
Report(c) ==
  /\ upgrades[c].at = "report"
  /\ Goes(c, [upgrades[c] EXCEPT !.at = "done", !.steps = @ \o LeftToReader(upgrades[c].options)])

\* The exit status of the command line.
ExitStatus(execution) ==
  CASE execution.at = "error" -> 1 [] execution.at = "done" -> (IF execution.success THEN 0 ELSE 2)

Step(c) == Fetch(c) \/ Checkout(c) \/ Build(c) \/ Abi(c) \/ Report(c)
CatalogNext == Check \/ Plan \/ \E c \in Callers : Begin(c) \/ Step(c)
CatalogSpec == CatalogInit /\ [][CatalogNext]_catalogVars

-----------------------------------------------------------------------------
(* Properties.                                                             *)

Ended(c) == upgrades[c].at \in {"done", "error"}
Skips(options) == options.dry_run \/ options.skip_fetch \/ options.skip_build \/ options.skip_abi

\* An execution that skipped nothing and exits with 0 has brought its target: the
\* checkout was put there, it was built, and libraries of it are among those whose
\* entry symbols were checked, unless another execution changed the checkout
\* meanwhile.  What an earlier revision left in the release directory never makes
\* a failed build pass (execute_module_upgrade, execute.rs:85-187).  Of a python
\* repository with the id of a plugin kit only that there were libraries to check:
\* it is not built (execute.rs:106, 116), and they may be of any revision.
SuccessIsOfTarget ==
  \A c \in Callers :
    LET run == upgrades[c]
    IN /\ Ended(c) /\ ExitStatus(run) = 0 /\ ~Skips(run.options) /\ ~run.disturbed
       => /\ [id |-> "fetch", status |-> "succeeded"] \in Range(run.steps)
          /\ IsBuilt => [id |-> "build", status |-> "succeeded"] \in Range(run.steps)
          /\ HasAbi => run.verified # {}
          /\ IsBuilt /\ HasAbi => run.target \in run.verified

\* The checkout changes only by an execution that is not a dry run; the console
\* never changes it (lib.rs:125-164 of bot-upgrade-web, the dry_run of each step).
PreviewChangesNothing ==
  [][checkout' # checkout =>
       \E c \in Callers \ {"web"} : upgrades[c] # upgrades'[c] /\ ~upgrades[c].options.dry_run]_catalogVars
=============================================================================
