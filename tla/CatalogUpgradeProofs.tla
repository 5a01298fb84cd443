------------------------ MODULE CatalogUpgradeProofs ------------------------
(***************************************************************************)
(* Theorems about CatalogUpgrade, for any number of command lines at one   *)
(* checkout, any revisions and whatever an earlier upgrade left there: an  *)
(* execution that exits with 0 has brought its target, and only one that   *)
(* is not a dry run changes the checkout.                                  *)
(*                                                                         *)
(* Both rest on CatalogInv.  Its heart is Brings: as long as no step has   *)
(* failed and nobody else has changed the checkout, what the steps so far  *)
(* have reported is what the checkout holds.                               *)
(***************************************************************************)
EXTENDS CatalogUpgrade, TLAPS

Places == {"fetch", "checkout", "build", "abi", "report", "done", "error"}
StepReports == [id : {"fetch", "build", "abi", "pin", "reload"},
                status : {"succeeded", "failed", "skipped"}]
Fetched == [id |-> "fetch", status |-> "succeeded"]
Built == [id |-> "build", status |-> "succeeded"]

Parts == {"at", "target", "options", "steps", "success", "verified", "disturbed"}
Sane(run) ==
  /\ run = [part \in Parts |-> run[part]]
  /\ run.at \in Places
  /\ run.steps \in Seq(StepReports)

SaneDirectory(directory) ==
  directory = [git |-> directory.git, manifest |-> directory.manifest,
               head |-> directory.head, built |-> directory.built]

\* What an execution has achieved where it is, if all went well.
Clean(run) == run.success /\ ~run.disturbed /\ ~Skips(run.options)
Brings(run, directory) ==
  Clean(run) =>
    /\ run.at \in {"build", "abi", "report", "done"} => Fetched \in Range(run.steps)
    /\ run.at = "build" => directory.head = run.target
    /\ IsBuilt /\ run.at \in {"abi", "report", "done"} => Built \in Range(run.steps)
    /\ IsBuilt /\ run.at = "abi" => run.target \in directory.built
    /\ HasAbi /\ run.at \in {"report", "done"} => run.verified # {}
    /\ IsBuilt /\ HasAbi /\ run.at \in {"report", "done"} => run.target \in run.verified

\* A dry run does not get to the checkout, and the console gets nothing else.
Allowed(c, run) ==
  /\ c = "web" /\ run.at # "error" => run.options.dry_run
  /\ run.at = "checkout" => ~run.options.dry_run

Fine(c, run, directory) == Sane(run) /\ Brings(run, directory) /\ Allowed(c, run)

CatalogInv ==
  /\ DOMAIN upgrades = Callers
  /\ SaneDirectory(checkout)
  /\ \A c \in Callers : upgrades[c] = NotStarted \/ Fine(c, upgrades[c], checkout)

-----------------------------------------------------------------------------
(* Records and reports.                                                    *)

\* A report puts its step last and keeps target and options.
LEMMA ReportsRecord ==
  ASSUME NEW c, NEW step, NEW status, NEW next, Sane(upgrades[c])
  PROVE  Reports(c, step, status, next) =
           [at |-> next, target |-> upgrades[c].target, options |-> upgrades[c].options,
            steps |-> Append(upgrades[c].steps, [id |-> step, status |-> status]),
            success |-> upgrades[c].success /\ status # "failed",
            verified |-> upgrades[c].verified, disturbed |-> upgrades[c].disturbed]
<1> DEFINE run == upgrades[c]
<1>1. DOMAIN run = Parts
  BY DEF Sane
<1>2. Reports(c, step, status, next) =
        [x \in DOMAIN run |->
           IF x = "success" THEN run.success /\ status # "failed"
           ELSE IF x = "steps" THEN Append(run.steps, [id |-> step, status |-> status])
           ELSE IF x = "at" THEN next ELSE run[x]]
  BY DEF Reports
<1> QED BY <1>1, <1>2 DEF Parts

LEMMA AppendedRange ==
  ASSUME NEW S, NEW s \in Seq(S), NEW e \in S
  PROVE  /\ Append(s, e) \in Seq(S)
         /\ e \in Range(Append(s, e))
         /\ \A x : x \in Range(s) => x \in Range(Append(s, e))
<1>1. Append(s, e) \in Seq(S) OBVIOUS
<1>2. Append(s, e)[Len(s) + 1] = e /\ Len(s) + 1 \in DOMAIN Append(s, e) OBVIOUS
<1>3. \A i \in DOMAIN s : i \in DOMAIN Append(s, e) /\ Append(s, e)[i] = s[i] OBVIOUS
<1> QED BY <1>1, <1>2, <1>3 DEF Range

LEMMA ConcatenatedRange ==
  ASSUME NEW S, NEW s \in Seq(S), NEW t \in Seq(S)
  PROVE  s \o t \in Seq(S) /\ \A x : x \in Range(s) => x \in Range(s \o t)
<1>1. s \o t \in Seq(S) OBVIOUS
<1>2. \A i \in DOMAIN s : i \in DOMAIN (s \o t) /\ (s \o t)[i] = s[i] OBVIOUS
<1> QED BY <1>1, <1>2 DEF Range

\* What a step that reported leaves of the execution.
LEMMA ReportsFacts ==
  ASSUME NEW c, Sane(upgrades[c]), NEW next \in Places,
         NEW step \in {"fetch", "build", "abi"},
         NEW status \in {"succeeded", "failed", "skipped"}, NEW run,
         run = Reports(c, step, status, next)
  PROVE  /\ Sane(run)
         /\ run.at = next /\ run.target = upgrades[c].target /\ run.options = upgrades[c].options
         /\ run.verified = upgrades[c].verified
         /\ Clean(run) => Clean(upgrades[c]) /\ status # "failed"
         /\ [id |-> step, status |-> status] \in Range(run.steps)
         /\ \A x : x \in Range(upgrades[c].steps) => x \in Range(run.steps)
<1> DEFINE e == [id |-> step, status |-> status]
<1>1. run = [at |-> next, target |-> upgrades[c].target, options |-> upgrades[c].options,
             steps |-> Append(upgrades[c].steps, e),
             success |-> upgrades[c].success /\ status # "failed",
             verified |-> upgrades[c].verified, disturbed |-> upgrades[c].disturbed]
  BY ReportsRecord
<1>2. e \in StepReports BY DEF StepReports
<1>3. upgrades[c].steps \in Seq(StepReports) BY DEF Sane
<1>4. /\ run.at = next /\ run.target = upgrades[c].target /\ run.options = upgrades[c].options
      /\ run.steps = Append(upgrades[c].steps, e) /\ run.verified = upgrades[c].verified
      /\ run.disturbed = upgrades[c].disturbed
  BY <1>1
<1>5. run.success = (upgrades[c].success /\ status # "failed") BY <1>1
<1>6. run = [part \in Parts |-> run[part]]
  BY <1>1 DEF Parts
<1> HIDE DEF e
<1>7. Append(upgrades[c].steps, e) \in Seq(StepReports) BY <1>2, <1>3, AppendedRange
<1>8. Sane(run) BY <1>4, <1>6, <1>7 DEF Sane
<1>9. Clean(run) => Clean(upgrades[c]) /\ status # "failed" BY <1>4, <1>5 DEF Clean
<1>10. e \in Range(run.steps) /\ \A x : x \in Range(upgrades[c].steps) => x \in Range(run.steps)
  BY <1>2, <1>3, <1>4, AppendedRange
<1> QED BY <1>4, <1>8, <1>9, <1>10 DEF e

-----------------------------------------------------------------------------
(* Steps.                                                                  *)

\* A step of one execution that leaves the checkout alone.
LEMMA OwnStep ==
  ASSUME CatalogInv, NEW c \in Callers, NEW run, Fine(c, run, checkout),
         upgrades' = [upgrades EXCEPT ![c] = run], UNCHANGED <<repo, checkout>>
  PROVE  CatalogInv'
<1>1. DOMAIN upgrades' = Callers BY DEF CatalogInv
<1>2. \A d \in Callers : upgrades'[d] = IF d = c THEN run ELSE upgrades[d] BY DEF CatalogInv
<1>3. (HasAbi <=> HasAbi') /\ (IsBuilt <=> IsBuilt') BY DEF HasAbi, IsBuilt
<1>4. \A d \in Callers : \A r : Fine(d, r, checkout) => Fine(d, r, checkout)'
  BY <1>3 DEF Fine, Brings
<1>5. \A d \in Callers : (upgrades[d] = NotStarted \/ Fine(d, upgrades[d], checkout))'
  <2> SUFFICES ASSUME NEW d \in Callers
               PROVE  (upgrades[d] = NotStarted \/ Fine(d, upgrades[d], checkout))'
    OBVIOUS
  <2>1. CASE d = c BY <2>1, <1>2, <1>4
  <2>2. CASE d # c
    <3>1. upgrades'[d] = upgrades[d] BY <2>2, <1>2
    <3>2. upgrades[d] = NotStarted \/ Fine(d, upgrades[d], checkout) BY DEF CatalogInv
    <3> QED BY <3>1, <3>2, <1>4
  <2> QED BY <2>1, <2>2
<1> QED BY <1>1, <1>3, <1>5 DEF CatalogInv, SaneDirectory

\* An execution that is disturbed owes nothing more.
LEMMA DisturbedStep ==
  ASSUME NEW c, NEW run, Sane(run), Allowed(c, run), NEW directory
  PROVE  Fine(c, [run EXCEPT !.disturbed = TRUE], directory)
<1> DEFINE other == [run EXCEPT !.disturbed = TRUE]
<1>1. other = [part \in Parts |-> IF part = "disturbed" THEN TRUE ELSE run[part]]
  <2>1. DOMAIN run = Parts BY DEF Sane
  <2>2. other = [part \in DOMAIN run |-> IF part = "disturbed" THEN TRUE ELSE run[part]]
    OBVIOUS
  <2> QED BY <2>1, <2>2
<1>2. /\ other.disturbed = TRUE /\ other.at = run.at /\ other.steps = run.steps
      /\ other.options = run.options
      /\ other = [part \in Parts |-> other[part]]
  BY <1>1 DEF Parts
<1> HIDE DEF other
<1>3. Sane(other) BY <1>2 DEF Sane
<1>4. Brings(other, directory) BY <1>2 DEF Brings, Clean
<1>5. Allowed(c, other) BY <1>2 DEF Allowed
<1> QED BY <1>3, <1>4, <1>5 DEF Fine, other

\* A step that changes the checkout disturbs whoever else is at work on it, and one
\* that has ended does not care.
LEMMA ChangeStep ==
  ASSUME CatalogInv, NEW c \in Callers, NEW run, NEW directory, Fine(c, run, directory),
         SaneDirectory(directory), Changes(c, run, directory)
  PROVE  CatalogInv'
<1>1. /\ DOMAIN upgrades' = Callers /\ UNCHANGED repo /\ checkout' = directory
      /\ \A d \in Callers : upgrades'[d] =
           IF d = c THEN run
           ELSE IF upgrades[d].at \notin {"idle", "done", "error"} /\ directory # checkout
             THEN [upgrades[d] EXCEPT !.disturbed = TRUE] ELSE upgrades[d]
  BY DEF Changes
<1>2. (HasAbi <=> HasAbi') /\ (IsBuilt <=> IsBuilt') BY <1>1 DEF HasAbi, IsBuilt
<1>3. \A d \in Callers : \A r : Fine(d, r, directory) => Fine(d, r, checkout)'
  BY <1>1, <1>2 DEF Fine, Brings
<1>4. \A d \in Callers : (upgrades[d] = NotStarted \/ Fine(d, upgrades[d], checkout))'
  <2> SUFFICES ASSUME NEW d \in Callers
               PROVE  upgrades'[d] = NotStarted \/ Fine(d, upgrades'[d], directory)
    BY <1>3
  <2>1. CASE d = c BY <2>1, <1>1
  <2>2. ASSUME d # c, upgrades[d].at \notin {"idle", "done", "error"}, directory # checkout
        PROVE  Fine(d, upgrades'[d], directory)
    <3>1. upgrades[d] # NotStarted BY <2>2 DEF NotStarted
    <3>2. Sane(upgrades[d]) /\ Allowed(d, upgrades[d]) BY <3>1 DEF CatalogInv, Fine
    <3>3. upgrades'[d] = [upgrades[d] EXCEPT !.disturbed = TRUE] BY <1>1, <2>2
    <3> QED BY <3>2, <3>3, DisturbedStep
  <2>3. ASSUME d # c, upgrades[d].at \in {"idle", "done", "error"} \/ directory = checkout
        PROVE  upgrades'[d] = NotStarted \/ Fine(d, upgrades'[d], directory)
    <3>1. upgrades'[d] = upgrades[d] BY <1>1, <2>3
    <3>2. CASE upgrades[d] = NotStarted BY <3>1, <3>2
    <3>3. CASE Fine(d, upgrades[d], checkout)
      <4>1. upgrades[d].at \in Places BY <3>3 DEF Fine, Sane
      <4>2. upgrades[d].at \in {"done", "error"} \/ directory = checkout
        BY <4>1, <2>3 DEF Places
      <4>3. Fine(d, upgrades[d], directory) BY <3>3, <4>2 DEF Fine, Brings
      <4> QED BY <3>1, <4>3
    <3> QED BY <3>2, <3>3 DEF CatalogInv
  <2> QED BY <2>1, <2>2, <2>3
<1> QED BY <1>1, <1>2, <1>4 DEF CatalogInv

\* What is known of an execution that is somewhere.
LEMMA Underway ==
  ASSUME CatalogInv, NEW c \in Callers, upgrades[c].at # "idle"
  PROVE  Fine(c, upgrades[c], checkout)
BY DEF CatalogInv, NotStarted

\* A report of a step that was skipped or failed ends the hope of a clean run.
LEMMA NotCleanAnyMore ==
  ASSUME CatalogInv, NEW c \in Callers, upgrades[c].at # "idle", NEW next \in Places,
         NEW step \in {"fetch", "build", "abi"}, NEW status \in {"failed", "skipped"},
         status = "skipped" => Skips(upgrades[c].options), next \notin {"checkout"},
         next # "error", upgrades[c].at # "error",
         Goes(c, Reports(c, step, status, next))
  PROVE  CatalogInv'
<1> DEFINE run == Reports(c, step, status, next)
<1>1. Fine(c, upgrades[c], checkout) BY Underway
<1>2. /\ Sane(run) /\ run.at = next /\ run.options = upgrades[c].options
      /\ Clean(run) => status # "failed"
  BY <1>1, ReportsFacts DEF Fine
<1>3. upgrades' = [upgrades EXCEPT ![c] = run] /\ UNCHANGED <<repo, checkout>> BY DEF Goes
<1> HIDE DEF run
<1>4. ~Clean(run) BY <1>2 DEF Clean
<1>5. Allowed(c, run) BY <1>1, <1>2 DEF Fine, Allowed
<1>6. Fine(c, run, checkout) BY <1>2, <1>4, <1>5 DEF Fine, Brings
<1> QED BY <1>3, <1>6, OwnStep

\* An execution that only moves on.
LEMMA MovesOn ==
  ASSUME NEW run, Sane(run), NEW next \in Places, NEW moved, moved = [run EXCEPT !.at = next]
  PROVE  /\ Sane(moved) /\ moved.at = next /\ moved.target = run.target
         /\ moved.options = run.options /\ moved.steps = run.steps
         /\ moved.verified = run.verified /\ (Clean(moved) <=> Clean(run))
<1>1. moved = [part \in Parts |-> IF part = "at" THEN next ELSE run[part]]
  BY DEF Sane
<1>2. /\ moved.at = next /\ moved.target = run.target /\ moved.options = run.options
      /\ moved.steps = run.steps /\ moved.verified = run.verified
      /\ moved.success = run.success /\ moved.disturbed = run.disturbed
      /\ moved = [part \in Parts |-> moved[part]]
  BY <1>1 DEF Parts
<1>3. Sane(moved) BY <1>2 DEF Sane
<1>4. Clean(moved) <=> Clean(run) BY <1>2 DEF Clean
<1> QED BY <1>2, <1>3, <1>4
-----------------------------------------------------------------------------
(* One lemma per operation.                                                *)

LEMMA BeginStep ==
  ASSUME CatalogInv, NEW c \in Callers, Begin(c)
  PROVE  CatalogInv'
<1>1. PICK options \in OptionSets, asked \in {"none", shown.plan}, refused \in BOOLEAN :
        /\ c = "web" /\ ~options.dry_run => refused
        /\ upgrades' = [upgrades EXCEPT ![c] =
             IF refused THEN [Execution(TargetOf(asked), options) EXCEPT !.at = "error"]
             ELSE Execution(TargetOf(asked), options)]
  BY DEF Begin
<1> DEFINE run == Execution(TargetOf(asked), options)
           stopped == [run EXCEPT !.at = "error"]
<1>2. /\ run = [part \in Parts |-> run[part]] /\ run.at = "fetch" /\ run.steps = <<>>
      /\ run.options = options
  BY DEF Execution, Parts
<1>3. UNCHANGED <<repo, checkout>> BY DEF Begin
<1>4. "fetch" \in Places /\ "error" \in Places BY DEF Places
<1> HIDE DEF run
<1>5. Sane(run)
  <2>1. <<>> \in Seq(StepReports) OBVIOUS
  <2>2. run.steps \in Seq(StepReports) BY <1>2, <2>1
  <2>3. run.at \in Places BY <1>2, <1>4
  <2> QED BY <1>2, <2>2, <2>3 DEF Sane
<1>6. CASE refused
  <2>1. upgrades' = [upgrades EXCEPT ![c] = stopped] BY <1>1, <1>6 DEF run
  <2>2. Sane(stopped) /\ stopped.at = "error" BY <1>4, <1>5, MovesOn
  <2> HIDE DEF stopped
  <2>3. Fine(c, stopped, checkout) BY <2>2 DEF Fine, Brings, Allowed
  <2> QED BY <1>3, <2>1, <2>3, OwnStep
<1>7. CASE ~refused
  <2>1. upgrades' = [upgrades EXCEPT ![c] = run] BY <1>1, <1>7 DEF run
  <2>2. c = "web" => run.options.dry_run BY <1>1, <1>2, <1>7
  <2>3. Fine(c, run, checkout) BY <1>2, <1>5, <2>2 DEF Fine, Brings, Allowed
  <2> QED BY <1>3, <2>1, <2>3, OwnStep
<1> QED BY <1>6, <1>7

\* An execution that only goes on to its next place, where it owes nothing new.
LEMMA GoesOn ==
  ASSUME CatalogInv, NEW c \in Callers, upgrades[c].at # "idle", NEW next \in Places,
         Goes(c, [upgrades[c] EXCEPT !.at = next]),
         Allowed(c, [upgrades[c] EXCEPT !.at = next]),
         Brings([upgrades[c] EXCEPT !.at = next], checkout)
  PROVE  CatalogInv'
<1> DEFINE run == [upgrades[c] EXCEPT !.at = next]
<1>1. upgrades' = [upgrades EXCEPT ![c] = run] /\ UNCHANGED <<repo, checkout>> BY DEF Goes
<1>2. Sane(upgrades[c]) BY Underway DEF Fine
<1>3. Sane(run) BY <1>2, MovesOn
<1> HIDE DEF run
<1>4. Fine(c, run, checkout) BY <1>3 DEF Fine, run
<1> QED BY <1>1, <1>4, OwnStep

LEMMA FetchStep ==
  ASSUME CatalogInv, NEW c \in Callers, Fetch(c)
  PROVE  CatalogInv'
<1> DEFINE moved == [upgrades[c] EXCEPT !.at = "checkout"]
<1>1. upgrades[c].at = "fetch" BY DEF Fetch
<1>2. Fine(c, upgrades[c], checkout) BY <1>1, Underway
<1>3. "build" \in Places /\ "checkout" \in Places BY DEF Places
<1>4. CASE FetchSkipped(c)
  <2>1. Goes(c, Reports(c, "fetch", "skipped", "build")) BY <1>4 DEF Fetch
  <2>2. Skips(upgrades[c].options) BY <1>4 DEF FetchSkipped, Skips
  <2> QED BY <1>1, <1>3, <2>1, <2>2, NotCleanAnyMore
<1>5. CASE Goes(c, Reports(c, "fetch", "failed", "build"))
  BY <1>1, <1>3, <1>5, NotCleanAnyMore
<1>6. CASE ~FetchSkipped(c) /\ Goes(c, moved)
  <2>1. /\ moved.at = "checkout" /\ moved.options = upgrades[c].options
        /\ (Clean(moved) <=> Clean(upgrades[c]))
    BY <1>2, <1>3, MovesOn DEF Fine
  <2>2. ~moved.options.dry_run BY <1>6, <2>1 DEF FetchSkipped
  <2>3. c # "web" BY <1>1, <1>2, <2>1, <2>2 DEF Fine, Allowed
  <2> HIDE DEF moved
  <2>4. Brings(moved, checkout) /\ Allowed(c, moved) BY <2>1, <2>2, <2>3 DEF Brings, Allowed
  <2> QED BY <1>1, <1>3, <1>6, <2>4, GoesOn DEF moved
<1> QED BY <1>4, <1>5, <1>6 DEF Fetch

LEMMA CheckoutStep ==
  ASSUME CatalogInv, NEW c \in Callers, Checkout(c)
  PROVE  CatalogInv'
<1> DEFINE run == Reports(c, "fetch", "succeeded", "build")
           directory == [checkout EXCEPT !.head = upgrades[c].target]
<1>1. upgrades[c].at = "checkout" BY DEF Checkout
<1>2. Fine(c, upgrades[c], checkout) BY <1>1, Underway
<1>3. "build" \in Places BY DEF Places
<1>4. CASE Goes(c, Reports(c, "fetch", "failed", "build"))
  BY <1>1, <1>3, <1>4, NotCleanAnyMore
<1>5. CASE Changes(c, run, directory)
  <2>1. directory = [git |-> checkout.git, manifest |-> checkout.manifest,
                     head |-> upgrades[c].target, built |-> checkout.built]
    BY DEF CatalogInv, SaneDirectory
  <2>2. SaneDirectory(directory) /\ directory.head = upgrades[c].target
    BY <2>1 DEF SaneDirectory
  <2>3. /\ Sane(run) /\ run.at = "build" /\ run.target = upgrades[c].target
        /\ run.options = upgrades[c].options /\ Fetched \in Range(run.steps)
    BY <1>2, <1>3, ReportsFacts DEF Fine, Fetched
  <2> HIDE DEF run, directory
  <2>4. Brings(run, directory) BY <2>2, <2>3 DEF Brings
  <2>5. Allowed(c, run) BY <1>1, <1>2, <2>3 DEF Fine, Allowed
  <2>6. Fine(c, run, directory) BY <2>3, <2>4, <2>5 DEF Fine
  <2> QED BY <1>5, <2>2, <2>6, ChangeStep
<1> QED BY <1>4, <1>5 DEF Checkout

LEMMA BuildStep ==
  ASSUME CatalogInv, NEW c \in Callers, Build(c)
  PROVE  CatalogInv'
<1> DEFINE run == Reports(c, "build", "succeeded", "abi")
           moved == [upgrades[c] EXCEPT !.at = "abi"]
<1>1. upgrades[c].at = "build" BY DEF Build
<1>2. Fine(c, upgrades[c], checkout) BY <1>1, Underway
<1>3. "abi" \in Places BY DEF Places
<1>4. CASE ~IsBuilt /\ Goes(c, moved)
  <2>1. /\ moved.at = "abi" /\ moved.options = upgrades[c].options
        /\ moved.steps = upgrades[c].steps /\ (Clean(moved) <=> Clean(upgrades[c]))
    BY <1>2, <1>3, MovesOn DEF Fine
  <2> HIDE DEF moved
  <2>2. Brings(moved, checkout) BY <1>1, <1>2, <1>4, <2>1 DEF Fine, Brings
  <2>3. Allowed(c, moved) BY <1>1, <1>2, <2>1 DEF Fine, Allowed
  <2> QED BY <1>1, <1>3, <1>4, <2>2, <2>3, GoesOn DEF moved
<1>5. CASE /\ upgrades[c].options.skip_build \/ upgrades[c].options.dry_run
           /\ Goes(c, Reports(c, "build", "skipped", "abi"))
  <2>1. Skips(upgrades[c].options) BY <1>5 DEF Skips
  <2> QED BY <1>1, <1>3, <1>5, <2>1, NotCleanAnyMore
<1>6. CASE Goes(c, Reports(c, "build", "failed", "abi"))
  BY <1>1, <1>3, <1>6, NotCleanAnyMore
<1>7. ASSUME NEW left \in {{}, checkout.built},
             Changes(c, run, [checkout EXCEPT !.built = left \cup {checkout.head}])
      PROVE  CatalogInv'
  <2> DEFINE directory == [checkout EXCEPT !.built = left \cup {checkout.head}]
  <2>1. directory = [git |-> checkout.git, manifest |-> checkout.manifest,
                     head |-> checkout.head, built |-> left \cup {checkout.head}]
    BY DEF CatalogInv, SaneDirectory
  <2>2. SaneDirectory(directory) /\ checkout.head \in directory.built
    BY <2>1 DEF SaneDirectory
  <2>3. /\ Sane(run) /\ run.at = "abi" /\ run.target = upgrades[c].target
        /\ run.options = upgrades[c].options /\ Built \in Range(run.steps)
        /\ Clean(run) => Clean(upgrades[c])
        /\ \A x : x \in Range(upgrades[c].steps) => x \in Range(run.steps)
    BY <1>2, <1>3, ReportsFacts DEF Fine, Built
  <2> HIDE DEF run, directory
  <2>4. Brings(run, directory) BY <1>1, <1>2, <2>2, <2>3 DEF Fine, Brings
  <2>5. Allowed(c, run) BY <1>1, <1>2, <2>3 DEF Fine, Allowed
  <2>6. Fine(c, run, directory) BY <2>3, <2>4, <2>5 DEF Fine
  <2> QED BY <1>7, <2>2, <2>6, ChangeStep DEF directory
<1> QED BY <1>4, <1>5, <1>6, <1>7 DEF Build
LEMMA AbiReported ==
  ASSUME NEW c, Sane(upgrades[c]), NEW run, run = Reports(c, "abi", "succeeded", "report")
  PROVE  /\ Sane(run)
         /\ run.at = "report" /\ run.target = upgrades[c].target
         /\ run.options = upgrades[c].options
         /\ Clean(run) => Clean(upgrades[c])
         /\ \A x : x \in Range(upgrades[c].steps) => x \in Range(run.steps)
<1>1. "report" \in Places BY DEF Places
<1>2. [id |-> "abi", status |-> "succeeded"] \in Range(run.steps) BY <1>1, ReportsFacts
<1> QED BY <1>1, <1>2, ReportsFacts

LEMMA AbiStep ==
  ASSUME CatalogInv, NEW c \in Callers, Abi(c)
  PROVE  CatalogInv'
<1> DEFINE reported == Reports(c, "abi", "succeeded", "report")
           run == [reported EXCEPT !.verified = checkout.built]
           moved == [upgrades[c] EXCEPT !.at = "report"]
           stopped == [upgrades[c] EXCEPT !.at = "error"]
<1>1. upgrades[c].at = "abi" BY DEF Abi
<1>2. Fine(c, upgrades[c], checkout) BY <1>1, Underway
<1>3. "report" \in Places /\ "error" \in Places BY DEF Places
<1>4. CASE ~HasAbi /\ Goes(c, moved)
  <2>1. /\ moved.at = "report" /\ moved.options = upgrades[c].options
        /\ moved.steps = upgrades[c].steps /\ (Clean(moved) <=> Clean(upgrades[c]))
    BY <1>2, <1>3, MovesOn DEF Fine
  <2> HIDE DEF moved
  <2>2. Brings(moved, checkout) BY <1>1, <1>2, <1>4, <2>1 DEF Fine, Brings
  <2>3. Allowed(c, moved) BY <1>1, <1>2, <2>1 DEF Fine, Allowed
  <2> QED BY <1>1, <1>3, <1>4, <2>2, <2>3, GoesOn DEF moved
<1>5. CASE /\ upgrades[c].options.skip_abi \/ upgrades[c].options.dry_run
           /\ Goes(c, Reports(c, "abi", "skipped", "report"))
  <2>1. Skips(upgrades[c].options) BY <1>5 DEF Skips
  <2> QED BY <1>1, <1>3, <1>5, <2>1, NotCleanAnyMore
<1>6. CASE Goes(c, Reports(c, "abi", "failed", "report"))
  BY <1>1, <1>3, <1>6, NotCleanAnyMore
<1>7. CASE Goes(c, stopped)
  <2>1. stopped.at = "error" BY <1>2, <1>3, MovesOn DEF Fine
  <2> HIDE DEF stopped
  <2>2. Brings(stopped, checkout) /\ Allowed(c, stopped) BY <2>1 DEF Brings, Allowed
  <2> QED BY <1>1, <1>3, <1>7, <2>2, GoesOn DEF stopped
<1>8. CASE checkout.built # {} /\ Goes(c, run)
  <2>1. /\ Sane(reported) /\ reported.at = "report" /\ reported.target = upgrades[c].target
        /\ reported.options = upgrades[c].options
        /\ Clean(reported) => Clean(upgrades[c])
        /\ \A x : x \in Range(upgrades[c].steps) => x \in Range(reported.steps)
    BY <1>2, AbiReported DEF Fine
  <2>2. upgrades' = [upgrades EXCEPT ![c] = run] /\ UNCHANGED <<repo, checkout>>
    BY <1>8 DEF Goes
  <2> HIDE DEF reported
  <2>3. run = [part \in Parts |-> IF part = "verified" THEN checkout.built ELSE reported[part]]
    BY <2>1 DEF Sane
  <2>4. /\ run.at = "report" /\ run.target = upgrades[c].target /\ run.steps = reported.steps
        /\ run.options = upgrades[c].options /\ run.verified = checkout.built
        /\ run.success = reported.success /\ run.disturbed = reported.disturbed
        /\ run = [part \in Parts |-> run[part]]
    BY <2>1, <2>3 DEF Parts
  <2> HIDE DEF run
  <2>5. Sane(run) BY <1>3, <2>1, <2>4 DEF Sane
  <2>6. Clean(run) => Clean(upgrades[c]) BY <2>1, <2>4 DEF Clean
  <2>7. run.verified # {} BY <1>8, <2>4
  <2>8. Brings(run, checkout) BY <1>1, <1>2, <2>1, <2>4, <2>6, <2>7 DEF Fine, Brings
  <2>9. Allowed(c, run) BY <1>1, <1>2, <2>4 DEF Fine, Allowed
  <2>10. Fine(c, run, checkout) BY <2>5, <2>8, <2>9 DEF Fine
  <2> QED BY <2>2, <2>10, OwnStep
<1> QED BY <1>4, <1>5, <1>6, <1>7, <1>8 DEF Abi

LEMMA ReportStep ==
  ASSUME CatalogInv, NEW c \in Callers, Report(c)
  PROVE  CatalogInv'
<1> DEFINE before == upgrades[c]
           rest == LeftToReader(before.options)
           run == [before EXCEPT !.at = "done", !.steps = before.steps \o rest]
<1>1. before.at = "report" BY DEF Report
<1>2. Fine(c, before, checkout) BY <1>1, Underway
<1>3. upgrades' = [upgrades EXCEPT ![c] = run] /\ UNCHANGED <<repo, checkout>>
  BY DEF Report, Goes
<1>4. rest \in Seq(StepReports)
  <2>1. [id |-> "pin", status |-> "skipped"] \in StepReports BY DEF StepReports
  <2>2. [id |-> "reload", status |-> "skipped"] \in StepReports BY DEF StepReports
  <2> QED BY <2>1, <2>2 DEF LeftToReader
<1>5. before = [part \in Parts |-> before[part]] /\ before.steps \in Seq(StepReports)
  BY <1>2 DEF Fine, Sane
<1> HIDE DEF before, rest
<1>6. run = [part \in Parts |-> IF part = "steps" THEN before.steps \o rest
                                ELSE IF part = "at" THEN "done" ELSE before[part]]
  <2>1. DOMAIN before = Parts BY <1>5
  <2>2. run = [part \in DOMAIN before |-> IF part = "steps" THEN before.steps \o rest
                                          ELSE IF part = "at" THEN "done" ELSE before[part]]
    OBVIOUS
  <2> QED BY <2>1, <2>2
<1>7. /\ run.at = "done" /\ run.target = before.target /\ run.steps = before.steps \o rest
      /\ run.options = before.options /\ run.verified = before.verified
      /\ run.success = before.success /\ run.disturbed = before.disturbed
      /\ run = [part \in Parts |-> run[part]]
  BY <1>6 DEF Parts
<1> HIDE DEF run
<1>8. /\ run.steps \in Seq(StepReports)
      /\ \A x : x \in Range(before.steps) => x \in Range(run.steps)
  BY <1>4, <1>5, <1>7, ConcatenatedRange
<1>9. Sane(run) BY <1>7, <1>8 DEF Sane, Places
<1>10. Clean(run) => Clean(before) BY <1>7 DEF Clean
<1>11. Brings(run, checkout) BY <1>1, <1>2, <1>7, <1>8, <1>10 DEF Fine, Brings
<1>12. Allowed(c, run) BY <1>1, <1>2, <1>7 DEF Fine, Allowed
<1>13. Fine(c, run, checkout) BY <1>9, <1>11, <1>12 DEF Fine
<1> QED BY <1>3, <1>13, OwnStep

LEMMA CatalogStays ==
  ASSUME CatalogInv, UNCHANGED <<repo, checkout, upgrades>>
  PROVE  CatalogInv'
<1>1. (HasAbi <=> HasAbi') /\ (IsBuilt <=> IsBuilt') BY DEF HasAbi, IsBuilt
<1> QED BY <1>1 DEF CatalogInv, SaneDirectory, Fine, Brings

LEMMA CatalogSteps == CatalogInv /\ [CatalogNext]_catalogVars => CatalogInv'
<1> SUFFICES ASSUME CatalogInv, [CatalogNext]_catalogVars PROVE CatalogInv'
  OBVIOUS
<1>1. CASE Check \/ Plan BY <1>1, CatalogStays DEF Check, Plan, Shows
<1>2. ASSUME NEW c \in Callers, Begin(c) PROVE CatalogInv' BY <1>2, BeginStep
<1>3. ASSUME NEW c \in Callers, Step(c) PROVE CatalogInv'
  BY <1>3, FetchStep, CheckoutStep, BuildStep, AbiStep, ReportStep DEF Step
<1>4. CASE UNCHANGED catalogVars BY <1>4, CatalogStays DEF catalogVars
<1> QED BY <1>1, <1>2, <1>3, <1>4 DEF CatalogNext

LEMMA CatalogInitially == CatalogInit => CatalogInv
<1> SUFFICES ASSUME CatalogInit PROVE CatalogInv
  OBVIOUS
<1>1. SaneDirectory(checkout) BY CatalogAssumption DEF CatalogInit, SaneDirectory
<1> QED BY <1>1 DEF CatalogInit, CatalogInv

\* The invariant holds whatever the executions at one checkout do to each other.
THEOREM CatalogInvariant == CatalogSpec => []CatalogInv
BY CatalogInitially, CatalogSteps, PTL DEF CatalogSpec

\* An execution that skips nothing, is not disturbed and exits with 0 has fetched
\* its target; what is built was built, and the libraries of a plugin kit that is
\* built were checked, those of the target among them.  Of a python repository with
\* the id of a plugin kit only that some libraries were checked
\* (execute_module_upgrade, execute.rs:85-187).
THEOREM SuccessMeansTarget == CatalogSpec => []SuccessIsOfTarget
<1>1. CatalogInv => SuccessIsOfTarget
  <2> SUFFICES ASSUME CatalogInv, NEW c \in Callers, Ended(c), ExitStatus(upgrades[c]) = 0,
                      ~Skips(upgrades[c].options), ~upgrades[c].disturbed
               PROVE  /\ Fetched \in Range(upgrades[c].steps)
                      /\ IsBuilt => Built \in Range(upgrades[c].steps)
                      /\ HasAbi => upgrades[c].verified # {}
                      /\ IsBuilt /\ HasAbi => upgrades[c].target \in upgrades[c].verified
    BY DEF SuccessIsOfTarget, Fetched, Built
  <2>1. upgrades[c].at = "done" /\ upgrades[c].success BY DEF Ended, ExitStatus
  <2>2. Fine(c, upgrades[c], checkout) BY <2>1, Underway
  <2> QED BY <2>1, <2>2 DEF Fine, Brings, Clean
<1> QED BY <1>1, CatalogInvariant, PTL

\* Only an execution that is not a dry run changes the checkout, and the console
\* has none (lib.rs:125-164 of bot-upgrade-web, the dry_run of each step).
THEOREM PreviewsChangeNothing == CatalogSpec => PreviewChangesNothing
<1> DEFINE Changed == checkout' # checkout =>
             \E c \in Callers \ {"web"} : upgrades[c] # upgrades'[c] /\ ~upgrades[c].options.dry_run
<1>1. CatalogInv /\ [CatalogNext]_catalogVars => [Changed]_catalogVars
  <2> SUFFICES ASSUME CatalogInv, CatalogNext, checkout' # checkout
               PROVE  \E c \in Callers \ {"web"} :
                        upgrades[c] # upgrades'[c] /\ ~upgrades[c].options.dry_run
    OBVIOUS
  <2>1. PICK c \in Callers : Checkout(c) \/ Build(c)
    <3>1. ~(Check \/ Plan) BY DEF Check, Plan, Shows
    <3>2. PICK c \in Callers : Begin(c) \/ Step(c) BY <3>1 DEF CatalogNext
    <3>3. ~Begin(c) BY DEF Begin
    <3>4. ~Fetch(c) BY DEF Fetch, Goes
    <3>5. ~Abi(c) BY DEF Abi, Goes
    <3>6. ~Report(c) BY DEF Report, Goes
    <3> QED BY <3>2, <3>3, <3>4, <3>5, <3>6 DEF Step
  <2>2. upgrades[c].at \in {"checkout", "build"} BY <2>1 DEF Checkout, Build
  <2>3. Fine(c, upgrades[c], checkout) BY <2>2, Underway
  <2>4. CASE Checkout(c)
    <3>1. upgrades'[c] = Reports(c, "fetch", "succeeded", "build")
      BY <2>4 DEF Checkout, Goes, Changes
    <3>2. upgrades'[c].at = "build" BY <2>3, <3>1, ReportsFacts DEF Fine, Places
    <3>3. upgrades[c].at = "checkout" BY <2>4 DEF Checkout
    <3>4. ~upgrades[c].options.dry_run /\ c # "web" BY <2>3, <3>3 DEF Fine, Allowed
    <3> QED BY <3>2, <3>3, <3>4
  <2>5. CASE Build(c)
    <3>1. upgrades'[c] = Reports(c, "build", "succeeded", "abi") /\ ~upgrades[c].options.dry_run
      BY <2>5 DEF Build, Goes, Changes
    <3>2. upgrades'[c].at = "abi" BY <2>3, <3>1, ReportsFacts DEF Fine, Places
    <3>3. upgrades[c].at = "build" BY <2>5 DEF Build
    <3>4. c # "web" BY <2>3, <3>1, <3>3 DEF Fine, Allowed
    <3> QED BY <3>1, <3>2, <3>3, <3>4
  <2> QED BY <2>1, <2>4, <2>5
<1> QED BY <1>1, CatalogInvariant, PTL DEF CatalogSpec, PreviewChangesNothing
=============================================================================
