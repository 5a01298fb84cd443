---------------------------- MODULE ConfigForms ----------------------------
(***************************************************************************)
(* The forms of the console over ConfigService: the RPC of the             *)
(* configuration extension (bot-config-web), the capabilities it checks    *)
(* (service.rs), the registry of providers (registry.rs) and a             *)
(* MemoryConfigProvider whose schema has secrets (memory.rs).  A session   *)
(* reads a form, edits it and sends it back as JSON.  What a schema has to *)
(* say of a value is a parameter, which ConfigSchema gives: what is proved *)
(* of secrets holds whatever validation says.                              *)
(*                                                                         *)
(* Each request is one step: it awaits nothing but the mutex of the store. *)
(* What two requests at work at once do to each other, and the lifecycle   *)
(* that follows an apply, is the subject of ConfigApply.  The secrets are  *)
(* fields of the root, as in the schemas that derive makes.  KeepClears,   *)
(* ValidatesStored and WeakApply are mutants of what follows them.         *)
(***************************************************************************)
EXTENDS ConfigValues

CONSTANTS
  FormProviders,      \* [id -> its schema: the root node and the scopes]
  TheProvider,        \* the one whose store is modelled
  FormDefaults,       \* its defaults
  FormContexts,       \* contexts: [scope, ids], an id the context lacks is no field of ids
  FormCandidates,     \* what sessions send, as JSON
  FitsBudgets(_),     \* whether a schema is within the budgets
  Accepts(_, _),      \* whether a schema has no objection to a value
  CapabilitySets,     \* what a session may have
  Meant(_),           \* whether a value is as the author of the schema means it
  MaxFormRevision     \* bound on the revisions

ASSUME FormsAssumption ==
  \A value \in FormCandidates \cup {FormDefaults} :
    \A part \in PartsAt(value)[ValueDepth] : Children(part) = {}

VARIABLES
  registered,  \* the ids of the registered providers
  forms,       \* the store of TheProvider, a context without entry is NoForm
  snapshot,    \* what the session read last, or NoForm
  caps,        \* the capabilities of the session
  answer       \* the outcome of the last request

formVars == <<registered, forms, snapshot, caps, answer>>

NoForm == [present |-> FALSE]
Root == FormProviders[TheProvider].root

FormsInit ==
  /\ registered = {}
  /\ forms = [x \in FormContexts |-> NoForm]
  /\ snapshot = NoForm
  /\ caps \in CapabilitySets
  /\ answer = "none"

Answers(outcome) == answer' = outcome /\ UNCHANGED <<registered, forms, snapshot, caps>>

-----------------------------------------------------------------------------
(* The registry.                                                           *)

Register(p) ==
  LET full == Cardinality(registered) >= Budgets.max_providers /\ p \notin registered
  IN IF ~FitsBudgets(FormProviders[p].root) \/ Len(p) > Budgets.max_id_bytes \/ full
     THEN Answers("budget_exceeded")
     ELSE registered' = registered \cup {p} /\ answer' = "ok" /\ UNCHANGED <<forms, snapshot, caps>>

Unregister(p) ==
  /\ registered' = registered \ {p}
  /\ answer' = IF p \in registered THEN "ok" ELSE "unavailable"
  /\ UNCHANGED <<forms, snapshot, caps>>

-----------------------------------------------------------------------------
(* Requests.                                                               *)

\* A request without the key has every capability.
Granted(needed) == "*" \in caps \/ needed \subseteq caps

\* ConfigContext::validate: every id it has is usable, and it has the one that its
\* scope is about.
ContextValid(x) ==
  /\ \A id \in DOMAIN x.ids : Len(x.ids[id]) \in 1..Budgets.max_id_bytes
  /\ x.scope = "global" \/ x.scope \in DOMAIN x.ids

\* ensure_scope, and what the provider checks of the context, in their order.
Refusal(p, x) ==
  CASE p \notin registered -> "unavailable"
    [] x.scope \notin FormProviders[p].scopes \/ ~ContextValid(x) -> "unsupported"
    [] OTHER -> "none"

ListProviders == Answers(IF Granted({"schema.read"}) THEN "ok" ELSE "denied")
GetSchema(p) ==
  Answers(IF ~Granted({"schema.read"}) THEN "denied" ELSE IF p \in registered THEN "ok" ELSE "unavailable")

\* candidate_from_params.
Candidates == {FromJson(json) : json \in FormCandidates}

\* A request that lacks a parameter, or has one that cannot be read.
Malformed == Answers("malformed")

\* is_secret_field.
SecretKeys == {Root.children[i].key : i \in {i \in DOMAIN Root.children :
                 Root.children[i].secret \/ Root.children[i].type.kind = "secret"}}

\* redact_for_read, with the keys for which there is a secret; it looks for the keys
\* of secrets at every depth.
Redact(part, kept, below) ==
  IF TypeOf(part) # "object" THEN part
  ELSE Object([key \in DOMAIN part.object |->
         IF key \in SecretKeys THEN ForRead(key \in kept) ELSE below[part.object[key]]])
Redacted(value, kept) ==
  LET below[part \in Parts(value)] == Redact(part, kept, below)
  IN Redact(value, kept, below)

NoSecrets == [key \in {} |-> ""]
StoredValue(x) == IF forms[x].present THEN forms[x].value ELSE FormDefaults
StoredSecrets(x) == IF forms[x].present THEN forms[x].secrets ELSE NoSecrets
StoredRevision(x) == IF forms[x].present THEN forms[x].revision ELSE 1

ReadForm(x) ==
  LET refusal == Refusal(TheProvider, x)
  IN IF ~Granted({"value.read"}) THEN Answers("denied")
     ELSE IF refusal # "none" THEN Answers(refusal)
     ELSE /\ snapshot' = [present |-> TRUE, context |-> x, revision |-> StoredRevision(x),
                          value |-> Redacted(StoredValue(x), DOMAIN StoredSecrets(x))]
          /\ answer' = "ok"
          /\ UNCHANGED <<registered, forms, caps>>

\* validate_structure, for the provider's schema and what was sent.
ValidatesStored(x, candidate) == Accepts(Root, StoredValue(x))
Validated(x, candidate) == Accepts(Root, candidate)

\* validate asks for the right to write, so that it tells nothing without it.
ValidateForm(x, candidate) ==
  Answers(IF ~Granted({"value.write"}) THEN "denied"
          ELSE IF Refusal(TheProvider, x) # "none" THEN Refusal(TheProvider, x)
          ELSE IF Validated(x, candidate) THEN "ok" ELSE "invalid")

-----------------------------------------------------------------------------
(* Apply.                                                                  *)

\* merge_secrets: a secret is set, cleared, or kept whatever else is sent; a value
\* of another type is refused, and what is no object.  One that is left out is kept.
Mergeable(candidate) ==
  /\ TypeOf(candidate) = "object"
  /\ \A key \in SecretKeys \cap DOMAIN candidate.object : TypeOf(candidate.object[key]) = "secret"
SecretOf(candidate, key) == candidate.object[key].secret
Update(candidate, state) ==
  {key \in SecretKeys \cap DOMAIN candidate.object : SecretOf(candidate, key).state = state}

KeepClears(candidate, secrets) ==
  LET set == Update(candidate, "set")
      gone == Update(candidate, "clear") \cup Update(candidate, "configured")
  IN [key \in (DOMAIN secrets \cup set) \ gone |->
        IF key \in set THEN SecretOf(candidate, key).value ELSE secrets[key]]
MergedSecrets(candidate, secrets) ==
  LET set == Update(candidate, "set")
  IN [key \in (DOMAIN secrets \cup set) \ Update(candidate, "clear") |->
        IF key \in set THEN SecretOf(candidate, key).value ELSE secrets[key]]
MergedValue(candidate, kept) ==
  Object([key \in DOMAIN candidate.object |->
    IF key \in SecretKeys THEN ForRead(key \in kept) ELSE candidate.object[key]])

WeakApply(candidate) == {"apply", "value.write"}
Needed(candidate) == {"apply", "value.write"} \cup (IF WritesSecret(candidate) THEN {"secret.write"} ELSE {})

ApplyForm(x, candidate, valid, revision, dry_run) ==
  LET refusal == Refusal(TheProvider, x)
      secrets == MergedSecrets(candidate, StoredSecrets(x))
  IN IF ~Granted(Needed(candidate)) THEN Answers("denied")
     ELSE IF refusal # "none" THEN Answers(refusal)
     ELSE IF ~valid THEN Answers("invalid")
     ELSE IF revision # StoredRevision(x) THEN Answers("conflict")
     ELSE IF ~Mergeable(candidate) THEN Answers("rejected")
     ELSE IF dry_run THEN Answers("dry_run")
     ELSE /\ forms[x].present => StoredRevision(x) < MaxFormRevision
          /\ forms' = [forms EXCEPT ![x] =
               [present |-> TRUE, value |-> MergedValue(candidate, DOMAIN secrets), secrets |-> secrets,
                revision |-> IF @.present THEN @.revision + 1 ELSE 1]]
          /\ answer' = "ok"
          /\ UNCHANGED <<registered, snapshot, caps>>
\* The sink may refuse what would have been committed.
PersistFails(x, candidate, valid, revision) ==
  /\ Granted(Needed(candidate)) /\ Refusal(TheProvider, x) = "none" /\ valid
  /\ revision = StoredRevision(x) /\ Mergeable(candidate)
  /\ Answers("failed")

\* The form as it was read, with other fields: whatever they are, the secrets are
\* what the read returned for them.
Edited(form, edits) ==
  Object([key \in (SecretKeys \cap DOMAIN form.object) \cup (DOMAIN edits.object \ SecretKeys) |->
            IF key \in SecretKeys THEN form.object[key] ELSE edits.object[key]])
IsForm(value) == TypeOf(value) = "object"
FormsToSend(form) ==
  {form} \cup {Edited(form, edits) : edits \in {e \in Candidates : IsForm(e) /\ IsForm(form)}}

\* What a session sends: values of its own, with the revision it read or, as when
\* it names none, the first; or the form it has read, edited or not, in the tagged
\* JSON of a snapshot, which config_value_from_json reads as the value it was made of.
ApplyEdited(x, candidate) ==
  LET valid == Validated(x, candidate)
  IN \E revision \in {1} \cup (IF snapshot.present THEN {snapshot.revision} ELSE {}) :
       \/ \E dry_run \in BOOLEAN : ApplyForm(x, candidate, valid, revision, dry_run)
       \/ PersistFails(x, candidate, valid, revision)
SendBack ==
  /\ snapshot.present
  /\ \E sent \in FormsToSend(snapshot.value) :
       LET valid == Validated(snapshot.context, sent)
       IN ApplyForm(snapshot.context, sent, valid, snapshot.revision, FALSE)

FormsNext ==
  \/ \E p \in DOMAIN FormProviders : Register(p) \/ Unregister(p) \/ GetSchema(p)
  \/ ListProviders \/ Malformed \/ SendBack
  \/ \E x \in FormContexts : ReadForm(x)
  \/ \E x \in FormContexts, candidate \in Candidates : ValidateForm(x, candidate) \/ ApplyEdited(x, candidate)

FormsSpec == FormsInit /\ [][FormsNext]_formVars

-----------------------------------------------------------------------------
(* Properties.                                                             *)

\* Whatever was sent, what is stored is what the author of the schema asks for, in
\* words that owe nothing to the validation (validate.rs:47-231).
StoredAsMeant == \A x \in FormContexts : forms[x].present => Meant(forms[x].value)

\* What validation has to see to: of the values in sent, all that a session has of
\* its own or from a form, those it accepts are as the author means, once stored.
MeantIfAccepted(sent) ==
  /\ Candidates \cup {Redacted(FormDefaults, {})} \subseteq sent
  /\ \A value \in sent : FormsToSend(value) \subseteq sent
  /\ \A value \in sent, kept \in SUBSET SecretKeys :
       LET stored == MergedValue(value, kept)
       IN Accepts(Root, value) /\ Mergeable(value) => Meant(stored) /\ Redacted(stored, kept) \in sent

\* A form that is sent back, whatever was edited in its other fields, leaves every
\* secret as it is, although it shows only that there is one: what a read returns
\* for a secret means keep on a write (merge_secrets, memory.rs:99-156).
SecretChanges == \E x \in FormContexts : StoredSecrets(x)' # StoredSecrets(x)
FormKeepsSecrets == [][SecretChanges => ~SendBack]_formVars

\* Only a session with the right to write secrets changes one, however deep in the
\* candidate and in whatever shape the change comes: the check of service.rs:90-92
\* and the merge of memory.rs:99-156 agree on what changes a secret.
SecretsGuarded ==
  [][SecretChanges =>
       "*" \in caps \/ {"apply", "value.write", "secret.write"} \subseteq caps]_formVars
=============================================================================
