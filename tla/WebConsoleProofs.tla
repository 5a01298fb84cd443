-------------------------- MODULE WebConsoleProofs --------------------------
(***************************************************************************)
(* Theorems about the forms of the console (ConfigForms), for every        *)
(* schema, candidate and set of capabilities, and whatever validation      *)
(* says, and about the console that composes the parts (WebConsole).       *)
(*                                                                         *)
(*   - What a session is shown of a secret, and what is stored of it next  *)
(*     to the secrets, is whether there is one: FormsInv.                  *)
(*   - So a form that is sent back, edited in its other fields or not,     *)
(*     neither sets nor clears a secret, and the merge keeps what is       *)
(*     neither set nor cleared.                                            *)
(*   - An update that is merged is a part of the candidate, where the      *)
(*     check of the capabilities looks for it, however large it is.        *)
(*   - A behaviour of the console is one of each part.                     *)
(***************************************************************************)
EXTENDS WebConsole, WellFoundedInduction, TLAPS

-----------------------------------------------------------------------------
(* Values.                                                                 *)

\* The type of a value is the field that its record has.
LEMMA TypeOfObject ==
  ASSUME NEW map
  PROVE  TypeOf(Object(map)) = "object" /\ Object(map).object = map
  <1>1. DOMAIN Object(map) = {"object"}
    BY DEF Object
  <1>2. \A type : type \in DOMAIN Object(map) <=> type = "object"
    BY <1>1
  <1>3. TypeOf(Object(map)) = "object"
    BY <1>2 DEF TypeOf
  <1> QED
    BY <1>3 DEF Object

\* Levels of parts, down to n.
IsLevels(at, value, n) ==
  at = [depth \in 0..n |-> IF depth = 0 THEN {value} ELSE UNION {Children(part) : part \in at[depth - 1]}]

LEMMA SetInduction ==
  ASSUME NEW S, 0 \in S, \A n \in Nat : n \in S => n + 1 \in S
  PROVE  Nat \subseteq S
  <1> SUFFICES ASSUME NEW x \in Nat, x \notin S PROVE FALSE
    OBVIOUS
  <1> DEFINE R == OpToRel(<, Nat)
             T == Nat \ S
  <1>1. IsWellFoundedOn(R, Nat)
    BY NatLessThanWellFounded
  <1>2. \A a, b \in Nat : <<a, b>> \in R <=> a < b
    BY DEF OpToRel
  <1> HIDE DEF R
  <1>3. PICK n \in T : \A m \in T : ~(<<m, n>> \in R)
    BY <1>1, WFMin
  <1>4. n \in Nat /\ n # 0 /\ n - 1 \in Nat /\ n - 1 < n
    BY <1>3
  <1>5. n - 1 \in S
    BY <1>2, <1>3, <1>4
  <1> QED
    BY <1>3, <1>4, <1>5

LEMMA LevelsExist ==
  ASSUME NEW value, NEW n \in Nat
  PROVE  \E at : IsLevels(at, value, n)
  <1> DEFINE S == {k \in Nat : \E at : IsLevels(at, value, k)}
  <1>1. 0 \in S
    <2> DEFINE g == [depth \in 0..0 |-> {value}]
    <2>1. IsLevels(g, value, 0)
      BY DEF IsLevels
    <2> QED
      BY <2>1
  <1>2. ASSUME NEW k \in Nat, k \in S PROVE k + 1 \in S
    <2>1. PICK f : IsLevels(f, value, k)
      BY <1>2
    <2> DEFINE Level(h, depth) == IF depth = 0 THEN {value} ELSE UNION {Children(part) : part \in h[depth - 1]}
               g == [depth \in 0..k + 1 |-> IF depth = k + 1 THEN Level(f, k + 1) ELSE f[depth]]
    <2>2. ASSUME NEW depth \in 0..k + 1
          PROVE  g[depth] = Level(g, depth)
      <3>1. depth # 0 => depth - 1 \in 0..k /\ g[depth - 1] = f[depth - 1]
        OBVIOUS
      <3>2. CASE depth = k + 1
        BY <3>1, <3>2
      <3>3. CASE depth \in 0..k
        <4>1. g[depth] = f[depth]
          BY <3>3
        <4>2. f[depth] = Level(f, depth)
          BY <2>1, <3>3 DEF IsLevels
        <4> QED
          BY <3>1, <4>1, <4>2
      <3> QED
        BY <3>2, <3>3
    <2>3. g = [depth \in 0..k + 1 |-> g[depth]]
      OBVIOUS
    <2> HIDE DEF g
    <2>4. IsLevels(g, value, k + 1)
      BY <2>2, <2>3 DEF IsLevels
    <2> QED
      BY <2>4
  <1> HIDE DEF S
  <1>3. Nat \subseteq S
    BY <1>1, <1>2, SetInduction
  <1> QED
    BY <1>3 DEF S

LEMMA PartsLevels ==
  ASSUME NEW value
  PROVE  IsLevels(PartsAt(value), value, ValueDepth)
  <1>1. \E at : at = [depth \in 0..ValueDepth |->
                        IF depth = 0 THEN {value} ELSE UNION {Children(part) : part \in at[depth - 1]}]
    <2>1. ValueDepth \in Nat
      BY ValuesAssumption
    <2>2. PICK at : IsLevels(at, value, ValueDepth)
      BY <2>1, LevelsExist
    <2> QED
      BY <2>2 DEF IsLevels
  <1> QED
    BY <1>1 DEF PartsAt, IsLevels

\* What an object holds is a part of it.
LEMMA FieldIsPart ==
  ASSUME NEW value, TypeOf(value) = "object", NEW key \in DOMAIN value.object
  PROVE  value.object[key] \in Parts(value)
  <1> DEFINE at == PartsAt(value)
  <1>1. /\ at[0] = {value}
        /\ at[1] = UNION {Children(part) : part \in at[0]}
    <2>1. 0 \in 0..ValueDepth /\ 1 \in 0..ValueDepth
      BY ValuesAssumption
    <2> HIDE DEF at
    <2>2. at = [depth \in 0..ValueDepth |->
                  IF depth = 0 THEN {value} ELSE UNION {Children(part) : part \in at[depth - 1]}]
      BY PartsLevels DEF at, IsLevels
    <2> QED
      BY <2>1, <2>2
  <1>2. value.object[key] \in Children(value)
    BY DEF Children
  <1>3. value.object[key] \in at[1]
    BY <1>1, <1>2
  <1>4. 1 \in 0..ValueDepth
    BY ValuesAssumption
  <1> QED
    BY <1>3, <1>4 DEF Parts

-----------------------------------------------------------------------------
(* The store of a provider and what sessions see of it.                    *)

\* What a read may return for a secret.
Shown == {ForRead(TRUE), ForRead(FALSE)}
Hides(value) ==
  TypeOf(value) = "object" => \A key \in SecretKeys \cap DOMAIN value.object : value.object[key] \in Shown

\* Next to the secrets, which are all of fields that the schema says are secret, the
\* store keeps of each whether there is one.
Honest(entry) ==
  entry.present =>
    /\ entry.secrets = [key \in DOMAIN entry.secrets |-> entry.secrets[key]]
    /\ DOMAIN entry.secrets \subseteq SecretKeys
    /\ TypeOf(entry.value) = "object"
    /\ \A key \in SecretKeys \cap DOMAIN entry.value.object :
         entry.value.object[key] = ForRead(key \in DOMAIN entry.secrets)

StoreHonest == \A x \in FormContexts : Honest(forms[x])
SnapshotHides == snapshot.present => snapshot.context \in FormContexts /\ Hides(snapshot.value)
FormsInv ==
  /\ forms = [x \in FormContexts |-> forms[x]]
  /\ StoreHonest
  /\ SnapshotHides

\* What an apply leaves behind that is not refused.
NewSecrets(x, candidate) == MergedSecrets(candidate, StoredSecrets(x))
NewEntry(x, candidate, revision) ==
  [present |-> TRUE, value |-> MergedValue(candidate, DOMAIN NewSecrets(x, candidate)),
   secrets |-> NewSecrets(x, candidate), revision |-> revision]
Commits(x, candidate) ==
  /\ Granted(Needed(candidate)) /\ Accepts(Root, candidate) /\ Mergeable(candidate)
  /\ \E revision : forms' = [forms EXCEPT ![x] = NewEntry(x, candidate, revision)]
  /\ UNCHANGED <<snapshot, caps>>
Reads(x) ==
  /\ snapshot'.present => snapshot'.context = x /\ snapshot'.value = Redacted(StoredValue(x), DOMAIN StoredSecrets(x))
  /\ UNCHANGED <<forms, caps>>
Keeps == UNCHANGED <<forms, snapshot, caps>>
Sends(candidate) ==
  candidate \in Candidates \/ (snapshot.present /\ candidate \in FormsToSend(snapshot.value))

LEMMA SecretOfRead ==
  ASSUME NEW key, NEW keys
  PROVE  ForRead(key \in keys) \in Shown
  <1>1. CASE key \in keys
    BY <1>1 DEF Shown, ForRead
  <1>2. CASE key \notin keys
    BY <1>2 DEF Shown, ForRead
  <1> QED
    BY <1>1, <1>2

LEMMA ShownIsNoUpdate ==
  ASSUME NEW value \in Shown
  PROVE  TypeOf(value) = "secret" /\ value.secret.state \notin {"set", "clear"}
  <1>1. ASSUME NEW state PROVE TypeOf(Secret(state)) = "secret" /\ Secret(state).secret.state = state
    <2>1. DOMAIN Secret(state) = {"secret"}
      BY DEF Secret
    <2>2. \A type : type \in DOMAIN Secret(state) <=> type = "secret"
      BY <2>1
    <2>3. TypeOf(Secret(state)) = "secret"
      BY <2>2 DEF TypeOf
    <2> QED
      BY <2>3 DEF Secret
  <1>2. value = Secret("configured") \/ value = Secret("absent")
    BY DEF Shown, ForRead
  <1> QED
    BY <1>1, <1>2

\* redact_for_read, at the fields of the root, whatever it does below them.
LEMMA RedactedHides ==
  ASSUME NEW value, NEW kept
  PROVE  Hides(Redacted(value, kept))
  <1>1. PICK below : Redacted(value, kept) = Redact(value, kept, below)
    BY DEF Redacted
  <1>2. CASE TypeOf(value) # "object"
    BY <1>1, <1>2 DEF Redact, Hides
  <1>3. CASE TypeOf(value) = "object"
    <2> DEFINE Field(key) == IF key \in SecretKeys THEN ForRead(key \in kept) ELSE below[value.object[key]]
               map == [key \in DOMAIN value.object |-> Field(key)]
    <2>1. Redacted(value, kept) = Object(map)
      BY <1>1, <1>3 DEF Redact
    <2>2. Object(map).object = map /\ DOMAIN map = DOMAIN value.object
      BY TypeOfObject
    <2>3. ASSUME NEW key \in SecretKeys \cap DOMAIN map PROVE map[key] \in Shown
      <3>1. map[key] = ForRead(key \in kept)
        BY <2>2, <2>3
      <3> QED
        BY <3>1, SecretOfRead
    <2> HIDE DEF map
    <2> QED
      BY <2>1, <2>2, <2>3 DEF Hides
  <1> QED
    BY <1>2, <1>3

\* Edits of other fields leave the secrets as they were read.
LEMMA EditedHides ==
  ASSUME NEW form, Hides(form), NEW value \in FormsToSend(form)
  PROVE  Hides(value)
  <1>1. CASE value = form
    BY <1>1
  <1>2. CASE value # form
    <2>1. PICK edits \in Candidates : IsForm(form) /\ value = Edited(form, edits)
      BY <1>2 DEF FormsToSend
    <2> DEFINE keys == (SecretKeys \cap DOMAIN form.object) \cup (DOMAIN edits.object \ SecretKeys)
               Field(key) == IF key \in SecretKeys THEN form.object[key] ELSE edits.object[key]
               map == [key \in keys |-> Field(key)]
    <2>2. value.object = map
      BY <2>1, TypeOfObject DEF Edited
    <2>3. ASSUME NEW key \in SecretKeys \cap DOMAIN map PROVE map[key] \in Shown
      <3>1. key \in SecretKeys \cap DOMAIN form.object /\ map[key] = form.object[key]
        OBVIOUS
      <3> QED
        BY <2>1, <3>1 DEF Hides, IsForm
    <2> HIDE DEF map
    <2> QED
      BY <2>2, <2>3 DEF Hides
  <1> QED
    BY <1>1, <1>2

\* ConfigProvider::apply: refused, reported or committed.
LEMMA ApplyEffect ==
  ASSUME NEW x, NEW candidate, NEW revision, NEW dry_run,
         ApplyForm(x, candidate, Accepts(Root, candidate), revision, dry_run)
  PROVE  Keeps \/ Commits(x, candidate)
  <1>1. CASE UNCHANGED forms
    BY <1>1 DEF ApplyForm, Answers, Keeps
  <1>2. CASE ~UNCHANGED forms
    <2>1. /\ Granted(Needed(candidate)) /\ Accepts(Root, candidate) /\ Mergeable(candidate)
          /\ forms' = [forms EXCEPT ![x] =
               NewEntry(x, candidate, IF forms[x].present THEN forms[x].revision + 1 ELSE 1)]
          /\ UNCHANGED <<snapshot, caps>>
      BY <1>2 DEF ApplyForm, Answers, NewEntry, NewSecrets
    <2> QED
      BY <2>1 DEF Commits
  <1> QED
    BY <1>1, <1>2

\* merge_secrets keeps what the candidate neither sets nor clears.
LEMMA MergeKeeps ==
  ASSUME NEW candidate, NEW secrets, secrets = [key \in DOMAIN secrets |-> secrets[key]],
         Update(candidate, "set") = {}, Update(candidate, "clear") = {}
  PROVE  MergedSecrets(candidate, secrets) = secrets
  <1>1. MergedSecrets(candidate, secrets) = [key \in DOMAIN secrets |-> secrets[key]]
    BY DEF MergedSecrets
  <1> QED
    BY <1>1

\* What merge_secrets returns belongs together.
LEMMA MergeIsHonest ==
  ASSUME NEW candidate, NEW secrets, DOMAIN secrets \subseteq SecretKeys, NEW revision
  PROVE  Honest([present |-> TRUE, value |-> MergedValue(candidate, DOMAIN MergedSecrets(candidate, secrets)),
                 secrets |-> MergedSecrets(candidate, secrets), revision |-> revision])
  <1> DEFINE merged == MergedSecrets(candidate, secrets)
             Kept(key) == IF key \in Update(candidate, "set") THEN SecretOf(candidate, key).value ELSE secrets[key]
             keys == (DOMAIN secrets \cup Update(candidate, "set")) \ Update(candidate, "clear")
             Stored(key) == IF key \in SecretKeys THEN ForRead(key \in DOMAIN merged) ELSE candidate.object[key]
             map == [key \in DOMAIN candidate.object |-> Stored(key)]
  <1>1. merged = [key \in keys |-> Kept(key)]
    BY DEF MergedSecrets
  <1>2. merged = [key \in DOMAIN merged |-> merged[key]]
    <2> HIDE DEF Kept, keys, merged
    <2> QED
      BY <1>1
  <1>3. DOMAIN merged \subseteq SecretKeys
    <2>1. keys \subseteq SecretKeys
      BY DEF Update
    <2> HIDE DEF Kept, keys, merged
    <2> QED
      BY <1>1, <2>1
  <1>4. MergedValue(candidate, DOMAIN merged) = Object(map)
    BY DEF MergedValue
  <1>5. TypeOf(Object(map)) = "object" /\ Object(map).object = map
    BY TypeOfObject
  <1>6. \A key \in SecretKeys \cap DOMAIN map : map[key] = ForRead(key \in DOMAIN merged)
    OBVIOUS
  <1> HIDE DEF merged, map
  <1>7. Honest([present |-> TRUE, value |-> MergedValue(candidate, DOMAIN merged), secrets |-> merged, revision |-> revision])
    BY <1>2, <1>3, <1>4, <1>5, <1>6 DEF Honest
  <1> QED
    BY <1>7 DEF merged

LEMMA StoredSecretsShape ==
  ASSUME FormsInv, NEW x \in FormContexts
  PROVE  /\ StoredSecrets(x) = [key \in DOMAIN StoredSecrets(x) |-> StoredSecrets(x)[key]]
         /\ DOMAIN StoredSecrets(x) \subseteq SecretKeys
  <1>1. CASE forms[x].present
    BY <1>1 DEF FormsInv, StoreHonest, Honest, StoredSecrets
  <1>2. CASE ~forms[x].present
    BY <1>2 DEF StoredSecrets, NoSecrets
  <1> QED
    BY <1>1, <1>2

-----------------------------------------------------------------------------
(* Steps.                                                                  *)

\* What a step does to the store and to what a session sees of it.
LEMMA FormsStep ==
  ASSUME FormsInv, FormsNext
  PROVE  \/ Keeps
         \/ \E x \in FormContexts : Reads(x)
         \/ \E x \in FormContexts : \E candidate : Sends(candidate) /\ Commits(x, candidate)
  <1>1. ASSUME NEW p \in DOMAIN FormProviders, Register(p) \/ Unregister(p) \/ GetSchema(p)
        PROVE  Keeps
    BY <1>1 DEF Register, Unregister, GetSchema, Answers, Keeps
  <1>2. ASSUME ListProviders \/ Malformed PROVE Keeps
    BY <1>2 DEF ListProviders, Malformed, Answers, Keeps
  <1>3. ASSUME SendBack
        PROVE  Keeps \/ \E x \in FormContexts : \E candidate : Sends(candidate) /\ Commits(x, candidate)
    <2>1. snapshot.context \in FormContexts
      BY <1>3 DEF SendBack, FormsInv, SnapshotHides
    <2>2. PICK sent \in FormsToSend(snapshot.value) :
            ApplyForm(snapshot.context, sent, Accepts(Root, sent), snapshot.revision, FALSE)
      BY <1>3 DEF SendBack, Validated
    <2>3. Keeps \/ Commits(snapshot.context, sent)
      BY <2>2, ApplyEffect
    <2>4. Sends(sent)
      BY <1>3 DEF SendBack, Sends
    <2> QED
      BY <2>1, <2>3, <2>4
  <1>4. ASSUME NEW x \in FormContexts, ReadForm(x) PROVE Keeps \/ Reads(x)
    BY <1>4 DEF ReadForm, Answers, Keeps, Reads
  <1>5. ASSUME NEW x \in FormContexts, NEW candidate \in Candidates, ValidateForm(x, candidate) PROVE Keeps
    BY <1>5 DEF ValidateForm, Answers, Keeps
  <1>6. ASSUME NEW x \in FormContexts, NEW candidate \in Candidates, ApplyEdited(x, candidate)
        PROVE  Keeps \/ Commits(x, candidate)
    <2>1. ASSUME NEW revision, PersistFails(x, candidate, Accepts(Root, candidate), revision) PROVE Keeps
      BY <2>1 DEF PersistFails, Answers, Keeps
    <2>2. ASSUME NEW revision, NEW dry_run, ApplyForm(x, candidate, Accepts(Root, candidate), revision, dry_run)
          PROVE  Keeps \/ Commits(x, candidate)
      BY <2>2, ApplyEffect
    <2> QED
      BY <1>6, <2>1, <2>2 DEF ApplyEdited, Validated
  <1> QED
    BY <1>1, <1>2, <1>3, <1>4, <1>5, <1>6 DEF FormsNext, Sends

LEMMA FormsInitially == FormsInit => FormsInv
  BY DEF FormsInit, FormsInv, StoreHonest, SnapshotHides, Honest, NoForm

LEMMA FormsSteps == FormsInv /\ [FormsNext]_formVars => FormsInv'
  <1> SUFFICES ASSUME FormsInv, [FormsNext]_formVars PROVE FormsInv'
    OBVIOUS
  <1>1. ASSUME Keeps PROVE FormsInv'
    BY <1>1 DEF Keeps, FormsInv, StoreHonest, Honest, SnapshotHides, Hides
  <1>2. ASSUME NEW x \in FormContexts, Reads(x) PROVE FormsInv'
    <2>1. Hides(Redacted(StoredValue(x), DOMAIN StoredSecrets(x)))
      BY RedactedHides
    <2>2. SnapshotHides'
      BY <1>2, <2>1 DEF Reads, SnapshotHides, Hides
    <2> QED
      BY <1>2, <2>2 DEF Reads, FormsInv, StoreHonest, Honest
  <1>3. ASSUME NEW x \in FormContexts, NEW candidate, Commits(x, candidate) PROVE FormsInv'
    <2>1. PICK revision : forms' = [forms EXCEPT ![x] = NewEntry(x, candidate, revision)]
      BY <1>3 DEF Commits
    <2>2. Honest(NewEntry(x, candidate, revision))
      BY StoredSecretsShape, MergeIsHonest DEF NewEntry, NewSecrets
    <2>3. forms' = [y \in FormContexts |-> forms'[y]]
      <3>1. forms = [y \in FormContexts |-> forms[y]]
        BY DEF FormsInv
      <3> QED
        BY <2>1, <3>1
    <2>4. ASSUME NEW y \in FormContexts PROVE Honest(forms'[y])
      <3>1. CASE y = x
        <4>1. forms'[y] = NewEntry(x, candidate, revision)
          BY <2>1, <3>1 DEF FormsInv
        <4> QED
          BY <2>2, <4>1
      <3>2. CASE y # x
        <4>1. forms'[y] = forms[y]
          BY <2>1, <3>2 DEF FormsInv
        <4> QED
          BY <4>1 DEF FormsInv, StoreHonest
      <3> QED
        BY <3>1, <3>2
    <2>5. StoreHonest'
      BY <2>4 DEF StoreHonest, Honest
    <2>6. SnapshotHides'
      BY <1>3 DEF Commits, FormsInv, SnapshotHides, Hides
    <2> QED
      BY <2>3, <2>5, <2>6 DEF FormsInv
  <1>4. CASE UNCHANGED formVars
    BY <1>1, <1>4 DEF formVars, Keeps
  <1>5. CASE FormsNext
    BY <1>1, <1>2, <1>3, <1>5, FormsStep
  <1> QED
    BY <1>4, <1>5

\* The inductive invariant of the forms.
THEOREM FormsInvariant == FormsSpec => []FormsInv
  BY FormsInitially, FormsSteps, PTL DEF FormsSpec

\* Whatever sessions do, what they hold of a secret field and what the store keeps of
\* it beside the secrets is whether there is one, never its text (redact_for_read and
\* merge_secrets, memory.rs:65-157), and where the store says there is one, there is.
THEOREM FormsHideSecrets == FormsSpec => [](StoreHonest /\ SnapshotHides)
  <1>1. FormsInv => StoreHonest /\ SnapshotHides
    BY DEF FormsInv
  <1> QED
    BY <1>1, FormsInvariant, PTL

-----------------------------------------------------------------------------
(* Changes of secrets.                                                     *)

LEMMA SecretsStay ==
  ASSUME UNCHANGED forms
  PROVE  ~SecretChanges
  BY DEF SecretChanges, StoredSecrets

\* An apply changes secrets of its own context, and there only to what it merged.
LEMMA CommitChanges ==
  ASSUME FormsInv, NEW x \in FormContexts, NEW candidate, Commits(x, candidate), SecretChanges
  PROVE  NewSecrets(x, candidate) # StoredSecrets(x)
  <1>1. PICK revision : forms' = [forms EXCEPT ![x] = NewEntry(x, candidate, revision)]
    BY DEF Commits
  <1>2. PICK y \in FormContexts : StoredSecrets(y)' # StoredSecrets(y)
    BY DEF SecretChanges
  <1>3. y = x
    <2> SUFFICES ASSUME y # x PROVE FALSE
      OBVIOUS
    <2>1. forms'[y] = forms[y]
      BY <1>1 DEF FormsInv
    <2> QED
      BY <1>2, <2>1 DEF StoredSecrets
  <1>4. forms'[x] = NewEntry(x, candidate, revision)
    BY <1>1 DEF FormsInv
  <1>5. StoredSecrets(x)' = NewSecrets(x, candidate)
    BY <1>4 DEF StoredSecrets, NewEntry
  <1> QED
    BY <1>2, <1>3, <1>5

\* A merge that changes secrets has a secret of the candidate to set or to clear.
LEMMA ChangeNeedsUpdate ==
  ASSUME FormsInv, NEW x \in FormContexts, NEW candidate, NewSecrets(x, candidate) # StoredSecrets(x)
  PROVE  \E state \in {"set", "clear"} : Update(candidate, state) # {}
  BY StoredSecretsShape, MergeKeeps DEF NewSecrets

\* candidate_writes_secret finds every update that merge_secrets makes.
LEMMA UpdateIsWritten ==
  ASSUME NEW candidate, Mergeable(candidate), NEW state \in {"set", "clear"}, Update(candidate, state) # {}
  PROVE  WritesSecret(candidate)
  <1>1. PICK key \in SecretKeys \cap DOMAIN candidate.object : SecretOf(candidate, key).state = state
    BY DEF Update
  <1>2. TypeOf(candidate) = "object" /\ TypeOf(candidate.object[key]) = "secret"
    BY DEF Mergeable
  <1>3. candidate.object[key] \in Parts(candidate)
    BY <1>2, FieldIsPart
  <1> QED
    BY <1>1, <1>2, <1>3 DEF WritesSecret, SecretOf

\* Only a session with the right to write secrets changes one: the check of
\* service.rs:90-92 looks for updates at every depth of the candidate, and what the
\* merge of memory.rs:99-156 makes of the secrets comes from such an update.
THEOREM SecretsAreGuarded == FormsSpec => SecretsGuarded
  <1> DEFINE Guarded == SecretChanges =>
               "*" \in caps \/ {"apply", "value.write", "secret.write"} \subseteq caps
  <1>1. FormsInv /\ [FormsNext]_formVars => [Guarded]_formVars
    <2> SUFFICES ASSUME FormsInv, FormsNext, SecretChanges
                 PROVE  "*" \in caps \/ {"apply", "value.write", "secret.write"} \subseteq caps
      BY DEF Guarded
    <2>1. PICK x \in FormContexts : \E candidate : Commits(x, candidate)
      BY FormsStep, SecretsStay DEF Keeps, Reads
    <2>2. PICK candidate : Commits(x, candidate)
      BY <2>1
    <2>3. NewSecrets(x, candidate) # StoredSecrets(x)
      BY <2>2, CommitChanges
    <2>4. PICK state \in {"set", "clear"} : Update(candidate, state) # {}
      BY <2>3, ChangeNeedsUpdate
    <2>5. Granted(Needed(candidate)) /\ Mergeable(candidate)
      BY <2>2 DEF Commits
    <2>6. WritesSecret(candidate)
      BY <2>4, <2>5, UpdateIsWritten
    <2> QED
      BY <2>5, <2>6 DEF Granted, Needed
  <1> QED
    BY <1>1, FormsInvariant, PTL DEF FormsSpec, SecretsGuarded

\* A form that is sent back changes no secret, whatever fields its user has edited
\* beside the secrets: what a read returns for one means keep on a write, also when
\* others have written in between (merge_secrets, memory.rs:99-156).
THEOREM SentBackFormKeepsSecrets == FormsSpec => FormKeepsSecrets
  <1>1. FormsInv /\ [FormsNext]_formVars => [SecretChanges => ~SendBack]_formVars
    <2> SUFFICES ASSUME FormsInv, SendBack, SecretChanges PROVE FALSE
      OBVIOUS
    <2> DEFINE x == snapshot.context
    <2>0. PICK value \in FormsToSend(snapshot.value) :
            ApplyForm(x, value, Accepts(Root, value), snapshot.revision, FALSE)
      BY DEF SendBack, Validated
    <2>1. x \in FormContexts /\ Hides(value)
      BY EditedHides DEF SendBack, FormsInv, SnapshotHides
    <2>2. Commits(x, value)
      BY <2>0, ApplyEffect, SecretsStay DEF Keeps
    <2>3. TypeOf(value) = "object"
      BY <2>2 DEF Commits, Mergeable
    <2>4. ASSUME NEW state \in {"set", "clear"} PROVE Update(value, state) = {}
      BY <2>1, <2>3, ShownIsNoUpdate DEF Hides, Update, SecretOf
    <2>5. NewSecrets(x, value) # StoredSecrets(x)
      BY <2>1, <2>2, CommitChanges
    <2> QED
      BY <2>1, <2>4, <2>5, ChangeNeedsUpdate
  <1> QED
    BY <1>1, FormsInvariant, PTL DEF FormsSpec, FormKeepsSecrets

-----------------------------------------------------------------------------
(* What is stored.                                                         *)

\* Every value in the store went through validation, and every value of a session is
\* one that may be sent.
SentInv(sent) ==
  /\ \A x \in FormContexts : forms[x].present =>
       /\ Meant(forms[x].value)
       /\ Redacted(forms[x].value, DOMAIN forms[x].secrets) \in sent
  /\ snapshot.present => snapshot.value \in sent

\* What is read may be sent.
LEMMA ReadIsSent ==
  ASSUME NEW sent, MeantIfAccepted(sent), SentInv(sent), NEW x \in FormContexts
  PROVE  Redacted(StoredValue(x), DOMAIN StoredSecrets(x)) \in sent
  <1>1. CASE forms[x].present
    BY <1>1 DEF SentInv, StoredValue, StoredSecrets
  <1>2. CASE ~forms[x].present
    <2>1. DOMAIN NoSecrets = {}
      BY DEF NoSecrets
    <2>2. Redacted(FormDefaults, {}) \in sent
      BY DEF MeantIfAccepted
    <2>3. StoredValue(x) = FormDefaults /\ StoredSecrets(x) = NoSecrets
      BY <1>2 DEF StoredValue, StoredSecrets
    <2> QED
      BY <2>1, <2>2, <2>3
  <1> QED
    BY <1>1, <1>2

LEMMA SentSteps ==
  ASSUME NEW sent, MeantIfAccepted(sent), FormsInv, SentInv(sent), [FormsNext]_formVars
  PROVE  SentInv(sent)'
  <1>1. ASSUME Keeps PROVE SentInv(sent)'
    BY <1>1 DEF Keeps, SentInv
  <1>2. ASSUME NEW x \in FormContexts, Reads(x) PROVE SentInv(sent)'
    <2>1. Redacted(StoredValue(x), DOMAIN StoredSecrets(x)) \in sent
      BY ReadIsSent
    <2> QED
      BY <1>2, <2>1 DEF Reads, SentInv
  <1>3. ASSUME NEW x \in FormContexts, NEW candidate, Sends(candidate), Commits(x, candidate)
        PROVE  SentInv(sent)'
    <2> DEFINE kept == DOMAIN NewSecrets(x, candidate)
               stored == MergedValue(candidate, kept)
    <2>1. PICK revision : forms' = [forms EXCEPT ![x] = NewEntry(x, candidate, revision)]
      BY <1>3 DEF Commits
    <2>2. candidate \in sent
      BY <1>3 DEF Sends, MeantIfAccepted, SentInv
    <2>3. kept \in SUBSET SecretKeys
      <3>1. Honest(NewEntry(x, candidate, revision))
        BY StoredSecretsShape, MergeIsHonest DEF NewEntry, NewSecrets
      <3> QED
        BY <3>1 DEF Honest, NewEntry
    <2>4. Accepts(Root, candidate) /\ Mergeable(candidate)
      BY <1>3 DEF Commits
    <2> HIDE DEF kept
    <2>5. Meant(stored) /\ Redacted(stored, kept) \in sent
      BY <2>2, <2>3, <2>4 DEF MeantIfAccepted
    <2> USE DEF kept
    <2>6. ASSUME NEW y \in FormContexts, forms'[y].present
          PROVE  Meant(forms'[y].value) /\ Redacted(forms'[y].value, DOMAIN forms'[y].secrets) \in sent
      <3>1. CASE y = x
        <4>1. forms'[y] = NewEntry(x, candidate, revision)
          BY <2>1, <3>1 DEF FormsInv
        <4>2. forms'[y].value = stored /\ DOMAIN forms'[y].secrets = kept
          BY <4>1 DEF NewEntry
        <4> QED
          BY <2>5, <4>2
      <3>2. CASE y # x
        <4>1. forms'[y] = forms[y]
          BY <2>1, <3>2 DEF FormsInv
        <4> QED
          BY <2>6, <4>1 DEF SentInv
      <3> QED
        BY <3>1, <3>2
    <2>7. snapshot' = snapshot
      BY <1>3 DEF Commits
    <2> QED
      BY <2>6, <2>7 DEF SentInv
  <1>4. CASE UNCHANGED formVars
    BY <1>1, <1>4 DEF formVars, Keeps
  <1>5. CASE FormsNext
    BY <1>1, <1>2, <1>3, <1>5, FormsStep
  <1> QED
    BY <1>4, <1>5

\* Whatever sessions send, edited or as it was read, what is stored is as the author of
\* the schema means it, if validation accepts nothing else: there is no way into the
\* store around it, and redacting and merging undo nothing of what it has seen to
\* (memory.rs:280-373, where apply validates what it then merges).
THEOREM StoredIsMeant ==
  ASSUME NEW sent, MeantIfAccepted(sent)
  PROVE  FormsSpec => []StoredAsMeant
  <1>1. FormsInit => SentInv(sent)
    BY DEF FormsInit, SentInv, NoForm
  <1>2. FormsInv /\ SentInv(sent) /\ [FormsNext]_formVars => SentInv(sent)'
    BY SentSteps
  <1>3. SentInv(sent) => StoredAsMeant
    BY DEF SentInv, StoredAsMeant
  <1> QED
    BY <1>1, <1>2, <1>3, FormsInvariant, PTL DEF FormsSpec

-----------------------------------------------------------------------------
(* The console.                                                            *)

\* A behaviour of the console is one of every part, so that what is proved of the
\* configuration service, of the forms and of the upgrades holds behind the console
\* that fronts them (build_console_host, lib.rs:107-159).
THEOREM ConsoleServesParts == ConsoleSpec => ConfigSpec /\ FormsSpec /\ CatalogSpec
  <1>1. ConsoleInit => ConfigInit /\ FormsInit /\ CatalogInit
    BY DEF ConsoleInit
  <1>2. [ConsoleNext]_consoleVars => [ConfigNext]_configVars /\ [FormsNext]_formVars /\ [CatalogNext]_catalogVars
    BY DEF ConsoleNext, consoleVars
  <1> QED
    BY <1>1, <1>2, PTL DEF ConsoleSpec, ConfigSpec, FormsSpec, CatalogSpec

=============================================================================
