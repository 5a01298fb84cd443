---------------------------- MODULE ConfigValues ----------------------------
(***************************************************************************)
(* Values, as the program keeps them and as JSON (mutsuki-bot-config:      *)
(* value.rs, secret.rs).                                                   *)
(*                                                                         *)
(* A value is a record with one field, which names its type.  What the     *)
(* code does by recursion on a value is a function on its parts, so that   *)
(* it can be proved about.                                                 *)
(***************************************************************************)
EXTENDS Integers, Sequences, SequencesExt, FiniteSets, FiniteSetsExt

CONSTANTS
  Budgets,     \* ConfigBudgets
  ValueDepth   \* how deep a value is: a reader of JSON has a limit, 128 in serde_json

ASSUME ValuesAssumption == ValueDepth \in Nat \ {0}

TypeOf(value) == CHOOSE type \in DOMAIN value : TRUE

Object(map) == [object |-> map]
String(text) == [string |-> text]
Secret(state) == [secret |-> [state |-> state]]
SetSecret(plaintext) == [secret |-> [state |-> "set", value |-> plaintext]]
SecretStates == {"configured", "absent", "unavailable", "keep", "clear"}   \* without a value

ForRead(present) == Secret(IF present THEN "configured" ELSE "absent")

\* The parts of a value: itself, what is in it, what is in that.
Children(value) ==
  CASE TypeOf(value) = "object" -> {value.object[key] : key \in DOMAIN value.object}
    [] TypeOf(value) = "array" -> {value.array[i] : i \in DOMAIN value.array}
    [] OTHER -> {}
PartsAt(value) ==
  LET at[depth \in 0..ValueDepth] ==
        IF depth = 0 THEN {value} ELSE UNION {Children(part) : part \in at[depth - 1]}
  IN at
Parts(value) == LET at == PartsAt(value) IN UNION {at[depth] : depth \in 0..ValueDepth}

\* from_json.  An object whose "state" is one of a secret is a secret, if it is
\* well formed; whole numbers are integers.
IsSecretShape(map) ==
  /\ "state" \in DOMAIN map /\ TypeOf(map["state"]) = "string"
  /\ \/ map["state"].string \in SecretStates
     \/ map["state"].string = "set" /\ "value" \in DOMAIN map /\ TypeOf(map["value"]) = "string"

FromJson(json) ==
  LET read[part \in Parts(json)] ==
        CASE TypeOf(part) = "array" -> [array |-> [i \in DOMAIN part.array |-> read[part.array[i]]]]
          [] TypeOf(part) = "object" /\ IsSecretShape(part.object) ->
               IF part.object["state"].string = "set" THEN SetSecret(part.object["value"].string)
               ELSE Secret(part.object["state"].string)
          [] TypeOf(part) = "object" /\ ~IsSecretShape(part.object) ->
               Object([key \in DOMAIN part.object |-> read[part.object[key]]])
          [] OTHER -> part
  IN read[json]

\* candidate_writes_secret.
WritesSecret(value) ==
  \E part \in Parts(value) : TypeOf(part) = "secret" /\ part.secret.state \in {"set", "clear"}
=============================================================================
