---------------------------- MODULE MCWebConsole ----------------------------
(***************************************************************************)
(* Values for the checked instance of WebConsole.  The form is like that   *)
(* of a chat adapter: a required secret, a number that is shown on a       *)
(* condition, tags, a choice and an object with a condition of its own.    *)
(* Strings stand for themselves and are short; so are budgets.             *)
(***************************************************************************)
EXTENDS WebConsole, ConfigSchema

\* Two clients of the configuration, or two command lines.
CONSTANTS cli1, cli2
SameCommands == Permutations({cli1, cli2})

\* The providers of the product: the command plugin's, whose sink replaces what the
\* file has, and the product's own, with a field it patches and one it never writes.
MCFields == {"prefixes", "profile", "instance_id"}
MCProviderFields == [command |-> {"prefixes"}, product |-> {"profile", "instance_id"}]
MCPolicy == [f \in MCFields |-> IF f = "prefixes" THEN "PluginReload" ELSE "BotRestart"]
MCSink == [prefixes |-> "replace", profile |-> "patch", instance_id |-> "skip"]

MCBudgets ==
  [max_providers |-> 1, max_schema_nodes |-> 12, max_schema_depth |-> 2, max_array_len |-> 2,
   max_map_entries |-> 1, max_string_bytes |-> 5, max_expr_nodes |-> 4, max_expr_depth |-> 2, max_id_bytes |-> 8]

None == [x \in {} |-> 0]
Kind(kind) == [kind |-> kind]
Field(key) == [op |-> "field", key |-> key]
Is(key, b) == [op |-> "eq", left |-> Field(key), right |-> [op |-> "literal", value |-> [bool |-> b]]]

MCFormRoot ==
  [Node("root", Kind("object"), None) EXCEPT !.children = <<
     [Node("token", Kind("secret"), None) EXCEPT !.required = TRUE, !.secret = TRUE],
     Node("retry", Kind("bool"), None),
     [Node("interval", Kind("integer"), [min |-> 1, max |-> 3]) EXCEPT !.visibility = {Is("retry", TRUE)}],
     Node("name", Kind("string"), [min_length |-> 1, max_length |-> 4, pattern |-> [whole |-> FALSE, text |-> "bo"]]),
     Node("mode", [kind |-> "enum", multi |-> FALSE, options |-> {"ws", "poll"}], None),
     Node("tags", [kind |-> "array", item |-> Kind("string")], [max_items |-> 2, min_length |-> 1]),
     [Node("proxy", Kind("object"), None) EXCEPT
        !.visibility = {[op |-> "or", items |-> <<[op |-> "is_set", key |-> "url"], Field("on")>>]},
        !.children = <<Node("on", Kind("bool"), None),
                       [Node("url", Kind("string"), None) EXCEPT !.required = TRUE]>>]>>]
MCDeepRoot ==
  [Node("root", Kind("object"), None) EXCEPT !.enabled =
     {[op |-> "not", expr |-> [op |-> "and", items |-> <<Is("a", TRUE), Is("b", TRUE)>>]]}]

MCFormProviders ==
  [adapter |-> [root |-> MCFormRoot, scopes |-> {"plugin_instance"}],
   other |-> [root |-> Node("root", Kind("object"), None), scopes |-> {"global"}],
   deep |-> [root |-> MCDeepRoot, scopes |-> {"global"}]]
MCFormContexts ==
  {[scope |-> "plugin_instance", ids |-> [plugin_instance |-> "default"]],
   [scope |-> "plugin_instance", ids |-> [bot |-> "b"]],
   [scope |-> "global", ids |-> [bot |-> ""]]}
MCFormDefaults == Object([token |-> Secret("absent"), interval |-> [integer |-> 2]])

\* JSON: a form that is right, one that is right in all its fields and at their
\* bounds, and what a client makes of the first.
State(state) == [object |-> [state |-> String(state)]]
NewToken(text) == [object |-> [state |-> String("set"), value |-> String(text)]]
Right == [token |-> State("keep"), interval |-> [integer |-> 2]]
Edit(key, value) == (key :> value) @@ Right
Whole ==
  [retry |-> [bool |-> FALSE], interval |-> [integer |-> 1], name |-> String("robo"), mode |-> String("ws"),
   tags |-> [array |-> <<String("a"), String("b")>>],
   proxy |-> Object([on |-> [bool |-> TRUE], url |-> String("u")])] @@ Right
MCFormCandidates ==
  {Object(map) : map \in
     {Edit("token", token) : token \in {NewToken("s1"), NewToken("s2"), NewToken("secret"), State("set"),
                                        State("clear"), State("keep"), State("configured"), String("s1")}}
     \cup {Whole}
     \cup {Edit("interval", [integer |-> n]) : n \in {0, 3, 4}}
     \cup {Edit("interval", [float |-> 2]), Edit("surprise", [bool |-> TRUE]), [interval |-> [integer |-> 2]]}
     \cup {Edit("retry", [bool |-> FALSE]) @@ Edit("interval", [integer |-> 4])}
     \cup {Edit("name", String(text)) : text \in {"", "robot", "x"}}
     \cup {Edit("mode", String("sse"))}
     \cup {Edit("tags", [array |-> tags]) : tags \in {<<String("")>>, <<String("a"), String("b"), String("c")>>}}
     \cup {Edit("proxy", Object(proxy)) : proxy \in {[on |-> [bool |-> FALSE]], [on |-> [bool |-> TRUE]]}}}
  \cup {[null |-> TRUE]}

\* The author's words.
MCMeant(value) ==
  LET form == value.object
      Given(key) == key \in DOMAIN form
  IN /\ Given("token") /\ form["token"] \in {Secret("configured"), Secret("absent")}
     /\ DOMAIN form \subseteq {"token", "retry", "interval", "name", "mode", "tags", "proxy"}
     /\ Given("interval") => form["interval"] \in {[integer |-> n] : n \in 1..3}
     /\ Given("retry") => form["retry"] \in {[bool |-> TRUE], [bool |-> FALSE]}
     /\ Given("name") => form["name"] \in {String("bo"), String("bot"), String("robo")}
     /\ Given("mode") => form["mode"] \in {String("ws"), String("poll")}
     /\ Given("tags") => form["tags"] \in {[array |-> <<>>], [array |-> <<String("a")>>], [array |-> <<String("a"), String("b")>>]}
     /\ Given("proxy") => form["proxy"] \in {Object([on |-> [bool |-> TRUE], url |-> String("u")])}

\* What is sent: candidates, what a session may read after one of them or before,
\* and each of them with the other fields of a candidate.
MCRead ==
  Candidates \cup {Redacted(FormDefaults, {})}
  \cup {Redacted(MergedValue(value, kept), kept) :
          value \in {v \in Candidates : IsForm(v)} \cup {FormDefaults}, kept \in SUBSET SecretKeys}
MCSent == UNION {FormsToSend(value) : value \in MCRead}
ASSUME MCSentIsMeant == MeantIfAccepted(MCSent)

MCCapabilitySets ==
  {{}, {"*"}, {"schema.read", "value.read"}, {"value.write"}, {"value.read", "value.write", "apply"},
   {"value.read", "value.write", "apply", "secret.write"}}

\* Modules to upgrade, one of them a plugin kit without a build, and their directories.
MCRepositories ==
  {[id |-> "bot_plugins", kind |-> "rust", revision |-> "r1"],
   [id |-> "python_runner_kit", kind |-> "python", revision |-> "r1"],
   [id |-> "script_plugins", kind |-> "python", revision |-> "r1"]}

Directory(usable, built) == [git |-> usable, manifest |-> usable, head |-> "r1", built |-> built]
MCCheckouts == {Directory(TRUE, {"r1"}), Directory(FALSE, {})}

Asked(dry_run, skip_fetch, skip_build, skip_abi, skip_pin) ==
  [dry_run |-> dry_run, skip_fetch |-> skip_fetch, skip_build |-> skip_build,
   skip_abi |-> skip_abi, skip_pin |-> skip_pin]
\* A step that is skipped does to the checkout what one does that fails at once.
MCOptionSets ==
  {Asked(FALSE, FALSE, FALSE, FALSE, FALSE), Asked(TRUE, FALSE, FALSE, TRUE, TRUE)}
=============================================================================
