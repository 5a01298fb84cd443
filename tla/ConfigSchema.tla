---------------------------- MODULE ConfigSchema ----------------------------
(***************************************************************************)
(* Schemas and the validation of a value against one (mutsuki-bot-config:  *)
(* schema.rs, expr.rs, validate.rs).                                       *)
(*                                                                         *)
(* A schema is a tree of nodes.  Titles, groups and the other presentation *)
(* of a node are left out, and of an issue its message.                    *)
(***************************************************************************)
EXTENDS ConfigValues

-----------------------------------------------------------------------------
(* Expressions.  The result of one is a set: of its value, or empty where  *)
(* it names a field that is not there.                                     *)

Truthy(value) ==
  CASE TypeOf(value) = "null" -> FALSE
    [] TypeOf(value) = "bool" -> value.bool
    [] TypeOf(value) = "integer" -> value.integer # 0
    [] TypeOf(value) = "float" -> value.float # 0
    [] TypeOf(value) = "string" -> value.string # ""
    [] TypeOf(value) = "secret" -> TRUE
    [] TypeOf(value) = "array" -> value.array # <<>>
    [] TypeOf(value) = "object" -> DOMAIN value.object # {}

Lookup(root, key) ==
  IF TypeOf(root) = "object" /\ key \in DOMAIN root.object THEN {root.object[key]} ELSE {}

RECURSIVE Eval(_, _)
EvalValue(expr, root) ==
  CASE expr.op = "field" -> Lookup(root, expr.key)
    [] expr.op = "literal" -> {expr.value}
    [] OTHER -> {[bool |-> b] : b \in Eval(expr, root)}
\* The items in their order, until one is not what the ones before it were.
EvalItems(items, root, while) ==
  FoldLeft(LAMBDA result, item : IF result = {while} THEN Eval(item, root) ELSE result, {while}, items)
Eval(expr, root) ==
  CASE expr.op \in {"field", "literal"} -> {Truthy(value) : value \in EvalValue(expr, root)}
    [] expr.op = "eq" -> {l = r : l \in EvalValue(expr.left, root), r \in EvalValue(expr.right, root)}
    [] expr.op = "ne" -> {l # r : l \in EvalValue(expr.left, root), r \in EvalValue(expr.right, root)}
    [] expr.op = "and" -> EvalItems(expr.items, root, TRUE)
    [] expr.op = "or" -> EvalItems(expr.items, root, FALSE)
    [] expr.op = "not" -> {~b : b \in Eval(expr.expr, root)}
    [] expr.op = "is_set" -> {TypeOf(value) # "null" : value \in Lookup(root, expr.key)}

Subexpressions(expr) ==
  CASE expr.op \in {"eq", "ne"} -> <<expr.left, expr.right>>
    [] expr.op \in {"and", "or"} -> expr.items
    [] expr.op = "not" -> <<expr.expr>>
    [] OTHER -> <<>>

\* The size and the depth of an expression or a schema, which the budgets limit.
Below(tree) == IF "op" \in DOMAIN tree THEN Subexpressions(tree) ELSE tree.children
RECURSIVE Size(_), Depth(_)
Size(tree) == 1 + FoldLeft(LAMBDA n, t : n + Size(t), 0, Below(tree))
Depth(tree) == FoldLeft(LAMBDA d, t : Max({d, 1 + Depth(t)}), 0, Below(tree))
ExprWithinBudgets(expr) == Depth(expr) <= Budgets.max_expr_depth /\ Size(expr) <= Budgets.max_expr_nodes

-----------------------------------------------------------------------------
(* Schemas.                                                                *)

\* A node of a schema; its constraints are a record with those that it has.  Only
\* the console reads enabled, the condition on which a field can be edited.
Node(key, type, constraints) ==
  [key |-> key, type |-> type, constraints |-> constraints, required |-> FALSE, secret |-> FALSE,
   visibility |-> {}, enabled |-> {}, children |-> <<>>]
Keys(node) == {node.children[i].key : i \in DOMAIN node.children}

RECURSIVE ExprsOf(_)
ExprsOf(node) == node.visibility \cup node.enabled \cup UNION {ExprsOf(child) : child \in ToSet(node.children)}
SchemaWithinBudgets(root) ==
  /\ Depth(root) <= Budgets.max_schema_depth /\ Size(root) <= Budgets.max_schema_nodes
  /\ \A expr \in ExprsOf(root) : ExprWithinBudgets(expr)

-----------------------------------------------------------------------------
(* Validation: the issues of a value, each with its path and code.         *)

Issue(path, code) == {[path |-> path, code |-> code]}
When(condition, issue) == IF condition THEN issue ELSE {}
Has(node, constraint) == constraint \in DOMAIN node.constraints

CheckRange(node, value, path) ==
  When(\/ Has(node, "min") /\ value < node.constraints.min
       \/ Has(node, "max") /\ value > node.constraints.max, Issue(path, "out_of_range"))
CheckLength(node, len, path, min, max) ==
  When(\/ Has(node, min) /\ len < node.constraints[min]
       \/ Has(node, max) /\ len > node.constraints[max], Issue(path, "length_invalid"))

\* regex_is_match: a pattern between ^ and $ is the whole value, any other a part.
IsPart(text, part) ==
  \E i \in 1..Len(text) - Len(part) + 1 : SubSeq(text, i, i + Len(part) - 1) = part
PatternMatches(pattern, text) ==
  IF pattern.whole THEN text = pattern.text ELSE IsPart(text, pattern.text)

Exceeds(length, budget, path) == When(length > Budgets[budget], Issue(path, "budget_exceeded"))

\* validate_typed; the elements of an array have the constraints of its node.
RECURSIVE TypedIssues(_, _, _, _)
TypedIssues(node, type, value, path) ==
  LET is == TypeOf(value)
  IN CASE type.kind = is /\ is \in {"null", "bool"} -> {}
       [] type.kind \in {"integer", "float"} /\ is = "integer" -> CheckRange(node, value.integer, path)
       [] type.kind = "float" /\ is = "float" -> CheckRange(node, value.float, path)
       [] type.kind = "string" /\ is = "string" ->
            LET text == value.string
            IN Exceeds(Len(text), "max_string_bytes", path)
               \cup CheckLength(node, Len(text), path, "min_length", "max_length")
               \cup When(Has(node, "pattern") /\ ~PatternMatches(node.constraints.pattern, text),
                         Issue(path, "pattern_mismatch"))
       [] type.kind = "secret" /\ is = "secret" ->
            IF value.secret.state # "set" THEN {}
            ELSE Exceeds(Len(value.secret.value), "max_string_bytes", path)
       [] type.kind = "enum" /\ ~type.multi /\ is = "string" ->
            When(value.string \notin type.options, Issue(path, "constraint_failed"))
       [] type.kind = "enum" /\ type.multi /\ is = "array" ->
            Exceeds(Len(value.array), "max_array_len", path)
            \cup When(\E item \in ToSet(value.array) :
                        item \notin {String(option) : option \in type.options},
                      Issue(path, "constraint_failed"))
       [] type.kind = "array" /\ is = "array" ->
            Exceeds(Len(value.array), "max_array_len", path)
            \cup CheckLength(node, Len(value.array), path, "min_items", "max_items")
            \cup UNION {TypedIssues(node, type.item, value.array[i], Append(path, ToString(i))) : i \in DOMAIN value.array}
       [] type.kind = "map" /\ is = "object" ->
            Exceeds(Cardinality(DOMAIN value.object), "max_map_entries", path)
       [] type.kind \in {"file_ref", "directory_ref"} /\ is = "string" -> {}
       [] OTHER -> Issue(path, "type_mismatch")

\* validate_node.  A node is left out that its condition, evaluated on its own
\* value, says is not visible; a leaf is always validated.
RECURSIVE NodeIssues(_, _, _)
ChildIssues(child, map, path) ==
  IF child.key \notin DOMAIN map THEN When(child.required, Issue(path, "required"))
  ELSE LET value == map[child.key]
       IN IF child.type.kind = "object" \/ child.children # <<>>
          THEN NodeIssues(child, value, path) ELSE TypedIssues(child, child.type, value, path)
NodeIssues(node, value, path) ==
  IF \E expr \in node.visibility : Eval(expr, value) = {FALSE} THEN {}
  ELSE IF node.type.kind # "object" THEN TypedIssues(node, node.type, value, path)
  ELSE IF TypeOf(value) # "object" THEN Issue(path, "type_mismatch")
  ELSE UNION {Issue(Append(path, key), "unknown_field") : key \in DOMAIN value.object \ Keys(node)}
       \cup UNION {ChildIssues(child, value.object, Append(path, child.key)) : child \in ToSet(node.children)}

\* validate_structure.  Issues beyond the budget are cut, which never makes a
\* candidate valid.
Valid(root, candidate) == NodeIssues(root, candidate, <<>>) = {}
=============================================================================
