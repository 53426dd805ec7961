------------------------------ MODULE Decisions ------------------------------
(***************************************************************************)
(* What a node adds to the size and the complexity of the code around it:  *)
(* the non-commenting source statements it stands for (ncss.rs), one per   *)
(* declaration, statement and clause, however the grammar spells it; then  *)
(* paths, flat cognitive points and points that grow with the nesting      *)
(* (complexity.rs).                                                        *)
(***************************************************************************)
EXTENDS SyntaxTree

One(condition) == IF condition THEN 1 ELSE 0

Fills(n, field) == Parent(n) # NoNode /\ n \in FieldChildren(Parent(n), field)

(* The header of a loop is part of the loop. *)
IsForHeader(n) ==
  \/ Kind(Parent(n)) = "init_statement" /\ Kind(Parent(Parent(n))) = "for_range_loop"
  \/ /\ Kind(Parent(n)) \in {"for_statement", "for_clause", "for_range_loop"}
     /\ \E f \in {"init", "initializer", "condition", "update", "increment"} : Fills(n, f)

CountsThroughKind(n) ==
  /\ Kind(n) \in Rules.statements
  /\ Kind(n) \in {"struct_specifier", "enum_specifier", "union_specifier", "class_specifier"} =>
       HasField(n, "body")
  /\ Kind(n) = "resource" => HasField(n, "name")

TransparentWrappers == {"parenthesized_statements", "attributed_declaration"}

(* Metadata, empty statements and what other nodes of the same place count for. *)
PositionalExclusions ==
  TransparentWrappers \cup
  {"attribute_item", "inner_attribute_item", "empty_statement", "heredoc_body", "annotation",
   "file_annotation", "shebang", "enum_entry", "lambda_parameters"}

InContainerPosition(n) == Kind(AncestorBeyond(TransparentWrappers, n)) \in Rules.containers

(* A statement without braces stands for the one a braced body would hold. *)
IsBareBody(n) ==
  /\ Kind(Parent(n)) \in Rules.bareBodies
  /\ \E f \in {"consequence", "alternative", "body"} : Fills(n, f)

CountsByPosition(n) ==
  /\ InContainerPosition(n) \/ IsBareBody(n)
  /\ Kind(n) \notin Rules.containers \/ Kind(n) = "lambda_literal"
  /\ Kind(n) \notin PositionalExclusions
  /\ ~IsKotlinTry(n)

InGoDeclaredType(n, kind) ==
  Kind(n) = kind /\ Kind(Parent(n)) \in {"type_spec", "type_alias"}

(* Statements without a kind of their own. *)
CountsContextually(n) ==
  LET parent == Kind(Parent(n)) IN
  CASE Kind(n) = "block" /\ parent = "class_body" -> TRUE
    [] Kind(n) \in {"property_signature", "method_signature", "index_signature",
                    "construct_signature", "call_signature"} /\ parent = "interface_body" -> TRUE
    [] parent = "match_arm" /\ Kind(n) # "block" /\ Fills(n, "value") -> TRUE
    [] Kind(n) = "method_signature" /\ parent = "class_body" -> TRUE
    [] Kind(n) = "internal_module" /\ parent # "expression_statement" -> TRUE
    [] parent \in {"method", "singleton_method"} /\ Kind(n) # "body_statement" /\ Fills(n, "body") -> TRUE
    [] Kind(n) = "friend_declaration" ->
         \A c \in NamedChildren(n) : Kind(c) \notin {"declaration", "function_definition"}
    [] Kind(n) = "macro_invocation" ->
         LET holder == IF parent = "attributed_declaration" THEN Parent(Parent(n)) ELSE Parent(n)
         IN Kind(holder) \in {"source_file", "declaration_list"}
    [] Kind(n) = "field_declaration" /\ parent = "field_declaration_list" ->
         InGoDeclaredType(Parent(Parent(n)), "struct_type")
    [] Kind(n) \in {"method_elem", "method_spec", "type_elem"} ->
         InGoDeclaredType(Parent(n), "interface_type")
    [] OTHER -> FALSE

(* export wraps the declaration that counts. *)
IsDeclarationWrapper(n) ==
  /\ Kind(n) = "export_statement"
  /\ Kind(ChildByField(n, "declaration")) \in
       Rules.statements \cup {"internal_module", "ambient_declaration"}

BareAlternatives(n) ==
  {c \in FieldChildren(n, "alternative") :
     ~IsExtra(c) /\ Kind(c) \notin {"else_clause", "elif_clause", "else", "elsif"}}

NcssContribution(n) ==
  IF \/ ~Named(n) \/ Kind(n) \in CommentKinds \/ IsForHeader(n)
     \/ Kind(n) \in {"getter", "setter"} /\ ~IsImplementedFunction(n)
  THEN 0
  ELSE One(/\ CountsThroughKind(n) \/ CountsByPosition(n) \/ CountsContextually(n)
           /\ ~IsDeclarationWrapper(n))
       + One(IsElseIfClause(n))
       + IF Kind(n) \in {"if_statement", "if_expression"} THEN Cardinality(BareAlternatives(n)) ELSE 0

-----------------------------------------------------------------------------

SwitchLike ==
  {"switch_statement", "switch_expression", "expression_switch_statement", "type_switch_statement",
   "select_statement", "match_expression", "match_statement", "when_expression", "case", "case_match"}
CaseClauses ==
  {"case_clause", "switch_case", "switch_block_statement_group", "switch_rule", "case_statement",
   "expression_case", "type_case", "communication_case", "match_arm", "switch_section",
   "switch_expression_arm", "when_entry", "when", "in_clause"}
IfLike == {"if_statement", "if_expression", "if", "unless"}
BooleanOperators == {"&&", "||", "and", "or"}
BooleanParents == {"binary_expression", "binary", "boolean_operator", "and_pattern", "or_pattern"}
Parentheses == {"parenthesized_expression", "parenthesized_statements", "parenthesized_pattern"}

IsSwitchLike(n) == Named(n) /\ Kind(n) \in SwitchLike
IsCaseClause(n) == Named(n) /\ Kind(n) \in CaseClauses

IsPatternGuard(n) ==
  /\ Named(n)
  /\ \/ Kind(n) \in {"guard", "when_clause", "if_guard", "unless_guard"}
     \/ Kind(n) = "if_clause" /\ Kind(Parent(n)) = "case_clause"
     \/ Kind(Parent(n)) = "when_entry" /\ ChildByField(Parent(n), "guard") = n
     \/ Kind(n) = "match_pattern" /\ \E c \in Children(n) : ~Named(c) /\ Kind(c) = "if"

-----------------------------------------------------------------------------
(* Patterns that match every value, themselves or by a pattern they only wrap. *)
IsCSharpCatchAll(n) ==
  \E d \in Subtree(n) :
    /\ \A k \in Path(n, d) : /\ Kind(Parent(k)) = "parenthesized_pattern"
                             /\ k = FirstOf(NonCommentChildren(Parent(k)))
    /\ \/ Kind(d) = "discard"
       \/ /\ Kind(d) = "declaration_pattern" /\ Kind(ChildByField(d, "type")) = "implicit_type"
          /\ \A c \in NamedChildren(d) : Kind(c) # "parenthesized_variable_designation"

(* A group, p as y, and p | q by any alternative. *)
IsWrappedPattern(p) ==
  LET outer == Parent(p) IN
  CASE Kind(outer) = "case_pattern" -> NonCommentChildren(outer) = {p}
    [] Kind(outer) = "tuple_pattern" -> "," \notin ChildKinds(outer) /\ NonCommentChildren(outer) = {p}
    [] Kind(outer) = "as_pattern" -> p = FirstOf(NonCommentChildren(outer))
    [] OTHER -> Kind(outer) = "union_pattern"

IsPythonIrrefutable(n) ==
  \E d \in Subtree(n) :
    /\ \A k \in Path(n, d) : IsWrappedPattern(k)
    /\ CASE Kind(d) = "case_pattern" -> NonCommentChildren(d) = {} /\ "_" \in ChildKinds(d)
         [] Kind(d) = "dotted_name" -> \E name \in NonCommentChildren(d) :
                                         NonCommentChildren(d) = {name} /\ Kind(name) = "identifier"
         [] OTHER -> Kind(d) = "_"

IsDefaultBranch(n) ==
  CASE Kind(n) = "switch_default" -> TRUE
    [] Kind(n) = "case_statement" -> ~HasField(n, "value")
    [] Kind(n) \in {"switch_block_statement_group", "switch_rule"} ->
         \E label \in NonCommentChildren(n) :
           /\ Kind(label) = "switch_label"
           /\ NonCommentChildren(label) = {} \/ "default" \in ChildKinds(label)
    [] Kind(n) = "switch_section" ->
         Kind(FirstOf(Children(n))) = "default" \/ \E c \in NamedChildren(n) : IsCSharpCatchAll(c)
    [] Kind(n) = "switch_expression_arm" ->
         NamedChildren(n) # {} /\ IsCSharpCatchAll(Min(NamedChildren(n)))
    [] Kind(n) = "when_entry" -> ~HasField(n, "condition")
    [] Kind(n) = "case_clause" ->
         LET patterns == {c \in NamedChildren(n) : Kind(c) = "case_pattern"}
         IN "," \notin ChildKinds(n) /\ Cardinality(patterns) = 1 /\ IsPythonIrrefutable(Min(patterns))
    [] Kind(n) = "match_arm" ->
         LET pattern == FirstOf({c \in NamedChildren(n) : Kind(c) = "match_pattern"})
             parts == Ascending({c \in Children(pattern) : Kind(c) \notin CommentKinds})
         IN /\ pattern # NoNode /\ parts # <<>> /\ Kind(parts[1]) = "_"
            /\ Len(parts) > 1 => Kind(parts[2]) = "if"
    [] Kind(n) = "in_clause" -> Kind(FirstOf(NamedChildren(n))) = "identifier"
    [] OTHER -> FALSE

(* The named kinds of the C# grammar that end in "pattern". *)
PatternKinds ==
  {"constant_pattern", "declaration_pattern", "var_pattern", "type_pattern", "relational_pattern",
   "recursive_pattern", "list_pattern", "parenthesized_pattern", "negated_pattern", "and_pattern",
   "or_pattern"}

(* A case whose labels share the statements of the case below it. *)
IsLabelOnlyCase(n) ==
  LET parts == NonCommentChildren(n) IN
  CASE Kind(n) = "case_statement" -> parts \subseteq {ChildByField(n, "value")}
    [] Kind(n) \in {"switch_case", "switch_default"} -> ~HasField(n, "body")
    [] Kind(n) = "switch_block_statement_group" -> \A c \in parts : Kind(c) = "switch_label"
    [] Kind(n) = "switch_section" ->
         \A c \in parts : Kind(c) \in PatternKinds \cup {"discard", "when_clause"}
    [] OTHER -> FALSE

(* A guard directly on the arm, or inside its label or pattern. *)
HasPatternGuard(n) ==
  \E c \in NamedChildren(n) : IsPatternGuard(c) \/ \E g \in NamedChildren(c) : IsPatternGuard(g)

(* A case with the label-only cases directly above it. *)
StackedLabels(n) ==
  {n} \cup {s \in NonCommentChildren(Parent(n)) :
              s < n /\ \A m \in NonCommentChildren(Parent(n)) : s <= m /\ m < n => IsLabelOnlyCase(m)}

IsPathlessBranch(n) ==
  \/ IsLabelOnlyCase(n)
  \/ \E label \in StackedLabels(n) : IsDefaultBranch(label) /\ ~HasPatternGuard(label)
  \/ \A label \in StackedLabels(n) : IsDefaultBranch(label)

IsDecision(n) ==
  Named(n) /\ (Kind(n) \in Rules.decisions \/ IsElseIfClause(n)) /\ ~IsPathlessBranch(n)

-----------------------------------------------------------------------------
IsBooleanOperator(n) ==
  ~Named(n) /\ Kind(n) \in BooleanOperators /\ Kind(Parent(n)) \in BooleanParents

(* and spells &&. *)
Operator(kind) == CASE kind = "and" -> "&&" [] kind = "or" -> "||" [] OTHER -> kind
OperatorOf(n) == IF HasField(n, "operator") THEN Kind(ChildByField(n, "operator"))
                 ELSE Kind(FirstOf({c \in Children(n) : ~Named(c) /\ Kind(c) \in BooleanOperators}))

(* Only the outermost operator of a run of the same one adds a point, through parentheses. *)
StartsOperatorSequence(n) ==
  LET binary == Parent(n)
      enclosing == AncestorBeyond(Parentheses, binary)
  IN Kind(enclosing) # Kind(binary) \/ Operator(OperatorOf(enclosing)) # Operator(Kind(n))

(* else if continues a chain at its own level. *)
IsChainContinuation(n) ==
  \/ Kind(n) \in {"elsif", "elif_clause"} \/ IsElseIfClause(n)
  \/ /\ Kind(n) \in {"if_statement", "if_expression", "if"} /\ Parent(n) # NoNode
     /\ \/ Kind(Parent(n)) = "else_clause" /\ ~IsElseIfClause(Parent(n))
        \/ ChildByField(Parent(n), "alternative") = n

IsCaseElse(n) == Kind(n) = "else" /\ Kind(Parent(n)) \in {"case", "case_match"}

PlainElseBranches(n) ==
  CASE ~Named(n) -> 0
    [] Kind(n) = "else" -> One(~IsCaseElse(n))
    [] Kind(n) = "else_clause" ->
         One(~IsElseIfClause(n) /\ \A c \in NamedChildren(n) : Kind(c) \notin IfLike)
    [] Kind(n) \in {"if_statement", "if_expression"} ->
         Cardinality({c \in FieldChildren(n, "alternative") :
                        ~IsExtra(c) /\ Kind(c) \notin {"else_clause", "elif_clause"} \cup IfLike})
    [] OTHER -> 0

IsFlowBreakingJump(n) ==
  /\ Named(n)
  /\ \/ Kind(n) = "goto_statement"
     \/ /\ Kind(n) \in {"break_expression", "continue_expression"}
        /\ HasField(n, "label") \/ \E c \in NamedChildren(n) : Kind(c) \in {"label", "loop_label"}
     \/ Kind(n) \in {"break_statement", "continue_statement"} /\ NonCommentChildren(n) # {}

IsNesting(n) ==
  /\ Named(n) /\ (Kind(n) \in Rules.nesting \/ IsCaseElse(n))
  /\ ~(IsDecision(n) /\ IsChainContinuation(n))

(* A node adds a path, flat points, and points worth one more per level of nesting. *)
IsPath(n) == IsDecision(n) \/ IsBooleanOperator(n) \/ IsPatternGuard(n)
FlatPoints(n) ==
  One(IsDecision(n) /\ ~IsCaseClause(n) /\ IsChainContinuation(n)) + PlainElseBranches(n)
  + One(IsFlowBreakingJump(n)) + One(IsPatternGuard(n))
  + One(IsBooleanOperator(n) /\ StartsOperatorSequence(n))
NestedPoints(n) ==
  One(IsDecision(n) /\ ~IsCaseClause(n) /\ ~IsChainContinuation(n)) + One(IsSwitchLike(n))
=============================================================================
