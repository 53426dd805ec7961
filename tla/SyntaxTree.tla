----------------------------- MODULE SyntaxTree -----------------------------
(***************************************************************************)
(* The syntax tree the native addon's passes read, and the lookups they    *)
(* share (util.rs, tree_index.rs).  A parsed file is a sequence of nodes   *)
(* in document order, each with its kind, its parent, the field it fills   *)
(* and whether it is named.  An unnamed node is a keyword, an operator or  *)
(* punctuation, whose kind is its text.  The registry of languages         *)
(* (languages.rs) says which kinds of each grammar are functions,          *)
(* decisions, levels of nesting and statements.                            *)
(***************************************************************************)
EXTENDS FiniteSetsExt, SequencesExt, Arrangements

(* The registry: the node kinds of each grammar. *)
CommonFunctions ==
  {"function", "function_declaration", "function_definition", "function_expression",
   "function_item", "function_signature_item", "function_declarator", "func_literal",
   "method_declaration", "method_definition", "method_spec", "arrow_function", "generator_function",
   "generator_function_declaration", "lambda", "lambda_expression", "closure_expression"}
JavaFunctions == CommonFunctions \cup {"constructor_declaration", "compact_constructor_declaration"}
RubyFunctions == {"method", "singleton_method", "lambda", "block", "do_block"}
CFunctions == {"function_definition", "lambda_expression"}
CSharpFunctions ==
  {"method_declaration", "conditional_method_declaration", "constructor_declaration",
   "destructor_declaration", "operator_declaration", "conversion_operator_declaration",
   "accessor_declaration", "property_declaration", "indexer_declaration",
   "local_function_statement", "lambda_expression", "anonymous_method_expression"}
KotlinFunctions ==
  {"function_declaration", "secondary_constructor", "getter", "setter", "anonymous_function",
   "lambda_literal"}

CommonDecisions ==
  {"if_statement", "elif_clause", "else_if_clause", "for_statement", "for_in_statement",
   "while_statement", "do_statement", "catch_clause", "except_clause", "case_clause", "switch_case",
   "match_arm", "conditional_expression", "ternary_expression", "if_expression", "while_expression",
   "for_expression", "loop_expression"}
GoDecisions == CommonDecisions \cup {"expression_case", "type_case", "communication_case"}
JavaDecisions ==
  CommonDecisions \cup {"enhanced_for_statement", "switch_block_statement_group", "switch_rule"}
RubyDecisions ==
  {"if", "elsif", "unless", "while", "until", "for", "when", "in_clause", "rescue", "conditional",
   "if_modifier", "unless_modifier", "while_modifier", "until_modifier", "rescue_modifier"}
CDecisions == CommonDecisions \cup {"case_statement"}
CppDecisions == CDecisions \cup {"for_range_loop"}
CSharpDecisions ==
  {"if_statement", "for_statement", "foreach_statement", "while_statement", "do_statement",
   "catch_clause", "switch_section", "switch_expression_arm", "conditional_expression"}
KotlinDecisions ==
  {"if_expression", "for_statement", "while_statement", "do_while_statement", "catch_block",
   "when_entry"}
(* A default branch adds no path, but its contents are nested like those of any other. *)
CommonNesting == CommonDecisions \cup {"switch_default"}
GoNesting == GoDecisions \cup {"default_case"}

JsStatements ==
  {"import_statement", "export_statement", "lexical_declaration", "variable_declaration",
   "using_declaration", "function_declaration", "function_signature",
   "generator_function_declaration", "class_declaration", "abstract_class_declaration", "module",
   "method_definition", "abstract_method_signature", "class_static_block", "field_definition",
   "public_field_definition", "type_alias_declaration", "interface_declaration", "enum_declaration",
   "expression_statement", "if_statement", "else_clause", "switch_statement", "switch_case",
   "switch_default", "for_statement", "for_in_statement", "while_statement", "do_statement",
   "catch_clause", "finally_clause", "labeled_statement", "return_statement", "break_statement",
   "continue_statement", "throw_statement", "debugger_statement", "with_statement"}
PythonStatements ==
  {"import_statement", "import_from_statement", "future_import_statement", "print_statement",
   "exec_statement", "assert_statement", "expression_statement", "return_statement",
   "delete_statement", "raise_statement", "pass_statement", "break_statement", "continue_statement",
   "global_statement", "nonlocal_statement", "if_statement", "elif_clause", "else_clause",
   "for_statement", "while_statement", "except_clause", "finally_clause", "with_statement",
   "match_statement", "case_clause", "function_definition", "class_definition",
   "type_alias_statement"}
GoStatements ==
  {"package_clause", "import_spec", "type_spec", "type_alias", "const_spec", "var_spec",
   "function_declaration", "method_declaration", "short_var_declaration", "expression_statement",
   "send_statement", "inc_statement", "dec_statement", "assignment_statement", "if_statement",
   "for_statement", "expression_switch_statement", "type_switch_statement", "select_statement",
   "expression_case", "type_case", "communication_case", "default_case", "return_statement",
   "break_statement", "continue_statement", "goto_statement", "fallthrough_statement",
   "defer_statement", "go_statement", "labeled_statement"}
RustStatements ==
  {"use_declaration", "extern_crate_declaration", "foreign_mod_item", "mod_item", "const_item",
   "static_item", "struct_item", "enum_item", "union_item", "trait_item", "impl_item",
   "function_item", "function_signature_item", "type_item", "associated_type", "macro_definition",
   "decl_macro", "trait_alias", "field_declaration", "let_declaration", "expression_statement",
   "else_clause", "match_arm"}
JavaStatements ==
  {"package_declaration", "import_declaration", "module_declaration", "requires_module_directive",
   "exports_module_directive", "opens_module_directive", "uses_module_directive",
   "provides_module_directive", "class_declaration", "interface_declaration", "enum_declaration",
   "annotation_type_declaration", "annotation_type_element_declaration", "record_declaration",
   "field_declaration", "constant_declaration", "method_declaration", "constructor_declaration",
   "compact_constructor_declaration", "static_initializer", "explicit_constructor_invocation",
   "local_variable_declaration", "expression_statement", "if_statement", "while_statement",
   "do_statement", "for_statement", "enhanced_for_statement", "switch_statement",
   "switch_expression", "switch_label", "break_statement", "continue_statement", "return_statement",
   "throw_statement", "assert_statement", "synchronized_statement", "labeled_statement",
   "yield_statement", "resource", "catch_clause", "finally_clause"}
RubyStatements ==
  {"elsif", "else", "when", "in_clause", "rescue", "ensure"}
CStatements ==
  {"preproc_include", "preproc_def", "preproc_function_def", "declaration", "type_definition",
   "field_declaration", "function_definition", "struct_specifier", "enum_specifier",
   "union_specifier", "expression_statement", "if_statement", "else_clause", "switch_statement",
   "case_statement", "for_statement", "while_statement", "do_statement", "return_statement",
   "break_statement", "continue_statement", "goto_statement", "labeled_statement"}
CppStatements == CStatements \cup
  {"class_specifier", "namespace_definition", "using_declaration", "alias_declaration",
   "namespace_alias_definition", "concept_definition", "static_assert_declaration",
   "for_range_loop", "catch_clause", "throw_statement", "co_return_statement", "co_yield_statement"}
CSharpStatements ==
  {"extern_alias_directive", "using_directive", "namespace_declaration",
   "file_scoped_namespace_declaration", "class_declaration", "struct_declaration",
   "interface_declaration", "enum_declaration", "record_declaration", "extension_declaration",
   "delegate_declaration", "field_declaration", "event_field_declaration", "event_declaration",
   "property_declaration", "indexer_declaration", "method_declaration",
   "conditional_method_declaration", "constructor_declaration", "destructor_declaration",
   "operator_declaration", "conversion_operator_declaration", "accessor_declaration",
   "arrow_expression_clause", "local_function_statement", "local_declaration_statement",
   "expression_statement", "if_statement", "while_statement", "do_statement", "for_statement",
   "foreach_statement", "switch_statement", "switch_expression", "switch_section",
   "switch_expression_arm", "break_statement", "continue_statement", "return_statement",
   "throw_statement", "yield_statement", "goto_statement", "labeled_statement", "lock_statement",
   "using_statement", "fixed_statement", "checked_statement", "unsafe_statement", "catch_clause",
   "finally_clause"}
KotlinStatements == {"when_entry", "catch_block", "finally_block", "getter", "setter"}
RubyContainers == {"program", "body_statement", "then", "else", "do", "block_body", "begin", "ensure"}
KotlinContainers ==
  {"source_file", "block", "class_body", "enum_class_body", "function_body", "lambda_literal"}
KotlinBareBodyParents ==
  {"if_expression", "for_statement", "while_statement", "do_while_statement", "when_entry"}
-----------------------------------------------------------------------------
(* containers hold statements of no kind of their own, which count by their position;  *)
(* bareBodies may hold one such statement without braces.                              *)
Language(grammar, topLevel, functions, decisions, nesting, statements, containers, bareBodies) ==
  [grammar |-> grammar, executesTopLevel |-> topLevel, functions |-> functions,
   decisions |-> decisions, nesting |-> nesting, statements |-> statements,
   containers |-> containers, bareBodies |-> bareBodies]

EcmaScript(grammar) ==
  Language(grammar, TRUE, CommonFunctions, CommonDecisions, CommonNesting, JsStatements, {}, {})

Languages ==
  [javascript |-> EcmaScript("JavaScript"), jsx |-> EcmaScript("JavaScript"),
   typescript |-> EcmaScript("TypeScript"), tsx |-> EcmaScript("Tsx"),
   python |-> Language("Python", TRUE, CommonFunctions, CommonDecisions, CommonNesting,
                       PythonStatements, {}, {}),
   go     |-> Language("Go", FALSE, CommonFunctions, GoDecisions, GoNesting, GoStatements, {}, {}),
   rust   |-> Language("Rust", FALSE, CommonFunctions, CommonDecisions, CommonNesting,
                       RustStatements, {"block"}, {}),
   java   |-> Language("Java", FALSE, JavaFunctions, JavaDecisions, JavaDecisions,
                       JavaStatements, {}, {}),
   ruby   |-> Language("Ruby", TRUE, RubyFunctions, RubyDecisions, RubyDecisions,
                       RubyStatements, RubyContainers, {}),
   c      |-> Language("C", FALSE, CFunctions, CDecisions, CDecisions, CStatements, {}, {}),
   cpp    |-> Language("Cpp", FALSE, CFunctions, CppDecisions, CppDecisions, CppStatements, {}, {}),
   csharp |-> Language("CSharp", FALSE, CSharpFunctions, CSharpDecisions, CSharpDecisions,
                       CSharpStatements, {}, {}),
   kotlin |-> Language("Kotlin", FALSE, KotlinFunctions, KotlinDecisions, KotlinDecisions,
                       KotlinStatements, KotlinContainers, KotlinBareBodyParents)]

-----------------------------------------------------------------------------
(* The tree. *)
VARIABLES
  tree,     \* the nodes of the measured file; node 1 is its root
  language  \* the name of its language

CommentKinds == {"comment", "line_comment", "block_comment"}

(* Stands for the absent node, whose kind no rule mentions. *)
NoNode == 0

Node(kind, parent, field, named, text) ==
  [kind |-> kind, parent |-> parent, field |-> field, named |-> named, text |-> text]

NodeType == [kind : STRING, parent : Nat, field : STRING, named : BOOLEAN, text : STRING]

(* What a parser produces: one root, every other node below the node before it or below *)
(* one that contains it.                                                                *)
IsTree(t) ==
  /\ t \in Seq(NodeType) /\ t # <<>> /\ t[1].parent = NoNode
  /\ \A n \in 2..Len(t) :
       /\ t[n].parent \in 1..(n - 1)
       /\ \A m \in (t[n].parent + 1)..(n - 1) : t[m].parent >= t[n].parent

Nodes == DOMAIN tree
Root == 1
Kind(n) == IF n = NoNode THEN "" ELSE tree[n].kind
Named(n) == tree[n].named
Text(n) == tree[n].text
Parent(n) == IF n = NoNode THEN NoNode ELSE tree[n].parent

Children(n) == {c \in Nodes : Parent(c) = n}
NamedChildren(n) == {c \in Children(n) : Named(c)}
NonCommentChildren(n) == {c \in NamedChildren(n) : Kind(c) \notin CommentKinds}
ChildKinds(n) == {Kind(c) : c \in Children(n)}

(* A node with everything below it. *)
Subtree(n) == n..(Min({k \in (n + 1)..Len(tree) : Parent(k) < n} \cup {Len(tree) + 1}) - 1)
Ancestors(m) == {a \in 1..(m - 1) : \A k \in (a + 1)..m : Parent(k) >= a}
(* The innermost ancestor of none of the kinds; NoNode when there is none. *)
AncestorBeyond(kinds, m) == Max({NoNode} \cup {a \in Ancestors(m) : Kind(a) \notin kinds})
(* The nodes on the way from n, left out, down to m. *)
Path(n, m) == (Ancestors(m) \cup {m}) \cap (Subtree(n) \ {n})

IsExtra(n) == Kind(n) \in CommentKinds

(* The first child filling a field; NoNode when none does. *)
ChildByField(n, field) ==
  LET filling == {c \in Children(n) : tree[c].field = field /\ ~IsExtra(c)}
  IN IF filling = {} THEN NoNode ELSE Min(filling)
HasField(n, field) == ChildByField(n, field) # NoNode

(* A comment fills the field of the structural sibling before it. *)
FillsField(c) ==
  LET before == {s \in Children(Parent(c)) : s <= c /\ ~IsExtra(s)}
  IN IF before = {} THEN "" ELSE tree[Max(before)].field
FieldChildren(n, field) == {c \in Children(n) : FillsField(c) = field}

FirstOf(nodes) == IF nodes = {} THEN NoNode ELSE Min(nodes)
IsToken(n) == Children(n) = {} \/ Kind(n) \in {"identifier", "implicit_parameter"}
IsKotlinKeywordLiteral(n) ==
  language = "kotlin" /\ Kind(n) = "identifier" /\ Text(n) \in {"true", "false", "null"}
IsElseIfClause(n) == Kind(n) = "else_clause" /\ HasField(n, "condition")
IsKotlinTry(n) ==
  Kind(n) = "try_expression"
    /\ \E first \in Children(n) : first = n + 1 /\ ~Named(first) /\ Kind(first) = "try"

-----------------------------------------------------------------------------
(* Which nodes are functions with a body of their own (functions.rs,       *)
(* complexity.rs).                                                         *)
Rules == Languages[language]

BodyRequired ==
  {"function_definition", "function_declaration", "method_declaration",
   "conditional_method_declaration", "constructor_declaration", "destructor_declaration",
   "operator_declaration", "conversion_operator_declaration", "local_function_statement",
   "compact_constructor_declaration", "function_signature_item", "accessor_declaration",
   "getter", "setter", "property_declaration", "indexer_declaration"}

(* A declaration without a body is a signature. *)
IsImplementedFunction(n) ==
  \/ Kind(n) \notin BodyRequired
  \/ HasField(n, "body")
  \/ /\ Kind(n) \in {"property_declaration", "indexer_declaration"}
     /\ Kind(ChildByField(n, "value")) = "arrow_expression_clause"
  \/ /\ Kind(n) \in {"getter", "setter", "function_declaration"}
     /\ \E c \in NamedChildren(n) : Kind(c) = "function_body"
  \/ /\ Kind(n) \notin {"property_declaration", "indexer_declaration", "getter", "setter",
                        "function_declaration"}
     /\ \E c \in NamedChildren(n) : Kind(c) = "try_statement"

(* The block of a Ruby lambda belongs to the lambda. *)
IsLambdaBodyBlock(n) == Kind(n) \in {"block", "do_block"} /\ Kind(Parent(n)) = "lambda"

IsFunctionBoundary(n) ==
  Kind(n) \in Rules.functions /\ ~IsLambdaBodyBlock(n) /\ IsImplementedFunction(n)
=============================================================================
