--------------------------- MODULE MCBodyMetrics ---------------------------
(***************************************************************************)
(* Files whose functions, classes, loops and branches stand in each other  *)
(* every way, up to a depth, and a few of the constructs that only one     *)
(* language has.                                                           *)
(***************************************************************************)
EXTENDS BodyMetrics

CONSTANT MaxChain  \* how deep constructs stand in each other

(* A node with what is below it. *)
Term(kind, field, named, text, parts) ==
  [node |-> Node(kind, NoNode, field, named, text), parts |-> parts]
N(kind, parts) == Term(kind, "", TRUE, "", parts)
F(field, kind, parts) == Term(kind, field, TRUE, "", parts)
Word(kind) == Term(kind, "", FALSE, kind, <<>>)
Id(field) == Term("identifier", field, TRUE, "x", <<>>)

RECURSIVE Preorder(_, _, _)
Preorder(term, parent, at) ==
  FoldLeft(LAMBDA nodes, part : nodes \o Preorder(part, at, at + Len(nodes)),
           <<[term.node EXCEPT !.parent = parent]>>, term.parts)
(* A function's own name names it, and the one of the declarator it is the value of. *)
NamedIn(nodes) ==
  LET hasName(n) == \E c \in DOMAIN nodes : nodes[c].parent = n /\ nodes[c].field = "name"
      bound(n) == nodes[n].kind = "arrow_function" /\ hasName(nodes[n].parent)
  IN {n \in DOMAIN nodes : hasName(n) \/ bound(n)}
File(name, term) ==
  LET nodes == Preorder(term, NoNode, 1)
  IN [language |-> name, tree |-> nodes, named |-> NamedIn(nodes)]
Nameless(file) == [file EXCEPT !.named = {}]

-----------------------------------------------------------------------------
Statement == N("expression_statement", <<Id("")>>)
Block(field, statement) == F(field, "statement_block", <<statement>>)
Condition == F("condition", "parenthesized_expression", <<Id("")>>)
Binary(field, operator, left, right) ==
  F(field, "binary_expression",
    <<left, Term(operator, "operator", FALSE, operator, <<>>), right>>)
If(condition, s, otherwise) ==
  N("if_statement", <<condition, Block("consequence", s)>> \o otherwise)
Else(part) == F("alternative", "else_clause", <<Word("else"), part>>)
Declaration(s) == N("function_declaration", <<Id("name"), Block("body", s)>>)
Arrow(field, s) == F(field, "arrow_function", <<Block("body", s)>>)
Method(s) == N("method_definition", <<Id("name"), Block("body", s)>>)
Ternary == F("value", "ternary_expression", <<Id("condition"), Id("consequence"), Id("alternative")>>)

Wrap(how, s) ==
  CASE how = "if"       -> If(Condition, s, <<>>)
    [] how = "else"     -> If(Condition, Statement, <<Else(Block("", s))>>)
    [] how = "else if"  -> If(Condition, Statement, <<Else(If(Condition, s, <<Else(Block("", Statement))>>))>>)
    [] how = "while"    -> N("while_statement", <<Condition, Block("body", s)>>)
    [] how = "function" -> Declaration(s)
    [] how = "constant" -> N("lexical_declaration",
                             <<N("variable_declarator", <<Id("name"), Arrow("value", s)>>)>>)
    [] how = "callback" -> N("expression_statement",
                             <<N("call_expression", <<F("arguments", "arguments", <<Arrow("", s)>>)>>)>>)
    [] how = "class"    -> N("class_declaration", <<Id("name"), F("body", "class_body",
                             <<N("public_field_definition", <<Id("name"), Ternary>>), Method(s)>>)>>)
    [] how = "switch"   -> N("switch_statement", <<F("body", "switch_body",
                             <<N("switch_case", <<Id("value"), [s EXCEPT !.node.field = "body"]>>),
                               N("switch_default", <<F("body", "break_statement", <<>>)>>)>>)>>)

Decision ==
  If(F("condition", "parenthesized_expression",
       <<Binary("", "&&", N("parenthesized_expression", <<Binary("", "&&", Id("left"), Id("right"))>>),
                Binary("right", "||", Id("left"), Id("right")))>>), Statement, <<>>)
LabeledBreak == N("break_statement", <<Term("statement_identifier", "label", TRUE, "l", <<>>)>>)

FunctionsOver(depth) ==
  {<<"function">> \o c :
     c \in BoundedSeq({"else", "else if", "while", "function", "callback", "class", "switch"}, depth)}
  \cup {<<how, "if", "constant">> : how \in {"class", "while", "callback"}}

Chains ==
  {FoldRight(Wrap, chain, Decision) : chain \in FunctionsOver(MaxChain)}
  \cup {FoldRight(Wrap, chain, LabeledBreak) : chain \in FunctionsOver(MaxChain - 1)}

(* A function with two constructs side by side, whose blocks compete for the report. *)
Pairs ==
  {N("function_declaration", <<Id("name"), F("body", "statement_block",
       <<FoldRight(Wrap, a, Statement), FoldRight(Wrap, b, Statement)>>)>>) :
     a, b \in {<<"while", "if">>, <<"while", "callback", "if">>, <<"constant", "if", "while">>,
               <<"callback", "else if", "while">>, <<"class", "if">>, <<"if">>}}

-----------------------------------------------------------------------------
Call == N("call_expression", <<Id("")>>)

KotlinAccessor ==
  LET getter == N("getter", <<N("function_body", <<N("block", <<N("if_expression",
                  <<Id("condition"), N("block", <<Call>>)>>)>>)>>)>>)
      property(parts) == N("property_declaration", <<N("variable_declaration", <<Id("")>>)>> \o parts)
      class == N("class_declaration", <<Id("name"), N("class_body", <<property(<<getter>>), property(<<N("getter", <<>>)>>)>>)>>)
  IN N("function_declaration", <<Id("name"), N("function_body", <<N("block", <<class, N("when_expression",
       <<N("when_entry", <<Id("condition"), Call>>), N("when_entry", <<Word("else"), Call>>)>>)>>)>>)>>)

RustMatch ==
  LET arm(parts, value) == N("match_arm", <<N("match_pattern", parts), value>>)
  IN N("function_item", <<Id("name"), F("body", "block", <<F("", "match_expression", <<Id("value"),
       F("body", "match_block",
         <<arm(<<Id("")>>, F("value", "block", <<N("if_expression",
                 <<Id("condition"), F("consequence", "block", <<>>),
                   F("alternative", "else_clause", <<Word("else"), N("if_expression", <<Id("condition"),
                     F("consequence", "block", <<>>)>>)>>)>>)>>)),
           arm(<<Word("_"), Word("if"), Id("condition")>>, Id("value")),
           arm(<<Word("_")>>, Id("value"))>>)>>)>>)>>)

RubyCase ==
  N("method", <<Id("name"), F("body", "body_statement",
    <<N("case", <<Word("case"), Id("value"),
       N("when", <<F("pattern", "pattern", <<Id("")>>), F("body", "then", <<N("lambda",
         <<F("body", "block", <<F("body", "block_body", <<N("if", <<Word("if"), Id("condition")>>)>>)>>)>>)>>)>>),
       N("else", <<Word("else"), N("unless", <<Word("unless"), Id("condition")>>)>>)>>)>>)>>)

PythonChain ==
  N("function_definition", <<Id("name"), F("body", "block",
    <<N("if_statement", <<Binary("condition", "and", Id("left"), Id("right")),
        F("consequence", "block", <<N("pass_statement", <<>>)>>),
        F("alternative", "elif_clause", <<Id("condition"), F("consequence", "block", <<N("pass_statement", <<>>)>>)>>),
        F("alternative", "else_clause", <<F("body", "block",
          <<N("for_statement", <<Id("left"), Id("right"), F("body", "block", <<N("pass_statement", <<>>)>>)>>)>>)>>)>>),
      N("match_statement", <<Id("subject"), F("body", "block",
        <<N("case_clause", <<N("case_pattern", <<Id("")>>), N("if_clause", <<Id("")>>)>>),
          N("case_clause", <<N("case_pattern", <<Word("_")>>)>>)>>)>>)>>)>>)

Others ==
  {File("kotlin", N("source_file", <<KotlinAccessor>>)), File("rust", N("source_file", <<RustMatch>>)),
   File("ruby", N("program", <<RubyCase>>)), File("python", N("module", <<PythonChain>>))}

MCFiles ==
  {File("typescript", N("program", <<statement>>)) : statement \in Chains \cup Pairs} \cup Others
  \cup {Nameless(File("typescript", N("program", <<statement>>))) : statement \in Pairs}
=============================================================================
