------------------------------- MODULE Grammar -------------------------------
(***************************************************************************)
(* The rules of yacc.y, one operator for each nonterminal.  The action of  *)
(* a rule is the tree it makes, with V(k) for the value $k.  A token is    *)
(* named by its spelling, and the rules for operators (add_op and its      *)
(* like), whose actions return the spelling, are units as well.  A rule    *)
(* without an action has bison's, $$ = $1, which in ( ) without anything   *)
(* is the value some earlier token left in yylval.                         *)
(***************************************************************************)
EXTENDS Nodes

(* The value $k, the chain $k with a node put at its right end, and $k or  *)
(* a null node when it is NULL.                                            *)
V(k)            == [type |-> "$", arg |-> k]
Longer(k, last) == [type |-> "$chain", arg |-> k, last |-> last]
OrNull(k)       == [type |-> "$ornull", arg |-> k]

Rule(lhs, rhs, action) == <<[lhs |-> lhs, rhs |-> rhs, action |-> action]>>
Units(lhs, syms)       == [k \in DOMAIN syms |-> [lhs |-> lhs, rhs |-> <<syms[k]>>, action |-> V(1)]]

(* A level of binary operators, with the tighter level to the right.       *)
Binary(lhs, op, next) ==
  Units(lhs, <<next>>) \o Rule(lhs, <<lhs, op, next>>, malloc_binary_op_node("$2", V(1), V(3)))
Prefix(lhs, op, operand) == Rule(lhs, <<op, operand>>, malloc_unary_op_node("$1", NULL, V(2)))
Postfix(lhs, op) == Rule(lhs, <<"postfix_expr", op>>, malloc_unary_op_node("$2", V(1), NULL))
List(lhs, rhs, left, right, subtype) == Rule(lhs, rhs, malloc_list_node(left, right, subtype))
Word(lhs, word, rest, right) ==
  Rule(lhs, <<word>> \o rest, malloc_expr_node(malloc_stmt_node("$1", "RESERVED_WORD"), right))

(* A type specifier is a chain of its words, the last one on top.          *)
TypeWord == [char |-> "CHAR", signed |-> "SIGNED", unsigned |-> "UNSIGNED", short |-> "SHORT",
             int |-> "INT", long |-> "LONG", void |-> "VOID"]
Specifier(lhs, words) ==
  LET chain[k \in 0..Len(words)] ==
        IF k = 0 THEN NULL ELSE malloc_type_node(TypeWord[words[k]], chain[k - 1])
  IN Rule(lhs, words, chain[Len(words)])

-----------------------------------------------------------------------------
(* Expressions.                                                            *)

(* Mutant: + and - group to the right.                                     *)
AdditiveToTheRight ==
  Units("additive_expr", <<"multiplicative_expr">>)
  \o Rule("additive_expr", <<"multiplicative_expr", "add_op", "additive_expr">>,
          malloc_binary_op_node("$2", V(1), V(3)))

(* Mutant: as yacc's own expr : expr op expr, which needs %left.           *)
AdditiveBothWays ==
  Units("additive_expr", <<"multiplicative_expr">>)
  \o Rule("additive_expr", <<"additive_expr", "add_op", "additive_expr">>,
          malloc_binary_op_node("$2", V(1), V(3)))

additive_expr       == Binary("additive_expr", "add_op", "multiplicative_expr")
add_op              == Units("add_op", <<"+", "-">>)
address_expr        == Prefix("address_expr", "&", "cast_expr")
assignment_expr ==
  Units("assignment_expr", <<"conditional_expr">>)
  \o Rule("assignment_expr", <<"unary_expr", "assignment_op", "assignment_expr">>,
          malloc_binary_op_node("$2", V(1), V(3)))
assignment_op ==
  Units("assignment_op", <<"=", "+=", "-=", "*=", "/=", "%=", "<<=", ">>=", "&=", "^=", "|=">>)
bitwise_and_expr      == Binary("bitwise_and_expr", "&", "equality_expr")
bitwise_negation_expr == Prefix("bitwise_negation_expr", "~", "cast_expr")
bitwise_or_expr       == Binary("bitwise_or_expr", "|", "bitwise_xor_expr")
bitwise_xor_expr      == Binary("bitwise_xor_expr", "^", "bitwise_and_expr")
cast_expr ==
  Units("cast_expr", <<"unary_expr">>)
  \o Rule("cast_expr", <<"(", "type_name", ")", "cast_expr">>,
          malloc_binary_op_node("cast", V(2), V(4)))
comma_expr ==
  Units("comma_expr", <<"assignment_expr">>)
  \o List("comma_expr", <<"comma_expr", ",", "assignment_expr">>, V(1), V(3), "GENERIC")
conditional_expr ==
  Units("conditional_expr", <<"logical_or_expr">>)
  \o List("conditional_expr", <<"logical_or_expr", "?", "expr", ":", "conditional_expr">>,
          malloc_list_node(V(1), V(3), "IF_STMT"), malloc_list_node(V(5), NULL, "ELSE_STMT"),
          "COND_STMT")
constant ==
  Rule("constant", <<"NUMBER">>, malloc_number_node("$1"))
  \o Rule("constant", <<"CHARACTER">>, malloc_number_node("$1"))
  \o Rule("constant", <<"STRING">>, malloc_stmt_node("$1", "STRING_CONST"))
constant_expr == Units("constant_expr", <<"conditional_expr">>)
equality_expr == Binary("equality_expr", "equality_op", "relational_expr")
equality_op   == Units("equality_op", <<"==", "!=">>)
expr          == Units("expr", <<"comma_expr">>)
expression_list ==
  List("expression_list", <<"assignment_expr">>, V(1), NULL, "EXPR_ITEM")
  \o List("expression_list", <<"expression_list", ",", "assignment_expr">>,
          V(1), malloc_list_node(V(3), NULL, "EXPR_ITEM"), "EXPR_LIST")
function_call ==
  List("function_call", <<"postfix_expr", "(", "expression_list", ")">>, V(1), V(3), "FUNCTION_CALL")
  \o List("function_call", <<"postfix_expr", "(", ")">>, V(1), NULL, "FUNCTION_CALL")
indirection_expr      == Prefix("indirection_expr", "*", "cast_expr")
logical_and_expr      == Binary("logical_and_expr", "&&", "bitwise_or_expr")
logical_negation_expr == Prefix("logical_negation_expr", "!", "cast_expr")
logical_or_expr       == Binary("logical_or_expr", "||", "logical_and_expr")
multiplicative_expr   == Binary("multiplicative_expr", "mult_op", "cast_expr")
mult_op               == Units("mult_op", <<"*", "/", "%">>)
parenthesized_expr    == Rule("parenthesized_expr", <<"(", "expr", ")">>, V(2))
postdecrement_expr    == Postfix("postdecrement_expr", "--")
postfix_expr ==
  Units("postfix_expr", <<"primary_expr", "subscript_expr", "function_call",
                          "postincrement_expr", "postdecrement_expr">>)
postincrement_expr    == Postfix("postincrement_expr", "++")
predecrement_expr     == Prefix("predecrement_expr", "--", "unary_expr")
preincrement_expr     == Prefix("preincrement_expr", "++", "unary_expr")
primary_expr ==
  Rule("primary_expr", <<"IDENTIFIER">>, malloc_identifier_node("$1"))
  \o Units("primary_expr", <<"constant", "parenthesized_expr">>)
relational_expr == Binary("relational_expr", "relational_op", "shift_expr")
relational_op   == Units("relational_op", <<"<", "<=", ">", ">=">>)
shift_expr      == Binary("shift_expr", "shift_op", "additive_expr")
shift_op        == Units("shift_op", <<"<<", ">>">>)
subscript_expr ==
  List("subscript_expr", <<"postfix_expr", "[", "expr", "]">>, V(1), V(3), "SUBSCRIPT_EXPR")
unary_expr ==
  Units("unary_expr", <<"postfix_expr", "unary_minus_expr", "unary_plus_expr",
     "logical_negation_expr", "bitwise_negation_expr", "address_expr", "indirection_expr",
     "preincrement_expr", "predecrement_expr">>)
unary_minus_expr == Prefix("unary_minus_expr", "-", "cast_expr")
unary_plus_expr  == Prefix("unary_plus_expr", "+", "cast_expr")

Expressions ==
  additive_expr \o add_op \o address_expr \o assignment_expr \o assignment_op
  \o bitwise_and_expr \o bitwise_negation_expr \o bitwise_or_expr \o bitwise_xor_expr
  \o cast_expr \o comma_expr \o conditional_expr \o constant \o constant_expr
  \o equality_expr \o equality_op \o expr \o expression_list \o function_call
  \o indirection_expr \o logical_and_expr \o logical_negation_expr \o logical_or_expr
  \o multiplicative_expr \o mult_op \o parenthesized_expr \o postdecrement_expr
  \o postfix_expr \o postincrement_expr \o predecrement_expr \o preincrement_expr
  \o primary_expr \o relational_expr \o relational_op \o shift_expr \o shift_op
  \o subscript_expr \o unary_expr \o unary_minus_expr \o unary_plus_expr

-----------------------------------------------------------------------------
(* Statements.                                                             *)

break_statement == Word("break_statement", "break", <<";">>, NULL)
compound_statement ==
  List("compound_statement", <<"{", "declaration_or_statement_list", "}">>, V(2), NULL, "LIST_BLOCK")
  \o Rule("compound_statement", <<"{", "}">>, NULL)
conditional_statement == Units("conditional_statement", <<"if_statement", "if_else_statement">>)
continue_statement    == Word("continue_statement", "continue", <<";">>, NULL)
declaration_or_statement == Units("declaration_or_statement", <<"decl", "statement">>)
declaration_or_statement_list ==
  List("declaration_or_statement_list", <<"declaration_or_statement">>, V(1), NULL, "DECL_LIST")
  \o Rule("declaration_or_statement_list",
          <<"declaration_or_statement_list", "declaration_or_statement">>,
          Longer(1, malloc_list_node(V(2), NULL, "DECL_LIST")))
do_statement ==
  List("do_statement", <<"do", "statement", "while", "(", "expr", ")", ";">>,
       OrNull(2), V(5), "DOWHILE_STMT")
expression_statement == Rule("expression_statement", <<"expr", ";">>, malloc_expr_node(V(1), NULL))

(* Each clause may be left out and is a null node then.                    *)
for_clauses(first, test, step) ==
  LET rhs  == <<"(">> \o (IF first THEN <<"initial_clause">> ELSE <<>>) \o <<";">>
              \o (IF test THEN <<"expr">> ELSE <<>>) \o <<";">>
              \o (IF step THEN <<"expr">> ELSE <<>>) \o <<")">>
      clause(there, k) == IF there THEN V(k) ELSE malloc_null_node
      at_test == IF first THEN 4 ELSE 3
      at_step == IF test THEN at_test + 2 ELSE at_test + 1
  IN List("for_expr", rhs, clause(first, 2),
          malloc_list_node(clause(test, at_test),
                           malloc_list_node(clause(step, at_step), NULL, "FOR_PARAM"), "FOR_PARAM"),
          "FOR_PARAM")
for_expr ==
  for_clauses(FALSE, FALSE, FALSE) \o for_clauses(FALSE, FALSE, TRUE)
  \o for_clauses(FALSE, TRUE, FALSE) \o for_clauses(FALSE, TRUE, TRUE)
  \o for_clauses(TRUE, FALSE, FALSE) \o for_clauses(TRUE, FALSE, TRUE)
  \o for_clauses(TRUE, TRUE, FALSE) \o for_clauses(TRUE, TRUE, TRUE)
for_statement  == List("for_statement", <<"for", "for_expr", "statement">>, V(2), V(3), "FOR_STMT")
goto_statement == Word("goto_statement", "goto", <<"named_label", ";">>, V(2))
if_else_statement ==
  List("if_else_statement", <<"if", "(", "expr", ")", "statement", "else", "statement">>,
       malloc_list_node(V(3), V(5), "IF_STMT"), malloc_list_node(V(7), NULL, "ELSE_STMT"),
       "IF_ELSE_STMT")
if_statement   == List("if_statement", <<"if", "(", "expr", ")", "statement">>, V(3), V(5), "IF_STMT")
initial_clause == Units("initial_clause", <<"expr", "decl">>)
iterative_statement ==
  Units("iterative_statement", <<"while_statement", "do_statement", "for_statement">>)
label ==  Units("label", <<"named_label">>)
labeled_statement ==
  Rule("labeled_statement", <<"label", ":", "statement">>, malloc_binary_op_node("$2", V(1), V(3)))
named_label    == Rule("named_label", <<"IDENTIFIER">>, malloc_identifier_node("$1"))
null_statement == Rule("null_statement", <<";">>, malloc_null_node)
return_statement ==
  Word("return_statement", "return", <<"expr", ";">>, V(2))
  \o Word("return_statement", "return", <<";">>, NULL)
statement ==
  Units("statement", <<"expression_statement", "labeled_statement", "compound_statement",
     "conditional_statement", "iterative_statement", "break_statement", "continue_statement",
     "return_statement", "goto_statement", "null_statement">>)
while_statement ==
  List("while_statement", <<"while", "(", "expr", ")", "statement">>, V(3), V(5), "WHILE_STMT")

Statements ==
  break_statement \o compound_statement \o conditional_statement \o continue_statement
  \o declaration_or_statement \o declaration_or_statement_list \o do_statement
  \o expression_statement \o for_expr \o for_statement \o goto_statement
  \o if_else_statement \o if_statement \o initial_clause \o iterative_statement \o label
  \o labeled_statement \o named_label \o null_statement \o return_statement \o statement
  \o while_statement

-----------------------------------------------------------------------------
(* Declarations.                                                           *)

abstract_declarator ==
  Units("abstract_declarator", <<"pointer", "direct_abstract_declarator">>)
  \o Rule("abstract_declarator", <<"pointer", "direct_abstract_declarator">>, V(1))
array_declarator ==
  List("array_declarator", <<"direct_declarator", "[", "constant_expr", "]">>, V(1), V(3), "ARRAY_DECL")
  \o List("array_declarator", <<"direct_declarator", "[", "]">>, V(1), NULL, "ARRAY_DECL")
character_type_specifier ==
  LET type(words) == Specifier("character_type_specifier", words)
  IN type(<<"char">>) \o type(<<"signed", "char">>) \o type(<<"unsigned", "char">>)
decl == List("decl", <<"declaration_specifiers", "declarator_list", ";">>, V(1), V(2), "DECL")
declaration_specifiers == Units("declaration_specifiers", <<"type_specifier">>)
declarator             == Units("declarator", <<"pointer_declarator", "direct_declarator">>)
declarator_list ==
  Units("declarator_list", <<"declarator">>)
  \o List("declarator_list", <<"declarator_list", ",", "declarator">>, V(1), V(3), "IDENTIFIER_LIST")
direct_abstract_declarator ==
  LET rule(rhs, action) == Rule("direct_abstract_declarator", rhs, action)
      direct == "direct_abstract_declarator"
  IN rule(<<"(", "abstract_declarator", ")">>, V(2))
     \o rule(<<direct, "[", "constant_expr", "]">>, malloc_list_node(V(1), V(3), "GENERIC"))
     \o rule(<<"[", "constant_expr", "]">>, V(2))
     \o rule(<<direct, "(", "parameter_list", ")">>, malloc_list_node(V(1), V(3), "GENERIC"))
     \o rule(<<direct, "(", ")">>, V(1))
     \o rule(<<"(", "parameter_list", ")">>, V(2))
     \o rule(<<"(", ")">>, V(1))
direct_declarator ==
  Units("direct_declarator", <<"simple_declarator", "function_declarator", "array_declarator">>)
  \o Rule("direct_declarator", <<"(", "declarator", ")">>, V(2))
function_declarator ==
  List("function_declarator", <<"direct_declarator", "(", ")">>, V(1),
       malloc_list_node(malloc_type_node("VOID", NULL), NULL, "PARAM_DECL"), "FUNCTION_DECL")
  \o List("function_declarator", <<"direct_declarator", "(", "parameter_list", ")">>,
          V(1), V(3), "FUNCTION_DECL")
function_definition ==
  List("function_definition", <<"function_def_specifier", "compound_statement">>,
       V(1), V(2), "FUNCTION_DEF")
function_def_specifier ==
  List("function_def_specifier", <<"declaration_specifiers", "declarator">>,
       V(1), V(2), "FUNCTION_SPEC")
  \o Units("function_def_specifier", <<"declarator">>)
integer_type_specifier ==
  Units("integer_type_specifier",
        <<"signed_type_specifier", "unsigned_type_specifier", "character_type_specifier">>)
parameter_decl ==
  LET specifiers == "declaration_specifiers"
  IN List("parameter_decl", <<specifiers, "declarator">>, V(1), V(2), "PARAM_DECL")
     \o List("parameter_decl", <<specifiers, "abstract_declarator">>, V(1), V(2), "PARAM_DECL")
     \o List("parameter_decl", <<specifiers>>, V(1), NULL, "PARAM_DECL")
parameter_list ==
  Units("parameter_list", <<"parameter_decl">>)
  \o List("parameter_list", <<"parameter_list", ",", "parameter_decl">>, V(1), V(3), "PARAM_LIST")
pointer ==
  Rule("pointer", <<"*">>, malloc_unary_op_node("*", NULL, NULL))
  \o Rule("pointer", <<"*", "pointer">>, malloc_unary_op_node("*", NULL, V(2)))
pointer_declarator ==
  List("pointer_declarator", <<"pointer", "direct_declarator">>, Longer(1, V(2)), NULL, "PTR_DECL")
signed_type_specifier ==
  LET type(words) == Specifier("signed_type_specifier", words)
  IN type(<<"short">>) \o type(<<"short", "int">>) \o type(<<"signed", "short">>)
     \o type(<<"signed", "short", "int">>) \o type(<<"int">>) \o type(<<"signed", "int">>)
     \o type(<<"signed">>) \o type(<<"long">>) \o type(<<"long", "int">>)
     \o type(<<"signed", "long">>) \o type(<<"signed", "long", "int">>)
simple_declarator == Rule("simple_declarator", <<"IDENTIFIER">>, malloc_identifier_node("$1"))
top_level_decl    == Units("top_level_decl", <<"decl", "function_definition">>)
translation_unit ==
  List("translation_unit", <<"top_level_decl">>, V(1), NULL, "FILESCOPE")
  \o Rule("translation_unit", <<"translation_unit", "top_level_decl">>,
          Longer(1, malloc_list_node(V(2), NULL, "TOPLEVEL")))
type_name ==
  List("type_name", <<"declaration_specifiers", "abstract_declarator">>, V(1), V(2), "ABSTRACT_DECL")
  \o Units("type_name", <<"declaration_specifiers">>)
type_specifier == Units("type_specifier", <<"integer_type_specifier", "void_type_specifier">>)
unsigned_type_specifier ==
  LET type(words) == Specifier("unsigned_type_specifier", words)
  IN type(<<"unsigned", "short">>) \o type(<<"unsigned", "short", "int">>) \o type(<<"unsigned">>)
     \o type(<<"unsigned", "int">>) \o type(<<"unsigned", "long">>)
     \o type(<<"unsigned", "long", "int">>)
void_type_specifier == Specifier("void_type_specifier", <<"void">>)

Declarations ==
  abstract_declarator \o array_declarator \o character_type_specifier \o decl
  \o declaration_specifiers \o declarator \o declarator_list \o direct_abstract_declarator
  \o direct_declarator \o function_declarator \o function_definition
  \o function_def_specifier \o integer_type_specifier \o parameter_decl \o parameter_list
  \o pointer \o pointer_declarator \o signed_type_specifier \o simple_declarator
  \o top_level_decl \o translation_unit \o type_name \o type_specifier
  \o unsigned_type_specifier \o void_type_specifier

-----------------------------------------------------------------------------

(* Bison's rule for the start symbol, and the one whose action processes   *)
(* the tree.                                                               *)
START == 1
FILE  == 2
Rules ==
  Units("$accept", <<"file_scope">>) \o Units("file_scope", <<"translation_unit">>)
  \o Expressions \o Statements \o Declarations

Nonterminals == {Rules[r].lhs : r \in DOMAIN Rules}
Terminals    == UNION {{Rules[r].rhs[k] : k \in DOMAIN Rules[r].rhs} : r \in DOMAIN Rules}
                \ Nonterminals

-----------------------------------------------------------------------------
(* What an action does with the values of its symbols.                     *)

RECURSIVE AtRightEnd(_, _)
AtRightEnd(chain, last) ==
  IF chain.right = NULL THEN [chain EXCEPT !.right = last]
  ELSE [chain EXCEPT !.right = AtRightEnd(@, last)]

Text(str, v) == IF str = "$1" THEN v[1] ELSE IF str = "$2" THEN v[2] ELSE str

RECURSIVE Value(_, _)
Value(action, v) ==
  CASE action.type = "NULL"    -> NULL
    [] action.type = "$"       -> v[action.arg]
    [] action.type = "$chain"  -> AtRightEnd(v[action.arg], Value(action.last, v))
    [] action.type = "$ornull" -> IF v[action.arg] = NULL THEN malloc_null_node ELSE v[action.arg]
    [] action.type = "NUMBER"  -> malloc_number_node(v[1])
    [] OTHER -> [action EXCEPT !.string_data = Text(@, v),
                               !.left = Value(@, v), !.right = Value(@, v)]
=============================================================================
