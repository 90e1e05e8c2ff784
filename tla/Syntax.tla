------------------------------- MODULE Syntax -------------------------------
(***************************************************************************)
(* The trees that the grammar actions of yacc.y build, one operator for    *)
(* each rule, with the whole of a list at once: the language in which the  *)
(* programs of the other modules are written.  Grammar has the rules       *)
(* themselves.                                                             *)
(***************************************************************************)
EXTENDS Nodes

(* A list rule that recurs to the right, x : s | s x: the first element is *)
(* outermost and the chain ends in NULL.                                   *)
RightList(items, subtype) ==
  LET list[k \in 1..(Len(items) + 1)] ==
        IF k > Len(items) THEN NULL ELSE malloc_list_node(items[k], list[k + 1], subtype)
  IN list[1]

(* One that recurs to the left, x : s | x s: the first element is inmost.  *)
LeftList(items, subtype) ==
  LET list[k \in 1..Len(items)] ==
        IF k = 1 THEN items[1] ELSE malloc_list_node(list[k - 1], items[k], subtype)
  IN list[Len(items)]

-----------------------------------------------------------------------------
(* Expressions.                                                            *)

Var(name)          == malloc_identifier_node(name)
Num(val)           == malloc_number_node(val)
additive_expr(op, a, b)       == malloc_binary_op_node(op, a, b)
multiplicative_expr(op, a, b) == malloc_binary_op_node(op, a, b)
relational_expr(op, a, b)     == malloc_binary_op_node(op, a, b)
equality_expr(op, a, b)       == malloc_binary_op_node(op, a, b)
bitwise_and_expr(a, b)        == malloc_binary_op_node("&", a, b)
bitwise_or_expr(a, b)         == malloc_binary_op_node("|", a, b)
logical_and_expr(a, b)        == malloc_binary_op_node("&&", a, b)
logical_or_expr(a, b)         == malloc_binary_op_node("||", a, b)
assignment_expr(a, b)         == malloc_binary_op_node("=", a, b)
postincrement_expr(a)         == malloc_unary_op_node("++", a, NULL)
predecrement_expr(a)          == malloc_unary_op_node("--", NULL, a)

(* The first argument is innermost: EXPR_LIST(EXPR_LIST(a, b), c).         *)
expression_list(args) ==
  LeftList([k \in DOMAIN args |-> malloc_list_node(args[k], NULL, "EXPR_ITEM")], "EXPR_LIST")

function_call(f, args) ==
  malloc_list_node(Var(f), IF args = <<>> THEN NULL ELSE expression_list(args),
                   "FUNCTION_CALL")

-----------------------------------------------------------------------------
(* Statements.                                                             *)

expression_statement(e) == malloc_expr_node(e, NULL)
return_statement(e)     == malloc_expr_node(malloc_stmt_node("return", "RESERVED_WORD"), e)
if_statement(c, s)      == malloc_list_node(c, s, "IF_STMT")
if_else_statement(c, s, t) ==
  malloc_list_node(if_statement(c, s), malloc_list_node(t, NULL, "ELSE_STMT"), "IF_ELSE_STMT")
while_statement(c, s)   == malloc_list_node(c, s, "WHILE_STMT")

(* Each of the three clauses is an expression or malloc_null_node.         *)
for_expr(init, test, step) ==
  malloc_list_node(init,
     malloc_list_node(test, malloc_list_node(step, NULL, "FOR_PARAM"), "FOR_PARAM"),
     "FOR_PARAM")
for_statement(clauses, s) == malloc_list_node(clauses, s, "FOR_STMT")

declaration_or_statement_list(items) == RightList(items, "DECL_LIST")

compound_statement(items) ==
  IF items = <<>> THEN NULL
  ELSE malloc_list_node(declaration_or_statement_list(items), NULL, "LIST_BLOCK")

-----------------------------------------------------------------------------
(* Declarations and functions.                                             *)

INT  == malloc_type_node("INT", NULL)
VOID == malloc_type_node("VOID", NULL)
CHAR == malloc_type_node("CHAR", NULL)
SHORT_INT == malloc_type_node("INT", malloc_type_node("SHORT", NULL))
SHORT     == malloc_type_node("SHORT", NULL)
UNSIGNED  == malloc_type_node("UNSIGNED", NULL)
UNSIGNED_LONG_INT == malloc_type_node("INT", malloc_type_node("LONG", UNSIGNED))

array_declarator(d, size) == malloc_list_node(d, size, "ARRAY_DECL")

declarator_list(ds)           == LeftList(ds, "IDENTIFIER_LIST")
decl(type, ds)                == malloc_list_node(type, declarator_list(ds), "DECL")
parameter_decl(type, d)       == malloc_list_node(type, d, "PARAM_DECL")
parameter_list(ps)            == LeftList(ps, "PARAM_LIST")

function_declarator(d, ps) ==
  malloc_list_node(d, IF ps = <<>> THEN parameter_decl(VOID, NULL) ELSE parameter_list(ps),
                   "FUNCTION_DECL")
function_def_specifier(type, d)  == malloc_list_node(type, d, "FUNCTION_SPEC")
function_definition(spec, block) == malloc_list_node(spec, block, "FUNCTION_DEF")

(* A chain to the right: FILESCOPE first, TOPLEVEL for the others.         *)
translation_unit(ds) ==
  malloc_list_node(Head(ds), RightList(Tail(ds), "TOPLEVEL"), "FILESCOPE")
=============================================================================
