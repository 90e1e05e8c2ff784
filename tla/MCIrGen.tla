------------------------------ MODULE MCIrGen -------------------------------
(***************************************************************************)
(* IR generation for one function whose body is one statement, simple or   *)
(* nested, and a return.  A program is made from a shape of the statement  *)
(* and the names of its parts.                                             *)
(***************************************************************************)
EXTENDS IrGen, PlainStyle, FiniteSets

x == Var("x")
y == Var("y")

Call(args) == function_call("f", args)

Expr ==
  [var   |-> x,
   num   |-> Num(1),
   arith |-> additive_expr("+", x, multiplicative_expr("*", y, Num(2))),
   less  |-> relational_expr("<", x, y),
   logic |-> logical_and_expr(x, logical_or_expr(y, Num(1))),
   incr  |-> postincrement_expr(x),
   decr  |-> predecrement_expr(y),
   call  |-> Call(<<x>>),
   recur |-> multiplicative_expr("*", x, Call(<<additive_expr("-", x, Num(1))>>)),
   two   |-> additive_expr("+", Call(<<Num(1)>>), Call(<<Num(2), y>>)),
   inner |-> Call(<<Call(<<x>>), Num(3)>>)]

Assign(v, e) == expression_statement(assignment_expr(v, e))

Body ==
  [set |-> Assign(y, x),
   ret |-> return_statement(y),
   one |-> return_statement(Num(1)),
   rec |-> return_statement(Call(<<y>>)),
   run |-> expression_statement(Call(<<>>))]

(* An if chain, a block in a loop, and a loop in an if and in a loop.      *)
ElseIf(e, s)  == if_else_statement(x, Assign(y, e), if_else_statement(e, s, return_statement(x)))
LoopIf(e, s)  == while_statement(y, compound_statement(<<if_statement(e, s), Assign(y, Num(0))>>))
LoopLoop(e, s) == while_statement(e, while_statement(y, s))
IfLoop(e, s)  == if_statement(e, for_statement(for_expr(e, y, malloc_null_node), s))

Statement(shape, e, s) ==
  CASE shape = "expr"   -> expression_statement(e)
    [] shape = "assign" -> Assign(x, e)
    [] shape = "return" -> return_statement(e)
    [] shape = "last"   -> compound_statement(
                             <<expression_statement(Call(<<>>)), return_statement(e)>>)
    [] shape = "if"     -> if_statement(e, s)
    [] shape = "ifelse" -> if_else_statement(e, s, Assign(x, y))
    [] shape = "while"  -> while_statement(e, s)
    [] shape = "for"    -> for_statement(
                             for_expr(assignment_expr(x, Num(0)), e, postincrement_expr(x)), s)
    [] shape = "fordecl" -> for_statement(for_expr(decl(INT, <<y>>), malloc_null_node, e), s)
    [] shape = "elseif" -> ElseIf(e, s)
    [] shape = "loopif" -> LoopIf(e, s)
    [] shape = "looploop" -> LoopLoop(e, s)
    [] shape = "ifloop" -> IfLoop(e, s)

Function(s) ==
  function_definition(
     function_def_specifier(INT, function_declarator(Var("f"),
        <<parameter_decl(INT, x), parameter_decl(INT, y)>>)),
     compound_statement(<<s, return_statement(NULL)>>))

Compile(ids) ==
  {translation_unit(<<decl(INT, <<y>>), Function(Statement(id[1], Expr[id[2]], Body[id[3]]))>>) :
     id \in ids}

EXPRS  == DOMAIN Expr
BODIES == DOMAIN Body

MCShapes ==
  ({"expr", "assign", "return", "last"} \X EXPRS \X {"set"})
     \cup ({"if", "while", "elseif"} \X EXPRS \X BODIES)
     \cup ({"ifelse", "for", "fordecl", "loopif"} \X EXPRS \X {"set"})
     \cup ({"loopif"} \X EXPRS \X {"one"})
     \cup ({"looploop", "ifloop"} \X {"var"} \X {"set"})

MCPrograms == Compile(MCShapes)

LoopPrograms == Compile({"looploop", "ifloop"} \X {"var"} \X {"set"})

(***************************************************************************)
(* Every program here is as the grammar makes programs, and in plain style *)
(* but those with a call among the arguments of a call.                    *)
(***************************************************************************)
Depth == 20

ASSUME StyleAssumption ==
  \A id \in MCShapes : \A t \in Compile({id}) :
     (\A n \in NodesOf(t, Depth) : PlainAt(t, n)) <=> id[2] # "inner"

ASSUME FormAssumption ==
  \A t \in MCPrograms :
     /\ t.subtype = "FILESCOPE"
     /\ \A n \in NodesOf(t, Depth) : FormedAt(t, n)
     /\ Cardinality({n \in NodesOf(t, Depth) : NodeAt(t, n).subtype = "FUNCTION_SPEC"}) = 1
=============================================================================
