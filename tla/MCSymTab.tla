----------------------------- MODULE MCSymTab -------------------------------
(***************************************************************************)
(* Symbol tables for programs of up to three declarations and definitions  *)
(* from a pool in which the names x, y, f and g are declared in many       *)
(* places: as globals, parameters, locals, in blocks, and as functions;    *)
(* and with pointers before and after one of them.                         *)
(***************************************************************************)
EXTENDS SymTab, PlainStyle

x == Var("x")
y == Var("y")
f == Var("f")
g == Var("g")

Param(type, d)      == parameter_decl(type, d)
Prototype(name, ps) == decl(INT, <<function_declarator(name, ps)>>)
Define(name, ps, items) ==
  function_definition(function_def_specifier(INT, function_declarator(name, ps)),
                      compound_statement(items))
Block(items) == compound_statement(items)
Set(a, b)    == expression_statement(assignment_expr(a, b))

IntX  == Param(INT, x)
CharY == Param(CHAR, y)

Shadow == Block(<<decl(CHAR, <<x>>), Set(x, y), Block(<<decl(SHORT_INT, <<y, x>>), Set(y, x)>>)>>)

Toplevel ==
  [xy    |-> decl(CHAR, <<y, array_declarator(array_declarator(x, Num(2)), Num(3))>>),
   fVar  |-> decl(UNSIGNED, <<f>>),
   fx    |-> Prototype(f, <<IntX>>),
   fxy   |-> Prototype(f, <<IntX, CharY>>),
   ftwo  |-> decl(INT, <<x, function_declarator(f, <<CharY>>)>>),
   Fx    |-> Define(f, <<IntX>>, <<decl(INT, <<y>>), Set(x, y), Shadow, return_statement(x)>>),
   Fxy   |-> Define(f, <<IntX, CharY>>, <<Shadow, Shadow, Set(y, x)>>),
   Fvoid |-> Define(f, <<>>, <<decl(SHORT_INT, <<x>>), Block(<<Set(x, x)>>), return_statement(x)>>),
   Gx    |-> Define(g, <<Param(CHAR, x)>>,
               <<Prototype(Var("k"), <<CharY>>),
                 while_statement(x, Block(<<decl(INT, <<y>>), Set(y, function_call("f", <<x>>))>>)),
                 Set(x, x)>>),
   Gf    |-> Define(g, <<>>,
               <<Prototype(f, <<IntX>>), decl(INT, <<Var("z")>>), Set(Var("z"), Num(1)),
                 Block(<<Set(Var("z"), Num(2))>>), Prototype(Var("h"), <<>>)>>),
   none  |-> Prototype(Var("h"), <<>>)]

Empty ==
  [Fvoid |-> Define(f, <<>>, <<>>),
   Fx    |-> Define(f, <<IntX>>, <<>>)]

Pointer(d) == malloc_list_node(malloc_unary_op_node("*", NULL, d), NULL, "PTR_DECL")
z == Var("z")
p == function_declarator(Var("p"), <<IntX, Param(CHAR, Pointer(array_declarator(y, Num(2)))), Param(INT, z)>>)

Pointers ==
  [var  |-> decl(UNSIGNED, <<Pointer(malloc_unary_op_node("*", NULL, z)), Var("w")>>),
   p    |-> decl(CHAR, <<Pointer(p)>>),
   P    |-> function_definition(function_def_specifier(CHAR, Pointer(p)),
              compound_statement(<<decl(INT, <<Pointer(Var("w"))>>),
                                   Set(malloc_unary_op_node("*", NULL, Var("w")), x)>>)),
   open |-> decl(INT, <<array_declarator(array_declarator(Var("v"), NULL), Num(2))>>)]

ITEMS  == DOMAIN Toplevel
EMPTY  == DOMAIN Empty

MCPrograms ==
  {translation_unit(<<Toplevel[a], Toplevel[b], Toplevel[c]>>) : a, b, c \in ITEMS}
  \cup {translation_unit(<<Pointers[a], Toplevel[b], Pointers[c]>>) :
          a, c \in DOMAIN Pointers, b \in ITEMS}

EmptyPrograms ==
  {translation_unit(<<Empty[a], Toplevel[b]>>) : a \in EMPTY, b \in ITEMS}

(* What the proofs about the tables suppose of programs holds of all these.*)
DEPTH == 20

ASSUME DeclarationAssumption ==
  \A t \in MCPrograms \cup EmptyPrograms :
     /\ t.subtype = "FILESCOPE"
     /\ \A n \in NodesOf(t, DEPTH) : DeclaredAt(t, n)

(* The tables are left as they should be in the programs without a         *)
(* function that is declared in a block or has an empty body.              *)
LOCALS == {"Gx", "Gf"}
IsTidy(t) == LET nodes == NodesOf(t, DEPTH)
             IN OneDeclarator(t, nodes) /\ \A n \in nodes : TidyAt(t, n)

ASSUME TidyAssumption ==
  /\ \A a, b, c \in ITEMS : IsTidy(translation_unit(<<Toplevel[a], Toplevel[b], Toplevel[c]>>))
                            <=> {a, b, c} \cap LOCALS = {}
  /\ \A a, c \in DOMAIN Pointers : \A b \in ITEMS :
       IsTidy(translation_unit(<<Pointers[a], Toplevel[b], Pointers[c]>>)) <=> b \notin LOCALS
  /\ \A t \in EmptyPrograms : ~IsTidy(t)
=============================================================================
