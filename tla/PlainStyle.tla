----------------------------- MODULE PlainStyle -----------------------------
(***************************************************************************)
(* Hypotheses on programs, of which IR generation and the symbol tables    *)
(* are proved to keep what they promise. No hypothesis is made by the      *)
(* specification: a theorem has the one that it needs.                     *)
(***************************************************************************)
EXTENDS Nodes

(***************************************************************************)
(* Programs in plain style, whose lists are proved to read no temporary    *)
(* that was not written and to be ready for register allocation. Each      *)
(* condition rules out an expression of which generate_ir_node returns or  *)
(* uses another register than that of its value: an assignment is a        *)
(* statement or a clause of a for, never a value, for 0 is returned for it *)
(* (irnode.c:455); an argument is an expression that loads something, for  *)
(* what is pushed is the last temporary, whichever it is (irnode.c:656);   *)
(* and the same holds of the operand of ++ and --.                         *)
(***************************************************************************)

(* The node n of the tree t has a value.                                   *)
HasValue(t, n) ==
  /\ NodeAt(t, n).type = "LIST" => NodeAt(t, n).subtype = "FUNCTION_CALL"
  /\ NodeAt(t, n).type = "BINARY_OP" => NodeAt(t, n).string_data # "="

Loads(t, n) ==
  /\ NodeAt(t, n).type \in {"NUMBER", "IDENTIFIER", "UNARY_OP", "BINARY_OP"}
  /\ NodeAt(t, n).subtype = "NONE"
  /\ HasValue(t, n)

Missing(t, n) == NodeAt(t, n) = NULL
Operand(t, n) == IF Missing(t, Left(n)) THEN Right(n) ELSE Left(n)

PlainAt(t, n) ==
  /\ NodeAt(t, n).subtype \in {"IF_STMT", "WHILE_STMT"} => HasValue(t, Left(n))
  /\ NodeAt(t, n).subtype = "FOR_STMT" =>
        /\ \A m \in {Left(n), Right(Left(n)), Right(Right(Left(n)))} :
             ~Missing(t, m) /\ NodeAt(t, m).type # "UNARY_OP"
        /\ HasValue(t, Left(Right(Left(n))))
  /\ NodeAt(t, n).type = "BINARY_OP" => HasValue(t, Left(n)) /\ HasValue(t, Right(n))
  /\ NodeAt(t, n).type = "UNARY_OP"  =>
        /\ NodeAt(t, n).subtype = "NONE"
        /\ Loads(t, Operand(t, n))
        /\ Missing(t, Left(n)) \/ Missing(t, Right(n))
  /\ NodeAt(t, n).type = "STMT" => HasValue(t, Right(Parent(n)))
  /\ is_below_subtype(t, n, "FUNCTION_CALL") /\ NodeAt(t, Parent(n)).subtype = "EXPR_ITEM" =>
        Loads(t, n)

(* The paths of the nodes, and of the children that a node has not.        *)
IsPath(t, n) ==
  n \in Seq({"L", "R"}) /\ \A k \in 0..(Len(n) - 1) : ~Missing(t, SubSeq(n, 1, k))

(* Those down to a depth.                                                  *)
NodesOf(t, depth) ==
  LET level[k \in 0..depth] ==
        IF k = 0 THEN {<<>>}
        ELSE {n \in {Append(m, d) : m \in level[k - 1], d \in {"L", "R"}} : ~Missing(t, n)}
  IN UNION {level[k] : k \in 0..depth}

Plain(t) == \A n \in Seq({"L", "R"}) : IsPath(t, n) /\ ~Missing(t, n) => PlainAt(t, n)

-----------------------------------------------------------------------------
(***************************************************************************)
(* Programs without ?: as the grammar makes them, as far as labels and     *)
(* jumps depend on it: a function is not defined in a statement, nor       *)
(* twice; an if with an else and the else are the two children of one node *)
(* (yacc.y:323); an if is no expression (yacc.y:329); the clauses of a for *)
(* are there (yacc.y:259); and a return is the left child of its statement *)
(* (yacc.y:465). A conditional expression, whose parts have the subtypes   *)
(* of an if and an else (yacc.y:143), is no such program: IR generation    *)
(* has no code for it.                                                     *)
(***************************************************************************)
Statements == {"IF_STMT", "IF_ELSE_STMT", "ELSE_STMT", "WHILE_STMT", "FOR_STMT"}
InStatement(t, n) == \E k \in 0..Len(n) : NodeAt(t, SubSeq(n, 1, k)).subtype \in Statements

Conditional(t, n) == NodeAt(t, n).subtype \in {"IF_STMT", "ELSE_STMT"}

FormedAt(t, n) ==
  /\ NodeAt(t, n).subtype = "FUNCTION_SPEC" => ~InStatement(t, n)
  /\ NodeAt(t, n).subtype = "IF_ELSE_STMT" =>
        NodeAt(t, Left(n)).subtype = "IF_STMT" /\ NodeAt(t, Right(n)).subtype = "ELSE_STMT"
  /\ NodeAt(t, n).subtype = "ELSE_STMT" =>
        NodeAt(t, Parent(n)).subtype = "IF_ELSE_STMT" /\ n = Right(Parent(n))
  /\ Conditional(t, n) =>
        /\ NodeAt(t, Parent(n)).type = "LIST"
        /\ n = Left(Parent(n)) =>
             NodeAt(t, Parent(n)).subtype \notin {"IF_STMT", "WHILE_STMT", "FOR_PARAM", "EXPR_ITEM"}
  /\ NodeAt(t, n).subtype = "FOR_STMT" =>
        \A m \in {Left(n), Right(Left(n)), Right(Right(Left(n)))} :
           NodeAt(t, m).subtype = "FOR_PARAM"
  /\ NodeAt(t, n).type = "STMT" /\ NodeAt(t, n).string_data = "return" =>
        /\ n = Left(Parent(n))
        /\ NodeAt(t, Parent(n)).type = "EXPR_STMT" /\ NodeAt(t, Parent(n)).subtype = "NONE"

(* The definition of a function, and its name.                             *)
IsSpec(t, n)  == IsPath(t, n) /\ ~Missing(t, n) /\ NodeAt(t, n).subtype = "FUNCTION_SPEC"
FunctionOf(t, n) == NodeAt(t, n).right.left.string_data

WellFormed(t) ==
  /\ t.subtype = "FILESCOPE"
  /\ \A n \in Seq({"L", "R"}) : IsPath(t, n) /\ ~Missing(t, n) => FormedAt(t, n)
  /\ \A m, n \in Seq({"L", "R"}) :
       IsSpec(t, m) /\ IsSpec(t, n) /\ FunctionOf(t, m) = FunctionOf(t, n) => m = n

-----------------------------------------------------------------------------
(***************************************************************************)
(* Programs whose declarations are as the grammar makes them, as far as    *)
(* the symbol tables depend on it: a type is one of the words that are     *)
(* types; a function declarator is a list whose left child is its name,    *)
(* not a declarator of its own (yacc.y:304 admits a function that returns  *)
(* one, which C does not); there is no block in it; and the number in an   *)
(* array declarator is not negative.                                       *)
(***************************************************************************)
TypeWords == {"VOID", "SIGNED", "UNSIGNED", "CHAR", "SHORT", "LONG", "INT"}

DeclaredAt(t, n) ==
  /\ NodeAt(t, n).type = "TYPE" => NodeAt(t, n).subtype \in TypeWords
  /\ NodeAt(t, n).subtype = "FUNCTION_DECL" =>
        NodeAt(t, n).type = "LIST" /\ NodeAt(t, Left(n)).type = "IDENTIFIER"
  /\ NodeAt(t, n).subtype = "LIST_BLOCK" => ~is_below_subtype(t, n, "FUNCTION_DECL")
  /\ NodeAt(t, n).subtype = "ARRAY_DECL" /\ ~Missing(t, Right(n)) =>
        NodeAt(t, Right(n)).const_value \in Nat

Declarable(t) ==
  /\ t.subtype = "FILESCOPE"
  /\ \A n \in Seq({"L", "R"}) : IsPath(t, n) /\ ~Missing(t, n) => DeclaredAt(t, n)

-----------------------------------------------------------------------------
(***************************************************************************)
(* Programs in which a table is left where its part of the program ends.   *)
(* Most of this is what the grammar makes: an identifier is a leaf, a      *)
(* FUNCTION_SPEC is the left child of a FUNCTION_DEF, definitions are not  *)
(* nested, and a block is in the body of one. What more it asks is where   *)
(* the code goes wrong:                                                    *)
(* - a function has a body that is not empty: an empty one is no block,    *)
(*   and it is at a block that a function's table is left (node.c:298);    *)
(* - no function is declared in a block: a prototype is left for the       *)
(*   parent of its table (node.c:283), which is the file scope when the    *)
(*   table was found by its name;                                          *)
(* - no function is declared in the parentheses of another, nor is the     *)
(*   declarator of one in that of another: their parameters would be       *)
(*   counted for one another.                                              *)
(***************************************************************************)
Subtype(t, n)   == NodeAt(t, n).subtype
Under(t, n, s)  == is_below_subtype(t, n, s)
IsIdentifier(t, n) == NodeAt(t, n).type = "IDENTIFIER"

TidyAt(t, n) ==
  /\ IsIdentifier(t, n) =>
        /\ Subtype(t, n) = "NONE" /\ Missing(t, Left(n)) /\ Missing(t, Right(n))
        /\ Under(t, n, "FUNCTION_SPEC") => Under(t, n, "FUNCTION_DECL")
        /\ Under(t, n, "FUNCTION_DECL") =>
              \/ n = Left(Parent(n)) /\ Subtype(t, Parent(n)) = "FUNCTION_DECL"
              \/ Under(t, n, "PARAM_DECL")
  /\ Subtype(t, n) = "FUNCTION_DECL" =>
        /\ Under(t, n, "DECL") \/ Under(t, n, "FUNCTION_SPEC")
        /\ ~Under(t, n, "FUNCTION_DECL") /\ ~Under(t, n, "LIST_BLOCK")
  /\ Subtype(t, n) = "PARAM_DECL" => Under(t, n, "FUNCTION_DECL")
  /\ Subtype(t, n) = "FUNCTION_SPEC" =>
        n # <<>> /\ n = Left(Parent(n)) /\ Subtype(t, Parent(n)) = "FUNCTION_DEF"
  /\ Subtype(t, n) = "FUNCTION_DEF" =>
        /\ \A s \in {"FUNCTION_DEF", "DECL", "FUNCTION_SPEC", "FUNCTION_DECL", "LIST_BLOCK"} : ~Under(t, n, s)
        /\ Subtype(t, Left(n)) = "FUNCTION_SPEC" /\ Subtype(t, Right(n)) = "LIST_BLOCK"
  /\ Subtype(t, n) = "LIST_BLOCK" =>
        Under(t, n, "FUNCTION_DEF") /\ ~Under(t, n, "FUNCTION_SPEC") /\ ~Under(t, n, "DECL")

AtOrBelow(n, m) == Len(m) <= Len(n) /\ SubSeq(n, 1, Len(m)) = m
OneDeclarator(t, nodes) ==
  \A m \in nodes : Subtype(t, m) = "FUNCTION_SPEC" =>
     \E h \in nodes : \A g \in nodes : Subtype(t, g) = "FUNCTION_DECL" /\ AtOrBelow(g, m) <=> g = h

Tidy(t) == LET nodes == {n \in Seq({"L", "R"}) : IsPath(t, n) /\ ~Missing(t, n)}
           IN Declarable(t) /\ OneDeclarator(t, nodes) /\ \A n \in nodes : TidyAt(t, n)
=============================================================================
