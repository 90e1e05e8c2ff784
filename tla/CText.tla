-------------------------------- MODULE CText --------------------------------
(***************************************************************************)
(* How C writes a program, as tokens: the text of a syntax tree with       *)
(* parentheses only where the precedence and the grouping of the C         *)
(* standard ask for them.  Nothing here comes from sgcc but the shape of   *)
(* the trees.                                                              *)
(***************************************************************************)
EXTENDS Nodes

LOCAL W(ws) == [k \in DOMAIN ws |-> Token(ws[k], ws[k])]

(* The tighter binding, the higher.                                        *)
ASSIGNMENT == 2
CONDITION  == 3
CAST       == 14
UNARY      == 15
POSTFIX    == 16
PRIMARY    == 17
BinaryLevel ==
  LET levels == <<{"||"}, {"&&"}, {"|"}, {"^"}, {"&"}, {"==", "!="}, {"<", "<=", ">", ">="},
                  {"<<", ">>"}, {"+", "-"}, {"*", "/", "%"}>>
      ops == UNION {levels[k] : k \in DOMAIN levels}
  IN [op \in ops |-> 3 + CHOOSE k \in DOMAIN levels : op \in levels[k]]

Level(t) ==
  CASE t.subtype = "GENERIC"   -> 1
    [] t.subtype = "COND_STMT" -> CONDITION
    [] t.subtype \in {"FUNCTION_CALL", "SUBSCRIPT_EXPR"} -> POSTFIX
    [] t.type = "UNARY_OP"  -> IF t.right = NULL THEN POSTFIX ELSE UNARY
    [] t.type = "BINARY_OP" ->
         IF t.string_data = "cast" THEN CAST
         ELSE IF t.string_data \in DOMAIN BinaryLevel THEN BinaryLevel[t.string_data] ELSE ASSIGNMENT
    [] OTHER -> PRIMARY

RECURSIVE Type(_), Expr(_, _), Bare(_), Arguments(_), Declarator(_), Inner(_), Declarators(_),
          Parameters(_), Stmt(_), BlockItems(_), FileText(_)

Type(t) ==
  CASE t = NULL -> <<>>
    [] t.subtype = "ABSTRACT_DECL" -> Type(t.left) \o Declarator(t.right)
    [] t.type = "TYPE" ->
         Type(t.left) \o W(<<[INT |-> "int", CHAR |-> "char", SHORT |-> "short", LONG |-> "long",
              VOID |-> "void", SIGNED |-> "signed", UNSIGNED |-> "unsigned"][t.subtype]>>)

(* t as an operand that must bind at least as tightly as level.            *)
Expr(t, level) ==
  IF Level(t) < level THEN W(<<"(">>) \o Bare(t) \o W(<<")">>) ELSE Bare(t)

Bare(t) ==
  LET l == Level(t)
      op == W(<<t.string_data>>)
  IN CASE t.type = "IDENTIFIER" -> <<Token("IDENTIFIER", t.string_data)>>
       [] t.type = "NUMBER"     -> <<Token("NUMBER", t.const_value)>>
       [] t.type = "STMT"       -> <<Token("STRING", t.string_data)>>
       [] t.subtype = "GENERIC" -> Expr(t.left, 1) \o W(<<",">>) \o Expr(t.right, ASSIGNMENT)
       [] t.subtype = "COND_STMT" ->
            Expr(t.left.left, CONDITION + 1) \o W(<<"?">>) \o Expr(t.left.right, 1)
            \o W(<<":">>) \o Expr(t.right.left, CONDITION)
       [] t.subtype = "FUNCTION_CALL" ->
            Expr(t.left, POSTFIX) \o W(<<"(">>) \o Arguments(t.right) \o W(<<")">>)
       [] t.subtype = "SUBSCRIPT_EXPR" ->
            Expr(t.left, POSTFIX) \o W(<<"[">>) \o Expr(t.right, 1) \o W(<<"]">>)
       [] t.type = "UNARY_OP" /\ t.right = NULL -> Expr(t.left, POSTFIX) \o op
       [] t.type = "UNARY_OP" /\ t.right # NULL ->
            op \o Expr(t.right, IF t.string_data \in {"++", "--"} THEN UNARY ELSE CAST)
       [] l = ASSIGNMENT -> Expr(t.left, UNARY) \o op \o Expr(t.right, ASSIGNMENT)
       [] l = CAST       -> W(<<"(">>) \o Type(t.left) \o W(<<")">>) \o Expr(t.right, CAST)
       [] OTHER          -> Expr(t.left, l) \o op \o Expr(t.right, l + 1)

Arguments(t) ==
  CASE t = NULL -> <<>>
    [] t.subtype = "EXPR_LIST" -> Arguments(t.left) \o W(<<",">>) \o Arguments(t.right)
    [] t.subtype = "EXPR_ITEM" -> Expr(t.left, ASSIGNMENT)

-----------------------------------------------------------------------------

Declarator(t) ==
  CASE t = NULL -> <<>>
    [] t.type = "IDENTIFIER"       -> Bare(t)
    [] t.type = "UNARY_OP"         -> W(<<"*">>) \o Declarator(t.right)
    [] t.subtype = "PTR_DECL"      -> Declarator(t.left)
    [] t.subtype = "ARRAY_DECL"    ->
         Inner(t.left) \o W(<<"[">>) \o (IF t.right = NULL THEN <<>> ELSE Expr(t.right, CONDITION))
         \o W(<<"]">>)
    [] t.subtype = "FUNCTION_DECL" ->
         Inner(t.left) \o W(<<"(">>) \o Parameters(t.right) \o W(<<")">>)

Inner(t) ==
  IF t.subtype = "PTR_DECL" THEN W(<<"(">>) \o Declarator(t) \o W(<<")">>) ELSE Declarator(t)

Declarators(t) ==
  IF t.subtype = "IDENTIFIER_LIST" THEN Declarators(t.left) \o W(<<",">>) \o Declarator(t.right)
  ELSE Declarator(t)

Parameters(t) ==
  IF t.subtype = "PARAM_LIST" THEN Parameters(t.left) \o W(<<",">>) \o Parameters(t.right)
  ELSE Type(t.left) \o Declarator(t.right)

-----------------------------------------------------------------------------

LOCAL InParens(t) == W(<<"(">>) \o Expr(t, 1) \o W(<<")">>)

(* A clause of a for; a declaration has its semicolon.                     *)
LOCAL Clause(t) ==
  CASE t.type = "NULL_STMT" -> <<>> [] t.subtype = "DECL" -> Stmt(t) [] OTHER -> Expr(t, 1)

Stmt(t) ==
  CASE t = NULL              -> W(<<"{", "}">>)
    [] t.type = "NULL_STMT"  -> W(<<";">>)
    [] t.type = "BINARY_OP"  -> Bare(t.left) \o W(<<":">>) \o Stmt(t.right)
    [] t.type = "EXPR_STMT"  ->
         (IF t.left.subtype = "RESERVED_WORD" THEN W(<<t.left.string_data>>) ELSE Expr(t.left, 1))
         \o (IF t.right = NULL THEN <<>> ELSE Expr(t.right, 1)) \o W(<<";">>)
    [] t.subtype = "DECL"       -> Type(t.left) \o Declarators(t.right) \o W(<<";">>)
    [] t.subtype = "LIST_BLOCK" -> W(<<"{">>) \o BlockItems(t.left) \o W(<<"}">>)
    [] t.subtype = "IF_STMT"    -> W(<<"if">>) \o InParens(t.left) \o Stmt(t.right)
    [] t.subtype = "IF_ELSE_STMT" -> Stmt(t.left) \o W(<<"else">>) \o Stmt(t.right.left)
    [] t.subtype = "WHILE_STMT"   -> W(<<"while">>) \o InParens(t.left) \o Stmt(t.right)
    [] t.subtype = "DOWHILE_STMT" ->
         W(<<"do">>) \o Stmt(t.left) \o W(<<"while">>) \o InParens(t.right) \o W(<<";">>)
    [] t.subtype = "FOR_STMT" ->
         W(<<"for", "(">>) \o Clause(t.left.left) \o W(<<";">>) \o Clause(t.left.right.left)
         \o W(<<";">>) \o Clause(t.left.right.right.left) \o W(<<")">>) \o Stmt(t.right)

BlockItems(t) == IF t = NULL THEN <<>> ELSE Stmt(t.left) \o BlockItems(t.right)

(* The definitions and declarations of a file.                             *)
FileText(t) ==
  LET unit == t.left
  IN CASE t = NULL -> <<>>
       [] t # NULL /\ unit.subtype = "FUNCTION_DEF" ->
            (IF unit.left.subtype = "FUNCTION_SPEC"
             THEN Type(unit.left.left) \o Declarator(unit.left.right) ELSE Declarator(unit.left))
            \o Stmt(unit.right) \o FileText(t.right)
       [] OTHER -> Stmt(unit) \o FileText(t.right)
=============================================================================
