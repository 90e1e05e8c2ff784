-------------------------------- MODULE Nodes --------------------------------
(***************************************************************************)
(* Syntax trees: the malloc_* constructors of node.c and the links between *)
(* nodes.  A tree is a nested record.  A node is named by its path from    *)
(* the root, a sequence of "L" and "R"; its parent is the path without the *)
(* last step.                                                              *)
(* Tokens are already values here: an identifier is its name, a number its *)
(* int value.  The left and right links that malloc_number_node and        *)
(* malloc_stmt_node leave uninitialised are NULL, which they are in memory *)
(* that malloc hands out for the first time.                               *)
(***************************************************************************)
EXTENDS Integers, Sequences

NULL == [type |-> "NULL", subtype |-> "NONE"]

node(type, subtype, string_data, const_value, left, right) ==
  [type |-> type, subtype |-> subtype, string_data |-> string_data,
   const_value |-> const_value, left |-> left, right |-> right]

malloc_list_node(left, right, subtype) ==
  node("LIST", subtype, "", 0, left, right)
malloc_identifier_node(name) ==
  node("IDENTIFIER", "NONE", name, 0, NULL, NULL)
malloc_type_node(type, left) ==
  node("TYPE", type, "", 0, left, NULL)
malloc_unary_op_node(op, left, right) ==
  node("UNARY_OP", "NONE", op, 0, left, right)
malloc_binary_op_node(op, left, right) ==
  node("BINARY_OP", "NONE", op, 0, left, right)
malloc_number_node(val) ==
  node("NUMBER", "NONE", "", val, NULL, NULL)
malloc_stmt_node(str, subtype) ==
  node("STMT", subtype, str, 0, NULL, NULL)
malloc_expr_node(left, right) ==
  node("EXPR_STMT", "NONE", "", 0, left, right)
malloc_null_node ==
  node("NULL_STMT", "NONE", "", 0, NULL, NULL)

(* A token of the text: its name and what the lexer leaves in yylval.      *)
Token(kind, value) == [kind |-> kind, value |-> value]

-----------------------------------------------------------------------------
(* Links.                                                                  *)

Left(path)   == Append(path, "L")
Right(path)  == Append(path, "R")
Parent(path) == SubSeq(path, 1, Len(path) - 1)

NodeAt(tree, path) ==
  LET at[k \in 0..Len(path)] ==
        IF k = 0 THEN tree ELSE IF path[k] = "L" THEN at[k - 1].left ELSE at[k - 1].right
  IN at[Len(path)]

(* is_below_subtype: some proper ancestor has the subtype.                 *)
is_below_subtype(tree, path, subtype) ==
  \E k \in 0..(Len(path) - 1) : NodeAt(tree, SubSeq(path, 1, k)).subtype = subtype
=============================================================================
