------------------------------- MODULE Printer -------------------------------
(***************************************************************************)
(* The pretty printer (print_tree in node.c), which is shown with -v: one  *)
(* recursive walk over the syntax tree that prints part of a construct     *)
(* before its left child, part between the children and part at the end.   *)
(* The text is a sequence of tokens: tabs, spaces and newlines are left    *)
(* out, and so is the address of the symbol after an identifier.  Of the   *)
(* characters in a string only those are told apart that change what is    *)
(* read when they are printed.                                             *)
(* walk holds what is left of the recursion, a child's place by its path.  *)
(***************************************************************************)
EXTENDS Nodes

VARIABLES
  tree,       (* The tree that is printed.                                 *)
  walk,       (* The work left, a stack.                                   *)
  out,        (* What has been printed.                                    *)
  rightmost,  (* The last node of the list that is printed: a path or NONE *)
  blocks      (* end_of_block_list: where the open blocks end.             *)

printer_vars == <<walk, out, rightmost, blocks>>

NONE == <<"none">>

At(n)      == NodeAt(tree, n)
IsNull(n)  == At(n) = NULL
Subtype(n) == At(n).subtype
Above(n)   == IF n = <<>> THEN NULL ELSE At(Parent(n))
InCond(n)  == Above(n).subtype = "COND_STMT"
IsOperator(n) == At(n).type \in {"BINARY_OP", "UNARY_OP"} /\ At(n).string_data # ":"
IsCast(nd)    == nd.type = "BINARY_OP" /\ nd.string_data = "cast"

RECURSIVE find_rightmost_subnode(_), RightmostOfAll(_)

(* Mutant: it goes down on the left where there is no right child.         *)
RightmostOfAll(n) ==
  CASE IsNull(n) -> NONE
    [] ~IsNull(n) /\ IsNull(Left(n)) /\ IsNull(Right(n)) -> n
    [] OTHER -> RightmostOfAll(IF IsNull(Right(n)) THEN Left(n) ELSE Right(n))

(* It goes on to the right only below nodes with two children.             *)
find_rightmost_subnode(n) ==
  CASE IsNull(n) -> NONE
    [] ~IsNull(n) /\ (IsNull(Left(n)) \/ IsNull(Right(n))) -> n
    [] OTHER -> find_rightmost_subnode(Right(n))

Words(ws)       == [k \in DOMAIN ws |-> Token(ws[k], ws[k])]
If(test, words) == IF test THEN Words(words) ELSE <<>>
CommaUnless(last) == If(~last, <<",">>)

TypeName(t) ==
  CASE t = "INT" -> "int" [] t = "CHAR" -> "char" [] t = "SHORT" -> "short" [] t = "LONG" -> "long"
    [] t = "VOID" -> "void" [] t = "SIGNED" -> "signed" [] t = "UNSIGNED" -> "unsigned"

Number(v) ==
  IF v >= 0 THEN <<Token("NUMBER", v)>> ELSE <<Token("-", "-"), Token("NUMBER", -v)>>

-----------------------------------------------------------------------------

StartPrinter ==
  /\ walk = <<>>
  /\ out = <<>>
  /\ rightmost = NONE
  /\ blocks = <<>>

BeginTree ==
  /\ walk' = <<[do |-> "enter", n |-> <<>>]>>
  /\ out' = <<>>
  /\ UNCHANGED <<rightmost, blocks>>

Here     == Head(walk).n
Doing(d) == walk # <<>> /\ Head(walk).do = d
Then(ds) == walk' = [k \in DOMAIN ds |-> [do |-> ds[k][1], n |-> ds[k][2]]] \o Tail(walk)

PrintNull ==
  /\ Doing("enter") /\ IsNull(Here)
  /\ Then(<<>>)
  /\ UNCHANGED <<out, rightmost, blocks>>

(* What comes before the left child.                                       *)
Opening(n) ==
  LET s == Subtype(n)
  IN If(Above(n).subtype = "LIST_BLOCK", <<"{">>)
     \o If(IsOperator(n), <<"(">>)
     \o If(IsCast(At(n)), <<"(">>)
     \o If(s = "IF_STMT" /\ ~InCond(n), <<"if", "(">>)
     \o If(s = "ELSE_STMT", <<IF InCond(n) THEN ":" ELSE "else">>)
     \o If(s = "FOR_STMT", <<"for", "(">>)
     \o If(s = "WHILE_STMT", <<"while", "(">>)
     \o If(s = "DOWHILE_STMT", <<"do">>)

(* Mutant: rightmost is not set again for a call after the statement's own.*)
HasRightmostOnce(n) ==
  Subtype(n) = "DECL" \/ At(n).type = "EXPR_STMT"

(* The constructs that set rightmost.                                      *)
HasRightmost(n) ==
  Subtype(n) \in {"DECL", "FUNCTION_DECL", "FUNCTION_CALL"} \/ At(n).type = "EXPR_STMT"

PrintOpening ==
  /\ Doing("enter") /\ ~IsNull(Here)
  /\ Then(<<<<"enter", Left(Here)>>, <<"middle", Here>>, <<"enter", Right(Here)>>,
            <<"leave", Here>>>>)
  /\ out' = out \o Opening(Here)
  /\ rightmost' = IF HasRightmost(Here) THEN find_rightmost_subnode(Right(Here)) ELSE rightmost
  /\ blocks' = IF Above(Here).subtype = "LIST_BLOCK"
               THEN Append(blocks, find_rightmost_subnode(Parent(Here))) ELSE blocks

(* The node itself, between its children.                                  *)
ListWords(n) ==
  LET s == Subtype(n)
  IN If(s \in {"FUNCTION_DECL", "FUNCTION_CALL"}, <<"(">>)
     \o If(s = "DOWHILE_STMT", <<"while", "(">>)
     \o If(s \in {"IF_STMT", "FOR_STMT"}, <<IF InCond(n) THEN "?" ELSE ")">>)
     \o If(s = "WHILE_STMT", <<")">>)
     \o If(s = "WHILE_STMT" /\ IsNull(Right(n)), <<"{", "}">>)
     \o If(s = "FOR_PARAM" /\ ~IsNull(Right(n)), <<";">>)
     \o If(s \in {"ARRAY_DECL", "SUBSCRIPT_EXPR"}, <<"[">>)

(* A string constant is printed as it is in memory, its escapes decoded,   *)
(* and these are the tokens that the lexer finds in it: a quote ends it, a *)
(* newline or a backslash before the last quote leaves it without an end,  *)
(* and a backslash that an n follows is an escape once more.               *)
Stray == Token("junk", "junk")
Word(v) == Token("IDENTIFIER", v)
Quoted(str) ==
  CASE str = "a\"b"  -> <<Token("STRING", "a"), Word("b"), Stray>>
    [] str = "a\nb"  -> <<Stray, Word("a"), Word("b"), Stray>>
    [] str = "a\\"   -> <<Stray, Word("a"), Stray, Stray>>
    [] str = "a\\nb" -> <<Token("STRING", "a\nb")>>
    [] OTHER -> <<Token("STRING", str)>>

OwnText(n) ==
  LET nd == At(n)
  IN CASE nd.type = "LIST" -> ListWords(n)
       [] nd.type = "STMT" /\ nd.subtype = "STRING_CONST" -> Quoted(nd.string_data)
       [] nd.type = "STMT" /\ nd.subtype = "RESERVED_WORD" -> Words(<<nd.string_data>>)
       [] nd.type = "TYPE" -> Words(<<TypeName(nd.subtype)>>)
       [] nd.type = "IDENTIFIER" ->
            <<Token("IDENTIFIER", nd.string_data)>>
            \o If(Above(n).subtype = "IDENTIFIER_LIST" /\ n # rightmost, <<",">>)
       [] nd.type = "NUMBER" -> Number(nd.const_value)
       [] nd.type = "NULL_STMT" -> If(Above(n).subtype = "DOWHILE_STMT", <<";">>)
       [] IsCast(nd) -> Words(<<")">>)
       [] nd.type \in {"BINARY_OP", "UNARY_OP"} /\ ~IsCast(nd) -> Words(<<nd.string_data>>)
       [] OTHER -> <<>>

(* Mutant: the first of the open blocks is looked at.                      *)
is_end_of_first(n) == blocks # <<>> /\ blocks[1] = n

is_end_of_block(n) == blocks # <<>> /\ blocks[Len(blocks)] = n

PrintNode ==
  /\ Doing("middle")
  /\ Then(<<>>)
  /\ out' = out \o OwnText(Here) \o If(is_end_of_block(Here), <<"}">>)
  /\ blocks' = IF is_end_of_block(Here) THEN SubSeq(blocks, 1, Len(blocks) - 1) ELSE blocks
  /\ UNCHANGED rightmost

(* What comes after the right child.                                       *)
Closing(n) ==
  LET s == Subtype(n)
      last == find_rightmost_subnode(n)
  IN If(IsOperator(n), <<")">>)
     \o If(s = "DECL" \/ At(n).type = "EXPR_STMT", <<";">>)
     \o If(s \in {"FUNCTION_DECL", "FUNCTION_CALL"}, <<")">>)
     \o If(s = "DOWHILE_STMT", <<")", ";">>)
     \o If(s = "PARAM_DECL" /\ last # rightmost, <<",">>)
     \o If(s = "PTR_DECL" /\ Above(n).subtype # "PARAM_DECL"
           /\ last # rightmost /\ At(last).type = "IDENTIFIER", <<",">>)
     \o If(s = "EXPR_ITEM" /\ n # rightmost, <<",">>)
     \o If(s \in {"ARRAY_DECL", "SUBSCRIPT_EXPR"}, <<"]">>)

PrintClosing ==
  /\ Doing("leave")
  /\ Then(<<>>)
  /\ out' = out \o Closing(Here)
  /\ UNCHANGED <<rightmost, blocks>>

PrintStep == (PrintNull \/ PrintOpening \/ PrintNode \/ PrintClosing) /\ UNCHANGED tree

(* Between two texts nothing of the walk is left behind but rightmost.     *)
PrinterOK ==
  /\ \A k \in DOMAIN walk : walk[k].do \in {"enter", "middle", "leave"}
  /\ \A k \in DOMAIN blocks : Subtype(blocks[k]) = "LIST_BLOCK"
  /\ walk = <<>> => blocks = <<>>
=============================================================================
