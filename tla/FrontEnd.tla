------------------------------ MODULE FrontEnd ------------------------------
(***************************************************************************)
(* The front end of sgcc run with -v: the parser reads a text, and when it *)
(* reduces to file_scope it calls process_tree, which prints the tree.     *)
(* Then the parser goes on: it is the rest of the text that may show that  *)
(* there is an error in it.  What was printed is read in turn.             *)
(***************************************************************************)
EXTENDS Parser, CText

CONSTANTS
  Programs,  (* Syntax trees: a program is written down and compiled.      *)
  Others     (* Texts that are not C, or not for sgcc.                     *)

VARIABLES
  written, (* The program whose text is read, NULL for another text.       *)
  phase,   (* "read", "print", "rest" or "reread".                         *)
  walk, out, rightmost, blocks  (* Printer                                 *)

vars == <<parser_vars, written, phase, walk, out, rightmost, blocks>>

P == INSTANCE Printer

IsProgram == written # NULL

Init ==
  /\ \/ \E program \in Programs : written = program /\ StartParser(FileText(program))
     \/ \E text \in Others : written = NULL /\ StartParser(text)
  /\ phase = "read"
  /\ P!StartPrinter

Idle == UNCHANGED <<walk, out, rightmost, blocks>>

(* yyparse.  It is in the action of file_scope while the tree is printed.  *)
Read ==
  /\ phase \in {"read", "rest", "reread"}
  /\ phase = "read" => tree = NULL
  /\ Parse
  /\ UNCHANGED <<written, phase>> /\ Idle

(* process_tree, of which only the printing is here.                       *)
ProcessTree ==
  /\ phase = "read" /\ tree # NULL
  /\ phase' = "print"
  /\ P!BeginTree
  /\ UNCHANGED <<written, parser_vars>>

PrintTree ==
  /\ phase = "print"
  /\ P!PrintStep
  /\ UNCHANGED <<written, phase, input, stack, status>>

Printed ==
  /\ phase = "print" /\ walk = <<>>
  /\ phase' = "rest"
  /\ UNCHANGED <<written, parser_vars>> /\ Idle

(* The printout, without the addresses in it, is given to sgcc.            *)
GiveBack ==
  /\ phase = "rest" /\ status = "accepted" /\ IsProgram
  /\ phase' = "reread"
  /\ input' = Append(out, END)
  /\ stack' = Bottom
  /\ tree' = NULL
  /\ status' = "reading"
  /\ UNCHANGED written /\ Idle

Next == Read \/ ProcessTree \/ PrintTree \/ Printed \/ GiveBack

Spec == Init /\ [][Next]_vars

-----------------------------------------------------------------------------

(* The state is well typed.  The printer's list of open blocks, a global   *)
(* in node.c, is empty whenever it is not at work.                         *)
TypeOK ==
  /\ phase \in {"read", "print", "rest", "reread"}
  /\ ParserOK
  /\ P!PrinterOK
  /\ phase # "print" => walk = <<>>

(* A C program is accepted, and the tree that sgcc compiles is the one     *)
(* that was written down with the precedence and grouping of C: in every   *)
(* pair of operators, and with every else at the nearest if.               *)
ReadsAsWritten ==
  (IsProgram /\ phase # "reread") => status # "error" /\ tree \in {NULL, written}

(* A text that is not C is not accepted, whatever was compiled before the  *)
(* error was seen.  Only what comes after a character that C does not have *)
(* is not looked at: sgcc drops it without a word.                         *)
Refuses == (~IsProgram /\ status = "accepted") => Head(input).kind = JUNK.kind

(* The rules of yacc.y leave the parser one thing to do at every point     *)
(* that some program reaches, but for an else, which can go to the nearest *)
(* if or to one further out: all that bison resolves without being told.   *)
NoConflict ==
  status = "reading" => \A T \in {Tables} :
    Cardinality(Readable(T) \cup (IF Shifts(T) THEN {0} ELSE {})) > 1 =>
      /\ Lookahead = "else"
      /\ \A r \in Readable(T) : Rules[r].lhs = "if_statement"

-----------------------------------------------------------------------------
(* The trees whose printout can be read back.                              *)

RECURSIVE Within(_)
Within(t) == IF t = NULL THEN {} ELSE {t} \cup Within(t.left) \cup Within(t.right)

Has(t, subtypes) == \E n \in Within(t) : n.subtype \in subtypes
IsEmpty(s) == s = NULL \/ s.type = "NULL_STMT"
IsCond(t)  == t.subtype = "COND_STMT"
IsStar(t)  == t.type = "UNARY_OP" /\ t.right = NULL

(* A comma too many or too few: what rightmost tells is out of date after  *)
(* a call in a call or a declarator in a declarator, and only identifiers  *)
(* are followed by a comma in a list of declarators.                       *)
WrongComma(n) ==
  \/ n.subtype = "GENERIC"
  \/ n.subtype = "FUNCTION_CALL" /\ (Has(n.left, {"FUNCTION_CALL"}) \/ Has(n.right, {"FUNCTION_CALL"}))
  \/ n.subtype = "FUNCTION_DECL" /\ Has(n.left, {"FUNCTION_DECL"})
  \/ n.subtype = "PARAM_DECL" /\ Has(n.right, {"FUNCTION_DECL", "FUNCTION_CALL"})
  \/ n.subtype = "IDENTIFIER_LIST" /\ n.left.type # "IDENTIFIER" /\ n.left.subtype # "IDENTIFIER_LIST"

(* Nothing is printed for a statement without words.                       *)
LostStatement(n) ==
  \/ n.subtype \in {"IF_STMT", "FOR_STMT"} /\ IsEmpty(n.right)
  \/ n.subtype \in {"ELSE_STMT", "DECL_LIST"} /\ IsEmpty(n.left)
  \/ n.subtype = "FUNCTION_DEF" /\ n.right = NULL
  \/ n.subtype = "WHILE_STMT" /\ n.right.type = "NULL_STMT"
  \/ n.type = "BINARY_OP" /\ n.string_data = ":" /\ IsEmpty(n.right)

(* No parentheses are printed around a conditional.                        *)
BareConditional(n) ==
  \/ n.type = "UNARY_OP" /\ (IsCond(n.left) \/ IsCond(n.right))
  \/ n.type = "BINARY_OP" /\ IsCond(n.left)
  \/ n.type = "BINARY_OP" /\ Level(n) # ASSIGNMENT /\ IsCond(n.right)
  \/ n.subtype \in {"SUBSCRIPT_EXPR", "FUNCTION_CALL"} /\ IsCond(n.left)
  \/ IsCond(n) /\ IsCond(n.left.left)

(* A declarator that is printed in another shape, or a value as another.   *)
OtherShape(n) ==
  \/ n.subtype = "PTR_DECL" /\ n.left.right.type = "UNARY_OP"
  \/ n.subtype = "ABSTRACT_DECL" /\ ~IsStar(n.right)
  \/ n.subtype = "PARAM_DECL" /\ n.right.type \in {"TYPE", "NUMBER", "UNARY_OP"} /\ ~IsStar(n.right)
  \/ n.type = "NUMBER" /\ n.const_value < 0

(* A string whose text, its escapes decoded, has a quote, a newline, or a  *)
(* backslash that begins an escape or is the last character.               *)
DecodedString(n) ==
  n.subtype = "STRING_CONST" /\ n.string_data \in {"a\"b", "a\nb", "a\\", "a\\nb"}

Printable(t) ==
  \A n \in Within(t) :
    ~(WrongComma(n) \/ LostStatement(n) \/ BareConditional(n) \/ OtherShape(n) \/ DecodedString(n))

(* What print_tree prints is C again and means the same, the parser reads  *)
(* it back as the tree that was printed, unless it has a construct from    *)
(* the list above; then the printout is wrong.                             *)
Reprints ==
  (phase = "reread" /\ status # "reading") =>
    (Printable(written) <=> status = "accepted" /\ tree = written)

(* In every printout, right or wrong, the brackets match, those aside that *)
(* are in a string: each block that start_new_block opens is closed at its *)
(* end, inside what is around it.                                          *)
Closes == [b \in {")", "]", "}"} |-> CASE b = ")" -> "(" [] b = "]" -> "[" [] b = "}" -> "{"]
RECURSIVE Unclosed(_, _)
Unclosed(text, open) ==
  IF text = <<>> THEN open
  ELSE LET t == Head(text).kind
           fits == open # <<>> /\ t \in DOMAIN Closes /\ Last(open) = Closes[t]
       IN Unclosed(Tail(text),
                   IF fits THEN SubSeq(open, 1, Len(open) - 1)
                   ELSE IF t \in {"(", "[", "{", ")", "]", "}"} THEN Append(open, t) ELSE open)
BracketsMatch == (phase = "print" /\ walk = <<>>) => Unclosed(out, <<>>) = <<>>
=============================================================================
