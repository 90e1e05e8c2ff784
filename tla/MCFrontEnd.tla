----------------------------- MODULE MCFrontEnd -----------------------------
(***************************************************************************)
(* Programs for FrontEnd: every two operators side by side, every form of  *)
(* statement and of declaration, and texts with an error in them.          *)
(***************************************************************************)
EXTENDS FrontEnd, TLC

S == INSTANCE Syntax

a == S!Var("a")
b == S!Var("b")
c == S!Var("c")
f == S!Var("f")
Star(d)   == malloc_unary_op_node("*", NULL, d)
Function(items) ==
  malloc_list_node(
    S!function_def_specifier(S!INT, S!function_declarator(f, <<>>)), S!compound_statement(items),
    "FUNCTION_DEF")
File(units) == S!translation_unit(units)
Do(e) == S!expression_statement(e)

-----------------------------------------------------------------------------
(* One operator of each level, and a second one for two levels.            *)
Operators == {"=", "||", "&&", "|", "^", "&", "==", "<", "<<", "+", "-", "*", "%"}
Join(op, x, y) == malloc_binary_op_node(op, x, y)

(* Each operator on either side of each.                                   *)
Pairs ==
  LET joined(op1, op2) == {Join(op1, Join(op2, a, b), c), Join(op1, a, Join(op2, b, c))}
  IN UNION {joined(op1, op2) : op1, op2 \in Operators}

Cast(t, e)   == Join("cast", t, e)
Prefix1(op, e) == malloc_unary_op_node(op, NULL, e)
Cond(x, y, z) ==
  malloc_list_node(S!if_statement(x, y), malloc_list_node(z, NULL, "ELSE_STMT"), "COND_STMT")
Sub(x, y)    == malloc_list_node(x, y, "SUBSCRIPT_EXPR")
Post(op, e)  == malloc_unary_op_node(op, e, NULL)
Pointer(t)   == malloc_list_node(t, Star(NULL), "ABSTRACT_DECL")

Unaries ==
  {Prefix1("-", Prefix1("-", a)), Prefix1("!", Join("+", a, b)), Join("*", Prefix1("~", a), b),
   Prefix1("*", Post("++", a)), Post("++", Prefix1("*", a)), Prefix1("&", Sub(a, b)),
   Sub(Prefix1("*", a), Join("=", b, c)), Cast(S!INT, Prefix1("-", a)),
   Prefix1("-", Cast(S!CHAR, a)), Join("+", Cast(Pointer(S!INT), a), b),
   Cast(S!INT, Join("+", a, b)), Prefix1("++", Prefix1("*", a)), Post("--", Sub(a, b)),
   Prefix1("+", S!function_call("f", <<a, Join("=", b, c)>>)),
   Join("=", Prefix1("*", a), Join("-", b, Prefix1("--", c)))}

Conditionals ==
  {Cond(a, b, c), Cond(a, Cond(a, b, c), c), Cond(a, b, Cond(a, b, c)),
   Join("=", a, Cond(Join("=", a, b), b, c)), Cond(Join("||", a, b), Join("=", a, b), c),
   S!function_call("f", <<Cond(a, b, c), S!Num(1)>>)}

(* What is printed wrong is read right none the less.                      *)
Unprintable ==
  {Cond(Cond(a, b, c), b, c), Join("+", Cond(a, b, c), c), Join("+", a, Cond(a, b, c)),
   S!function_call("f", <<S!function_call("g", <<a>>), b>>),
   malloc_list_node(Join("=", a, b), Join("=", b, c), "GENERIC"), Join("+", a, S!Num(-1))}

-----------------------------------------------------------------------------
(* Statements.                                                             *)
Block(ss)  == S!compound_statement(ss)
Word1(w, e) == malloc_expr_node(malloc_stmt_node(w, "RESERVED_WORD"), e)
Labelled(l, s) == Join(":", l, s)
DoWhile(s, e)  == malloc_list_node(IF s = NULL THEN malloc_null_node ELSE s, e, "DOWHILE_STMT")
None == malloc_null_node
For(x, y, z, s) == S!for_statement(S!for_expr(x, y, z), s)

(* An else after two ifs is the nearer one's, unless a block says not.     *)
Branches ==
  {S!if_statement(a, S!if_else_statement(b, Do(c), Do(a))),
    S!if_else_statement(a, Block(<<S!if_statement(b, Do(c))>>), Do(a)),
    S!if_else_statement(a, S!if_else_statement(b, Do(a), Do(b)), S!if_statement(c, Do(c))),
    S!if_statement(a, S!while_statement(b, S!if_else_statement(c, Do(a), Do(b)))),
    S!if_else_statement(a, DoWhile(S!if_statement(b, Do(c)), c), Do(b))}

Loops ==
  {S!while_statement(a, NULL), DoWhile(NULL, a), DoWhile(Block(<<Do(a)>>), b),
    For(None, None, None, Block(<<Word1("break", NULL)>>)), For(a, None, c, Do(b)),
    For(None, b, None, Word1("continue", NULL)), For(None, None, c, Do(a)),
    For(S!assignment_expr(a, b), b, None, For(None, b, c, Do(c))), For(a, None, None, Do(b)),
    For(S!decl(S!INT, <<a>>), a, S!postincrement_expr(a), Block(<<Do(a)>>)),
    Labelled(a, S!while_statement(b, Word1("goto", a))),
    Block(<<S!decl(S!INT, <<a>>), Labelled(b, Do(S!function_call("f", <<>>)))>>),
    Word1("return", NULL), S!return_statement(Join("+", a, S!Num(1)))}

EmptyOnes ==
  {None, NULL, S!if_statement(a, NULL), S!if_else_statement(a, None, None),
    S!while_statement(a, None), For(a, b, c, NULL), Labelled(a, None)}

(* Declarations.                                                           *)
Types ==
  LET T(t, l) == malloc_type_node(t, l)
      unsigned == T("UNSIGNED", NULL)
  IN {S!CHAR, T("CHAR", T("SIGNED", NULL)), T("CHAR", unsigned), S!SHORT_INT, unsigned,
       T("INT", T("LONG", unsigned)), T("SHORT", T("SIGNED", NULL)), S!VOID}
Ptr(d)      == malloc_list_node(Star(d), NULL, "PTR_DECL")
Arr(d, e)   == S!array_declarator(d, e)
Fun(d, ps)  == S!function_declarator(d, ps)
Par(t, d)   == S!parameter_decl(t, d)
DeclaratorLists == {
  <<a, b, c>>, <<a, Arr(Arr(b, S!Num(2)), Cond(S!Num(1), S!Num(2), S!Num(3)))>>, <<Ptr(a)>>,
  <<b, Ptr(Arr(a, NULL))>>, <<Arr(Ptr(a), S!Num(2))>>, <<Ptr(Fun(f, <<>>))>>,
  <<a, Fun(f, <<Par(S!INT, a), Par(S!CHAR, Ptr(b))>>)>>,
  <<Fun(Ptr(f), <<Par(S!INT, Star(NULL)), Par(S!INT, NULL)>>)>>,
  <<Ptr(Star(a)), b>>, <<Arr(a, S!Num(2)), b>>, <<Fun(a, <<Par(S!INT, Fun(f, <<>>)), Par(S!INT, b)>>)>>,
  <<Fun(Ptr(Fun(f, <<Par(S!INT, a)>>)), <<Par(S!INT, b)>>)>>}

(* Plain, with a backslash that escapes nothing, and with those characters *)
(* that are not printed as they must be written.                           *)
Strings == {"a", "a\\qb", "a\"b", "a\nb", "a\\", "a\\nb"}
StringOf(str) == malloc_stmt_node(str, "STRING_CONST")

Definitions == {
  malloc_list_node(
    S!function_def_specifier(S!SHORT_INT, Ptr(Fun(f, <<Par(S!INT, a), Par(S!INT, Arr(b, S!Num(2)))>>))),
    Block(<<S!decl(S!INT, <<c>>), S!return_statement(StringOf("text"))>>),
    "FUNCTION_DEF"),
  malloc_list_node(Fun(f, <<>>), Block(<<Do(a)>>), "FUNCTION_DEF"),
  malloc_list_node(Fun(f, <<>>), NULL, "FUNCTION_DEF")}

MCPrograms ==
  {File(<<Function(<<Do(e)>>)>>) : e \in Pairs \cup Unaries \cup Conditionals \cup Unprintable}
  \cup {File(<<Function(<<s>>)>>) : s \in Branches \cup Loops \cup EmptyOnes}
  \cup {File(<<S!decl(t, <<a>>)>>) : t \in Types}
  \cup {File(<<S!decl(S!INT, ds)>>) : ds \in DeclaratorLists}
  \cup {File(<<d>>) : d \in Definitions}
  \cup {File(<<Function(<<Do(S!function_call("f", <<StringOf(str), a>>))>>)>>) : str \in Strings}
  \cup {File(<<Function(<<Do(a), Do(b)>>), S!decl(S!INT, <<a>>), Function(<<>>)>>)}

(* The first is compiled before the parser sees the error.  A declaration  *)
(* in a for has a semicolon too many in yacc.y: that of C99 is refused.    *)
W(ws) == [k \in DOMAIN ws |-> IF ws[k] \in {"a", "b", "f"} THEN Token("IDENTIFIER", ws[k])
                        ELSE IF ws[k] = "@" THEN JUNK ELSE Token(ws[k], ws[k])]
MCOthers == {
  W(<<"int", "a", ";", ")">>), W(<<"int", "a", ";", "@", ")">>), W(<<"f", "(", ")", "{", "@", "}">>),
  W(<<"int", "f", "(", ")", "{", "a", "+", "b", "=", "a", ";", "}">>),
  W(<<"int", "f", "(", ")", "{", "if", "(", "a", ")", "else", "b", ";", "}">>),
  W(<<"f", "(", ")", "{", "for", "(", "int", "a", ";", "a", ";", ")", "b", ";", "}">>),
  W(<<"int", "a", "b", ";">>), W(<<"long", "char", "a", ";">>),
  W(<<"f", "(", ")", "{", "a", "?", "b", ";", "}">>), W(<<>>)}
=============================================================================
