----------------------------- MODULE MCCompiler -----------------------------
(***************************************************************************)
(* The compiler and the compiled program on whole programs: one is test.c  *)
(* of the repository, the others use what it lists (calls, globals and     *)
(* locals, boolean logic, loops, conditionals, recursion) in other ways.   *)
(***************************************************************************)
EXTENDS Compiler, Syntax

a == Var("a")
b == Var("b")
x == Var("x")
y == Var("y")
g == Var("globalint")

NOTHING      == <<parameter_decl(VOID, NULL)>>
Param(d)     == parameter_decl(INT, d)
Define(type, f, ps, items) ==
  function_definition(function_def_specifier(type, function_declarator(Var(f), ps)),
                      compound_statement(items))
Prototype(type, f, ps) == decl(type, <<function_declarator(Var(f), ps)>>)
Block(items)  == compound_statement(items)
Do(e)         == expression_statement(e)
Set(v, e)     == Do(assignment_expr(v, e))
Call(f, args) == function_call(f, args)
Return(e)     == return_statement(e)
Plus(v, w)    == additive_expr("+", v, w)
Minus(v, w)   == additive_expr("-", v, w)
Times(v, w)   == multiplicative_expr("*", v, w)
Over(v, w)    == multiplicative_expr("/", v, w)
Is(v, k)      == equality_expr("==", v, Num(k))
Less(v, w)    == relational_expr("<", v, w)
Main(items)   == Define(VOID, "main", NOTHING, items)

-----------------------------------------------------------------------------
(* test.c                                                                  *)

Library(print_int_parameter) ==
  <<Prototype(INT, "read_int", NOTHING),
    Prototype(VOID, "print_int", <<Param(print_int_parameter)>>),
    Prototype(VOID, "print_factorial", <<Param(a), Param(b)>>),
    Prototype(VOID, "print_square", <<Param(a), Param(b)>>),
    Prototype(VOID, "print_fib", <<Param(a), Param(b)>>),
    decl(INT, <<g>>),
    decl(SHORT, <<Var("globalshort")>>),
    decl(CHAR, <<array_declarator(Var("globalchar"), Num(6))>>),
    decl(UNSIGNED_LONG_INT, <<Var("globalusl")>>)>>

factorial ==
  Define(INT, "factorial", <<Param(a)>>,
    <<if_else_statement(logical_or_expr(Is(a, 1), Is(a, 0)),
        Return(Num(1)),
        Block(<<decl(INT, <<Var("rv")>>),
                Set(Var("rv"), Times(a, Call("factorial", <<Minus(a, Num(1))>>))),
                Return(Var("rv"))>>))>>)

fibonacci ==
  Define(INT, "fibonacci", <<Param(a)>>,
    <<if_else_statement(Is(a, 0), Return(Num(0)),
        if_else_statement(Is(a, 1), Return(Num(1)),
          Block(<<decl(INT, <<x, y>>),
                  Set(x, Call("fibonacci", <<Minus(a, Num(1))>>)),
                  Set(y, Call("fibonacci", <<Minus(a, Num(2))>>)),
                  Set(a, Plus(x, y)),
                  Return(a)>>)))>>)

square == Define(INT, "square", <<Param(a)>>, <<Set(a, Times(a, a)), Return(a)>>)

(* input + output * 1 & 2 | 3 + 4 / 5 * 6                                  *)
lengthy ==
  bitwise_or_expr(bitwise_and_expr(Plus(x, Times(y, Num(1))), Num(2)),
                  Plus(Num(3), Times(Over(Num(4), Num(5)), Num(6))))

TestProgram(print_int_parameter) ==
  translation_unit(Library(print_int_parameter) \o <<factorial, fibonacci, square,
    Main(<<decl(INT, <<x, y>>),
           Set(x, Num(10)), Set(y, Num(5)),
           Set(g, lengthy),
           Do(Call("print_int", <<g>>)),
           while_statement(Num(1), Block(<<
             Set(x, Call("read_int", <<>>)),
             Set(y, Call("factorial", <<x>>)), Do(Call("print_factorial", <<y, x>>)),
             Set(y, Call("square", <<x>>)),    Do(Call("print_square", <<y, x>>)),
             Set(y, Call("fibonacci", <<x>>)), Do(Call("print_fib", <<y, x>>))>>)),
           Return(NULL)>>)>>)

-----------------------------------------------------------------------------

(* A call of two arguments, a loop with a block of its own that hides a    *)
(* variable, a for loop without clauses, a call as a test.                 *)
Loops ==
  translation_unit(Library(a) \o <<
    Define(INT, "sum", <<Param(a), Param(b)>>,
      <<decl(INT, <<x>>), Set(x, Num(0)),
        while_statement(logical_and_expr(Less(a, b), Less(x, Num(9))),
          Block(<<decl(INT, <<y>>), Set(y, Plus(a, a)), Set(x, Plus(x, y)),
                  Set(a, Plus(a, Num(1)))>>)),
        Set(g, Plus(g, x)), Return(x)>>),
    Main(<<decl(INT, <<x, y>>),
           Set(x, Call("read_int", <<>>)),
           for_statement(for_expr(assignment_expr(y, Num(0)), Less(y, Num(2)),
                                  assignment_expr(y, Plus(y, Num(1)))),
             Block(<<decl(INT, <<g>>), Set(g, Call("sum", <<y, x>>)),
                     Do(Call("print_int", <<g>>))>>)),
           Do(Call("print_square", <<Minus(g, y), multiplicative_expr("%", g, Num(4))>>)),
           for_statement(for_expr(malloc_null_node, x, malloc_null_node),
             Set(x, Num(0))),
           while_statement(Call("read_int", <<>>), Do(Call("print_int", <<x>>))),
           Return(NULL)>>)>>)

(* A function without a value, tests of every kind, and increments whose   *)
(* value nobody reads.                                                     *)
Tests ==
  translation_unit(Library(a) \o <<Prototype(VOID, "print_char", <<Param(a)>>),
    Define(VOID, "show", <<Param(a), Param(b)>>,
      <<if_statement(logical_and_expr(relational_expr(">=", a, b), relational_expr("<=", Num(2), a)),
          Set(g, Minus(Num(7), Times(b, a)))),
        if_else_statement(relational_expr(">", b, a), Do(Call("print_char", <<b>>)),
                                                      Do(Call("print_char", <<a>>))),
        Block(<<decl(INT, <<a>>), Set(a, logical_or_expr(Is(b, 0), Less(b, Num(3)))),
                Do(Call("print_int", <<a>>))>>),
        Do(postincrement_expr(a)), Do(predecrement_expr(b)),
        Return(NULL)>>),
    Main(<<decl(INT, <<x>>), Set(x, Call("read_int", <<>>)), Set(g, Call("read_int", <<>>)),
           Do(Call("show", <<x, g>>)), Do(Call("show", <<Over(g, Num(2)), x>>)),
           Do(Call("print_int", <<g>>)), Return(NULL)>>)>>)

(* A recursion with three parameters that change places at each call, and  *)
(* an operand that is computed before the call and used after it.          *)
Recursion ==
  translation_unit(Library(a) \o <<
    Define(INT, "mix", <<Param(a), Param(b), Param(x)>>,
      <<if_else_statement(Is(a, 0), Return(b),
          Block(<<decl(INT, <<y>>),
                  Set(y, Plus(Times(Num(3), x),
                              Call("mix", <<Minus(a, Num(1)), x, Minus(b, a)>>))),
                  Set(g, Minus(Times(g, Num(2)), b)),
                  Return(y)>>))>>),
    Main(<<decl(INT, <<x, y>>), Set(x, Call("read_int", <<>>)), Set(y, Call("read_int", <<>>)),
           Set(y, Minus(Call("mix", <<x, y, Num(5)>>), y)),
           Do(Call("print_square", <<y, g>>)), Return(NULL)>>)>>)

MCPrograms == {TestProgram(a), Loops, Tests, Recursion}

-----------------------------------------------------------------------------
(* Programs for the runs that show a disagreement.                         *)

AsWritten == {TestProgram(NULL)}

(* x is negative, which C takes for true.                                  *)
Negative ==
  {translation_unit(Library(a) \o <<
     Main(<<decl(INT, <<x>>), Set(x, Minus(Num(0), Num(1))),
            Do(Call("print_int", <<logical_and_expr(x, Num(1))>>)), Return(NULL)>>)>>)}
=============================================================================
