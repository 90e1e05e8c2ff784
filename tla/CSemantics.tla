----------------------------- MODULE CSemantics -----------------------------
(***************************************************************************)
(* What a C program prints: the reference for the compiled one.  A big-    *)
(* step evaluator of the syntax tree for the part of C that the compiler   *)
(* generates code for, on int variables.  Variables are looked up by name  *)
(* in the scopes around them; the symbol tables play no part.              *)
(***************************************************************************)
EXTENDS Syntax, Bitwise, TLC

(***************************************************************************)
(* A state of the program: the globals, the scopes of the running function *)
(* (inmost last), what was printed, what is still to be read, and whether  *)
(* it runs, is returning or found nothing more to read.  value is the last *)
(* expression's or the one returned.                                       *)
(***************************************************************************)
Initial(globals, input) ==
  [globals |-> globals, scopes |-> <<>>, out |-> <<>>, in |-> input, status |-> "runs", value |-> 0]

Runs(s) == s.status = "runs"

(* The elements of a list rule's chain of nodes.                           *)
RECURSIVE Elements(_, _)
Elements(n, subtypes) ==
  IF n = NULL THEN <<>>
  ELSE IF n.subtype \in subtypes
       THEN Elements(n.left, subtypes) \o Elements(n.right, subtypes) ELSE <<n>>

NamesOf(declarators) == {declarators[k].string_data : k \in DOMAIN declarators}
Declares(n) == Elements(n.right, {"IDENTIFIER_LIST"})

(* Variables are identifiers, declarators of functions are not.            *)
Variables(n) ==
  {m \in {Declares(n)[k] : k \in DOMAIN Declares(n)} : m.type = "IDENTIFIER"}

Holds(s, k, name) == name \in DOMAIN s.scopes[k]
ScopesWith(s, name) == {k \in DOMAIN s.scopes : Holds(s, k, name)}
Inmost(S) == CHOOSE k \in S : \A j \in S : j <= k

Fetch(s, name) ==
  IF ScopesWith(s, name) = {} THEN s.globals[name] ELSE s.scopes[Inmost(ScopesWith(s, name))][name]

Assigned(s, name, v) ==
  IF ScopesWith(s, name) = {} THEN [s EXCEPT !.globals[name] = v]
  ELSE [s EXCEPT !.scopes[Inmost(ScopesWith(s, name))][name] = v]

Push(s) == [s EXCEPT !.scopes = Append(@, [x \in {} |-> 0])]
Pop(s)  == [s EXCEPT !.scopes = SubSeq(@, 1, Len(@) - 1)]

Bool(b)  == IF b THEN 1 ELSE 0
CQuotient(a, b) ==
  LET q == (IF a < 0 THEN -a ELSE a) \div (IF b < 0 THEN -b ELSE b)
  IN IF (a < 0) = (b < 0) THEN q ELSE -q

Apply(op, a, b) ==
  CASE op = "+" -> a + b            [] op = "-" -> a - b        [] op = "*" -> a * b
    [] op = "/" -> CQuotient(a, b)  [] op = "%" -> a - b * CQuotient(a, b)
    [] op = "&" -> a & b            [] op = "|" -> a | b
    [] op = "==" -> Bool(a = b)     [] op = "<" -> Bool(a < b)  [] op = "<=" -> Bool(a <= b)
    [] op = ">" -> Bool(a > b)      [] op = ">=" -> Bool(a >= b)

(* The functions of the run-time library.                                  *)
Library(s, f, args) ==
  CASE f = "read_int" ->
         IF s.in = <<>> THEN [s EXCEPT !.status = "waits"]
         ELSE [s EXCEPT !.value = Head(s.in), !.in = Tail(@)]
    [] f \in {"print_int", "print_char"} -> [s EXCEPT !.out = Append(@, <<f, args>>)]
    [] f \in {"print_factorial", "print_square", "print_fib"} ->
         [s EXCEPT !.out = Append(@, <<f, <<args[2], args[1]>>>>)]

Definitions(unit) ==
  LET items == Elements(unit, {"FILESCOPE", "TOPLEVEL"})
  IN {items[k] : k \in {j \in DOMAIN items : items[j].subtype = "FUNCTION_DEF"}}
Declarator(def) == def.left.right
ParametersOf(def) ==
  LET params == Elements(Declarator(def).right, {"PARAM_LIST"})
      named  == SelectSeq(params, LAMBDA p : p.right # NULL)
  IN [k \in DOMAIN named |-> named[k].right.string_data]

(* A value that is assigned is evaluated first; logical operators stop     *)
(* when the left operand decides.                                          *)
RECURSIVE Eval(_, _, _), EvalAll(_, _, _), CallC(_, _, _, _), Exec(_, _, _), ExecAll(_, _, _),
          Loop(_, _, _, _, _)

EvalAll(unit, es, s) ==     \* es a sequence; value becomes the sequence of values
  IF es = <<>> THEN [s EXCEPT !.value = <<>>]
  ELSE LET first == Eval(unit, Head(es), s)
           rest  == EvalAll(unit, Tail(es), first)
       IN IF ~Runs(first) THEN first ELSE IF ~Runs(rest) THEN rest
          ELSE [rest EXCEPT !.value = <<first.value>> \o @]

Eval(unit, e, s) ==
  CASE e.type = "NUMBER"     -> [s EXCEPT !.value = e.const_value]
    [] e.type = "IDENTIFIER" -> [s EXCEPT !.value = Fetch(s, e.string_data)]
    [] e.subtype = "FUNCTION_CALL" ->
         LET items == Elements(e.right, {"EXPR_LIST"})
             args  == EvalAll(unit, [k \in DOMAIN items |-> items[k].left], s)
         IN IF Runs(args) THEN CallC(unit, e.left.string_data, args.value, args) ELSE args
    [] e.type = "BINARY_OP" /\ e.string_data = "=" ->
         LET right == Eval(unit, e.right, s)
         IN IF Runs(right) THEN Assigned(right, e.left.string_data, right.value) ELSE right
    [] e.type = "BINARY_OP" /\ e.string_data \in {"&&", "||"} ->
         LET left    == Eval(unit, e.left, s)
             decided == (left.value # 0) = (e.string_data = "||")
             right   == Eval(unit, e.right, left)
         IN IF ~Runs(left) THEN left
            ELSE IF decided THEN [left EXCEPT !.value = Bool(@ # 0)]
            ELSE [right EXCEPT !.value = Bool(@ # 0)]
    [] e.type = "UNARY_OP" ->
         LET name == IF e.left = NULL THEN e.right.string_data ELSE e.left.string_data
             old  == Fetch(s, name)
             new  == IF e.string_data = "++" THEN old + 1 ELSE old - 1
         IN [Assigned(s, name, new) EXCEPT !.value = IF e.left = NULL THEN new ELSE old]
    [] OTHER ->
         LET both == EvalAll(unit, <<e.left, e.right>>, s)
         IN IF Runs(both) THEN [both EXCEPT !.value = Apply(e.string_data, both.value[1], both.value[2])]
            ELSE both

(* The callee sees its parameters and the globals.                         *)
CallC(unit, f, args, s) ==
  LET defs == {d \in Definitions(unit) : Declarator(d).left.string_data = f}
      def  == CHOOSE d \in defs : TRUE
      names == ParametersOf(def)
      scope == [n \in {names[k] : k \in DOMAIN names} |->
                  args[CHOOSE k \in DOMAIN names : names[k] = n]]
      done == ExecAll(unit, Elements(def.right.left, {"DECL_LIST"}), [s EXCEPT !.scopes = <<scope>>])
  IN IF defs = {} THEN Library(s, f, args)
     ELSE [done EXCEPT !.scopes = s.scopes, !.status = IF @ = "returns" THEN "runs" ELSE @]

ExecAll(unit, items, s) ==
  IF items = <<>> \/ ~Runs(s) THEN s
  ELSE ExecAll(unit, Tail(items), Exec(unit, Head(items), s))

IfElse(unit, test, s, then, else) ==
  LET t == Eval(unit, test, s)
  IN IF ~Runs(t) THEN t ELSE Exec(unit, IF t.value # 0 THEN then ELSE else, t)

Loop(unit, test, body, step, s) ==
  LET t    == IF test.type = "NULL_STMT" THEN [s EXCEPT !.value = 1] ELSE Eval(unit, test, s)
      once == Exec(unit, body, t)
      next == IF step.type = "NULL_STMT" THEN once ELSE Eval(unit, step, once)
  IN IF ~Runs(t) \/ t.value = 0 THEN t
     ELSE IF ~Runs(once) THEN once ELSE IF ~Runs(next) THEN next
     ELSE Loop(unit, test, body, step, next)

Exec(unit, n, s) ==
  CASE n = NULL -> s
    [] n.type = "EXPR_STMT" /\ n.left.string_data # "return" -> Eval(unit, n.left, s)
    [] n.type = "EXPR_STMT" /\ n.left.string_data = "return" ->
         LET v == IF n.right = NULL THEN s ELSE Eval(unit, n.right, s)
         IN IF Runs(v) THEN [v EXCEPT !.status = "returns"] ELSE v
    [] n.subtype = "DECL" ->
         LET scope == [name \in {m.string_data : m \in Variables(n)} |-> 0]
         IN [s EXCEPT !.scopes[Len(s.scopes)] = scope @@ @]
    [] n.subtype = "LIST_BLOCK" -> Pop(ExecAll(unit, Elements(n.left, {"DECL_LIST"}), Push(s)))
    [] n.subtype = "IF_STMT" -> IfElse(unit, n.left, s, n.right, NULL)
    [] n.subtype = "IF_ELSE_STMT" -> IfElse(unit, n.left.left, s, n.left.right, n.right.left)
    [] n.subtype = "WHILE_STMT" -> Loop(unit, n.left, n.right, malloc_null_node, s)
    [] n.subtype = "FOR_STMT" ->
         LET clauses == n.left
             start == IF clauses.left.type = "NULL_STMT" THEN s ELSE Eval(unit, clauses.left, s)
         IN IF Runs(start) THEN Loop(unit, clauses.right.left, n.right, clauses.right.right.left, start)
            ELSE start

(* What the program prints when the numbers in input are typed.            *)
Output(unit, input) ==
  LET items == Elements(unit, {"FILESCOPE", "TOPLEVEL"})
      decls == {items[k] : k \in {j \in DOMAIN items : items[j].subtype = "DECL"}}
      globals == [name \in UNION {{m.string_data : m \in Variables(d)} : d \in decls} |-> 0]
  IN CallC(unit, "main", <<>>, Initial(globals, input)).out
=============================================================================
