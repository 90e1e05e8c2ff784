------------------------------- MODULE Parser -------------------------------
(***************************************************************************)
(* The parser that bison makes from the rules of Grammar: shift and reduce *)
(* with one token of look ahead.  A state of the automaton is named by the *)
(* rules it is in the midst of.  As bison's tables do, it reduces without  *)
(* a look at the next token where only one rule can be complete, and it    *)
(* shifts where it could do both.                                          *)
(***************************************************************************)
EXTENDS Grammar, FiniteSets

VARIABLES
  input,   (* The tokens left, the last one is END.                        *)
  stack,   (* What has been read: automaton states with semantic values.   *)
  tree,    (* What process_tree was called for, or NULL.                   *)
  status   (* "reading", "accepted" or "error".                            *)

parser_vars == <<input, stack, tree, status>>

END     == Token("$end", "$end")
(* A character that no token begins with.  The lexer returns -1 for it,    *)
(* and to the parser all tokens that are not positive are the end.         *)
JUNK    == Token("junk", "junk")
Last(s) == s[Len(s)]

(* What bison makes of the rules: which of them begin with a symbol, and   *)
(* the symbols that what is derived from a symbol can begin with.          *)
TablesOf(rules) ==
  LET symbols == Nonterminals \cup Terminals \cup {END.kind}
      Closed[S \in SUBSET symbols] ==
        LET more == S \cup {rules[r].rhs[1] : r \in {r \in DOMAIN rules : rules[r].lhs \in S}}
        IN IF more = S THEN S ELSE Closed[more]
  IN [rule      |-> rules,
      beginning |-> [X \in symbols |-> {r \in DOMAIN rules : rules[r].rhs[1] = X}],
      corners   |-> [X \in symbols |-> Closed[{X}]]]
Tables == TablesOf(Rules)  (* Always handed on as T: to evaluate it takes long. *)

(* An item <<r, d>>: the first d symbols of rule r have been read.         *)
Size(T, r)           == Len(T.rule[r].rhs)
Incomplete(T, items) == {i \in items : i[2] < Size(T, i[1])}
Complete(T, items)   == {i[1] : i \in items \ Incomplete(T, items)}
Awaited(T, i)        == T.rule[i[1]].rhs[i[2] + 1]

Goto(T, items, X) ==
  LET awaits(i) == Awaited(T, i)
      open == UNION {T.corners[awaits(i)] : i \in Incomplete(T, items)}
  IN {<<i[1], i[2] + 1>> : i \in {i \in Incomplete(T, items) : awaits(i) = X}}
     \cup {<<r, 1>> : r \in {r \in T.beginning[X] : T.rule[r].lhs \in open}}

(* The states after a reduction by rule r: it leaves those of its symbols. *)
Reduced(T, states, r) ==
  LET below == SubSeq(states, 1, Len(states) - Size(T, r))
  IN Append(below, Goto(T, Last(below), T.rule[r].lhs))

RECURSIVE CanRead(_, _, _)
CanRead(T, states, token) ==
  \/ Goto(T, Last(states), token) # {}
  \/ token = END.kind /\ START \in Complete(T, Last(states))
  \/ \E r \in Complete(T, Last(states)) \ {START} : CanRead(T, Reduced(T, states, r), token)

States    == [k \in DOMAIN stack |-> stack[k].items]
Items     == Last(stack).items
Lookahead == IF Head(input).kind = JUNK.kind THEN END.kind ELSE Head(input).kind
Shifts(T)   == Goto(T, Items, Lookahead) # {}
Done(T)     == Complete(T, Items) \ {START}
Readable(T) == {r \in Done(T) : CanRead(T, Reduced(T, States, r), Lookahead)}
(* Mutant: what follows the last definition is not looked at.              *)
AtEndOfUnit(T) == START \in Complete(T, Items)
AtEnd(T)    == START \in Complete(T, Items) /\ Lookahead = END.kind

Bottom == <<[items |-> {<<START, 0>>}, value |-> NULL]>>

ParserOK ==
  /\ status \in {"reading", "accepted", "error"}
  /\ input # <<>> /\ Last(input) = END
  /\ \A k \in DOMAIN stack : stack[k].items # {}

StartParser(text) ==
  /\ input = Append(text, END)
  /\ stack = Bottom
  /\ tree = NULL
  /\ status = "reading"

-----------------------------------------------------------------------------

Shift(T) ==
  /\ status = "reading"
  /\ Shifts(T)
  /\ stack' = Append(stack, [items |-> Goto(T, Items, Lookahead), value |-> Head(input).value])
  /\ input' = Tail(input)
  /\ UNCHANGED <<tree, status>>

(* To shift comes first.  A rule that is the only one complete is reduced  *)
(* by without a look at the token.                                         *)
MayReduce(T, r) == ~Shifts(T) /\ (Cardinality(Done(T)) > 1 => r \in Readable(T))

(* The value of the new top of the stack comes from the rule's action.     *)
Reduce(T) ==
  /\ status = "reading"
  /\ \E r \in Done(T) :
       /\ MayReduce(T, r)
       /\ \E below \in {Len(stack) - Size(T, r)} :
          \E value \in {Value(T.rule[r].action, [k \in 1..Size(T, r) |-> stack[below + k].value])} :
            /\ stack' = Append(SubSeq(stack, 1, below),
                               [items |-> Last(Reduced(T, States, r)), value |-> value])
            /\ tree' = IF r = FILE THEN value ELSE tree
  /\ UNCHANGED <<input, status>>

Accept(T) ==
  /\ status = "reading"
  /\ AtEnd(T)
  /\ status' = "accepted"
  /\ UNCHANGED <<input, stack, tree>>

(* yyerror: there is no recovery, yyparse returns 1.                       *)
Reject(T) ==
  /\ status = "reading"
  /\ ~Shifts(T) /\ ~AtEnd(T)
  /\ \A r \in Done(T) : ~MayReduce(T, r)
  /\ status' = "error"
  /\ UNCHANGED <<input, stack, tree>>

Parse == \E T \in {Tables} : Shift(T) \/ Reduce(T) \/ Accept(T) \/ Reject(T)
=============================================================================
