------------------------------- MODULE IrGen --------------------------------
(***************************************************************************)
(* Generation of the IR list from the syntax tree (irnode.c).  build_ir    *)
(* and generate_ir_node are recursive C functions; here the C stack is     *)
(* explicit: todo holds what is left to do, the next thing first, and vals *)
(* the register numbers that generate_ir_node returned and whose caller    *)
(* has not used yet.  A node's children are visited exactly as the C code  *)
(* does: left, the switch on the subtype, the expression, then right, also *)
(* where the switch has visited a child already; what keeps a node from    *)
(* being generated twice is its visited flag.                              *)
(***************************************************************************)
EXTENDS Ir, Syntax

CONSTANT
  Programs  (* The syntax trees that may be compiled.                      *)

VARIABLES
  tree,         (* The program being compiled.                             *)
  todo,         (* The work left, a stack.                                 *)
  vals,         (* The returned register numbers, a stack.                 *)
  visited,      (* The paths of the nodes whose visited flag is set.       *)
  else_label,   (* The label kept in the string_data of an ELSE node.      *)
  irlist,       (* The list made so far.                                   *)
  registernum,  (* The next temporary.                                     *)
  labelnum,     (* The serial number of the next label.                    *)
  crashed       (* find_ir_node's NULL was dereferenced.                   *)

vars == <<tree, todo, vals, visited, else_label, irlist, registernum, labelnum, crashed>>
counters == <<registernum, labelnum>>

At(n)     == NodeAt(tree, n)
IsNull(n) == At(n) = NULL

(* A label is a name and a serial number; that of a function has none.     *)
NOSERIAL == -1
new_label(name, k) == <<name, labelnum + k>>
func_label(f)      == <<f, NOSERIAL>>

LabelNode(n, l) == IrNode(n, "LABEL", Lab(l), NoOperand, NoOperand)
JumpNode(n, l)  == IrNode(n, "J", Lab(l), NoOperand, NoOperand)
LoadNode(n, t, v) == IrNode(n, "LI", Reg(t), Imm(v), NoOperand)

(***************************************************************************)
(* The things to do.                                                       *)
(***************************************************************************)
Build(n)    == [do |-> "build", n |-> n]                   \* build_ir(n)
Switch(n)   == [do |-> "switch", n |-> n]                  \* its switch
Generate(n, v) == [do |-> "generate", n |-> n, v |-> v]    \* generate_ir_node(n, v)
Drop        == [do |-> "drop"]                             \* its value is not used
Emit(irn)   == [do |-> "emit", irn |-> irn]                \* append a known node
Branch(n, op, l) == [do |-> "branch", n |-> n, op |-> op, label |-> l]
ForTest(n)  == [do |-> "fortest", n |-> n]
ElseJump(n) == [do |-> "elsejump", n |-> n]
ElseEnd(n)  == [do |-> "elseend", n |-> n]
Store(n)    == [do |-> "store", n |-> n]
Operate(n, op)    == [do |-> "operate", n |-> n, op |-> op]
Increment(n, by)  == [do |-> "increment", n |-> n, by |-> by]
Truth(n, first, v, second, done) ==
  [do |-> "truth", n |-> n, first |-> first, v |-> v, second |-> second, done |-> done]
Return(n)   == [do |-> "return", n |-> n]
Param(n)    == [do |-> "param", n |-> n]                   \* the end of generate_ir_node

Next1     == Head(todo)
Doing(d)  == todo # <<>> /\ Next1.do = d
Then(new) == todo' = new \o Tail(todo)

Append_ir_nodes(irns) == irlist' = irlist \o irns

(* The topmost value on vals and the one below it.                         *)
Top    == vals[Len(vals)]
Second == vals[Len(vals) - 1]
Drop1  == SubSeq(vals, 1, Len(vals) - 1)
Drop2  == SubSeq(vals, 1, Len(vals) - 2)

TypeOK ==
  /\ tree.subtype = "FILESCOPE"
  /\ \A i \in 1..Len(vals) : vals[i] \in Special \cup {0} \cup 0..(registernum - 1)
  /\ \A n \in visited : ~IsNull(n)
  /\ \A n \in DOMAIN else_label : At(n).subtype = "ELSE_STMT"
  /\ registernum \in Nat
  /\ labelnum \in Nat
  /\ crashed \in BOOLEAN

Start ==
  /\ todo = <<Build(<<>>)>>
  /\ vals = <<>>
  /\ visited = {}
  /\ else_label = [n \in {} |-> <<>>]
  /\ irlist = <<>>
  /\ registernum = 0
  /\ labelnum = 0
  /\ crashed = FALSE

Init == tree \in Programs /\ Start

-----------------------------------------------------------------------------
(* build_ir                                                                *)

(* Mutant: a clause left out of a for is noticed, a missing child is not.  *)
BuildNullClause ==
  /\ Doing("build")
  /\ At(Next1.n).type = "NULL_STMT"
  /\ Then(<<>>)
  /\ UNCHANGED <<tree, vals, visited, else_label, irlist, counters, crashed>>

BuildNull ==
  /\ Doing("build")
  /\ IsNull(Next1.n)
  /\ Then(<<>>)
  /\ UNCHANGED <<tree, vals, visited, else_label, irlist, counters, crashed>>

EosNode(n) == IrNode(n, "EOS", NoOperand, NoOperand, NoOperand)

BuildNode ==
  /\ Doing("build")
  /\ ~IsNull(Next1.n)
  /\ LET n == Next1.n
         expr == IF At(n).type = "EXPR_STMT" \/ At(n).subtype = "EXPR_ITEM"
                 THEN <<Generate(Left(n), "R_VALUE"), Drop>> ELSE <<>>
         eos  == IF At(n).type = "EXPR_STMT" THEN <<Emit(EosNode(n))>> ELSE <<>>
     IN Then(<<Build(Left(n)), Switch(n)>> \o expr \o <<Build(Right(n))>> \o eos)
  /\ UNCHANGED <<tree, vals, visited, else_label, irlist, counters, crashed>>

SwitchFunctionSpec ==
  /\ Doing("switch")
  /\ At(Next1.n).subtype = "FUNCTION_SPEC"
  /\ LET n == Next1.n
         f == At(n).right.left.string_data
     IN Append_ir_nodes(<<LabelNode(n, func_label(f)),
                          IrNode(n, "FUNCTIONSTART", Ptr(f), NoOperand, NoOperand)>>)
  /\ Then(<<>>)
  /\ UNCHANGED <<tree, vals, visited, else_label, counters, crashed>>

(* Mutant: an if reached again is generated again.                         *)
SwitchIfAgain ==
  /\ Doing("switch")
  /\ At(Next1.n).subtype = "IF_STMT"
  /\ LET n   == Next1.n
         end == new_label("endif", 0)
         els == IF At(Parent(n)).subtype = "IF_ELSE_STMT" THEN <<ElseJump(n)>> ELSE <<>>
     IN /\ visited' = visited \cup {n}
        /\ Then(<<Generate(Left(n), "R_VALUE"), Branch(n, "BLEZ", end), Build(Right(n))>>
                \o els \o <<Emit(LabelNode(n, end))>>)
  /\ labelnum' = labelnum + 1
  /\ UNCHANGED <<tree, vals, else_label, irlist, registernum, crashed>>

SwitchIf ==
  /\ Doing("switch")
  /\ At(Next1.n).subtype = "IF_STMT"
  /\ Next1.n \notin visited
  /\ LET n   == Next1.n
         end == new_label("endif", 0)
         els == IF At(Parent(n)).subtype = "IF_ELSE_STMT" THEN <<ElseJump(n)>> ELSE <<>>
     IN /\ visited' = visited \cup {n}
        /\ Then(<<Generate(Left(n), "R_VALUE"), Branch(n, "BLEZ", end), Build(Right(n))>>
                \o els \o <<Emit(LabelNode(n, end))>>)
  /\ labelnum' = labelnum + 1
  /\ UNCHANGED <<tree, vals, else_label, irlist, registernum, crashed>>

(* The label of the jump over the else part is left in the ELSE node.      *)
DoElseJump ==
  /\ Doing("elsejump")
  /\ LET n    == Next1.n
         els  == Right(Parent(n))
         skip == new_label("endelse", 0)
     IN /\ else_label' = [m \in DOMAIN else_label \cup {els} |->
                            IF m = els THEN skip ELSE else_label[m]]
        /\ Append_ir_nodes(<<JumpNode(n, skip)>>)
  /\ labelnum' = labelnum + 1
  /\ Then(<<>>)
  /\ UNCHANGED <<tree, vals, visited, registernum, crashed>>

SwitchElse ==
  /\ Doing("switch")
  /\ At(Next1.n).subtype = "ELSE_STMT"
  /\ Next1.n \notin visited
  /\ visited' = visited \cup {Next1.n}
  /\ Then(<<Build(Left(Next1.n)), ElseEnd(Next1.n)>>)
  /\ UNCHANGED <<tree, vals, else_label, irlist, counters, crashed>>

DoElseEnd ==
  /\ Doing("elseend")
  /\ Append_ir_nodes(<<LabelNode(Next1.n, else_label[Next1.n])>>)
  /\ Then(<<>>)
  /\ UNCHANGED <<tree, vals, visited, else_label, counters, crashed>>

(* A loop has no visited check: the switch runs each time it is reached.   *)
SwitchWhile ==
  /\ Doing("switch")
  /\ At(Next1.n).subtype = "WHILE_STMT"
  /\ LET n    == Next1.n
         test == new_label("while_test", 0)
         end  == new_label("while_end", 1)
     IN /\ Append_ir_nodes(<<LabelNode(n, test)>>)
        /\ Then(<<Generate(Left(n), "R_VALUE"), Branch(n, "BLEZ", end), Build(Right(n)),
                  Emit(JumpNode(n, test)), Emit(LabelNode(n, end))>>)
  /\ labelnum' = labelnum + 2
  /\ UNCHANGED <<tree, vals, visited, else_label, registernum, crashed>>

Clause(n)     == <<Generate(Left(n), "R_VALUE"), Drop>>
OptClause(n)  == IF At(Left(n)).type = "NULL_STMT" THEN <<>> ELSE Clause(n)

SwitchFor ==
  /\ Doing("switch")
  /\ At(Next1.n).subtype = "FOR_STMT"
  /\ Then(OptClause(Left(Next1.n)) \o <<ForTest(Next1.n)>>)
  /\ UNCHANGED <<tree, vals, visited, else_label, irlist, counters, crashed>>

(* A missing test branches on $0 > 0, which is never.                      *)
DoForTest ==
  /\ Doing("fortest")
  /\ LET n     == Next1.n
         test  == new_label("for_test", 0)
         end   == new_label("for_end", 1)
         cond  == Left(Right(Left(n)))
         check == IF At(cond).type # "NULL_STMT"
                  THEN <<Generate(cond, "R_VALUE"), Branch(n, "BLEZ", end)>>
                  ELSE <<Emit(IrNode(n, "BGZ", Reg(REGISTERZERO), Lab(end), NoOperand))>>
     IN /\ Append_ir_nodes(<<LabelNode(n, test)>>)
        /\ Then(check \o <<Build(Right(n))>> \o OptClause(Right(Right(Left(n))))
                \o <<Emit(JumpNode(n, test)), Emit(LabelNode(n, end))>>)
  /\ labelnum' = labelnum + 2
  /\ UNCHANGED <<tree, vals, visited, else_label, registernum, crashed>>

(* Any other subtype, and an if or else whose visited flag is set.         *)
SwitchOther ==
  /\ Doing("switch")
  /\ LET sub == At(Next1.n).subtype
     IN /\ sub \notin {"FUNCTION_SPEC", "WHILE_STMT", "FOR_STMT"}
        /\ sub \in {"IF_STMT", "ELSE_STMT"} => Next1.n \in visited
  /\ Then(<<>>)
  /\ UNCHANGED <<tree, vals, visited, else_label, irlist, counters, crashed>>

(* Mutant: the temporaries are numbered anew in each statement.            *)
DoEmitReset ==
  /\ Doing("emit")
  /\ Append_ir_nodes(<<Next1.irn>>)
  /\ Then(<<>>)
  /\ registernum' = IF Next1.irn.opcode = "EOS" THEN 0 ELSE registernum
  /\ UNCHANGED <<tree, vals, visited, else_label, labelnum, crashed>>

DoEmit ==
  /\ Doing("emit")
  /\ Append_ir_nodes(<<Next1.irn>>)
  /\ Then(<<>>)
  /\ UNCHANGED <<tree, vals, visited, else_label, counters, crashed>>

DoDrop ==
  /\ Doing("drop")
  /\ vals' = Drop1
  /\ Then(<<>>)
  /\ UNCHANGED <<tree, visited, else_label, irlist, counters, crashed>>

DoBranch ==
  /\ Doing("branch")
  /\ Append_ir_nodes(<<IrNode(Next1.n, Next1.op, Reg(Top), Lab(Next1.label), NoOperand)>>)
  /\ vals' = Drop1
  /\ Then(<<>>)
  /\ UNCHANGED <<tree, visited, else_label, counters, crashed>>

-----------------------------------------------------------------------------
(* generate_ir_node                                                        *)

GenerateVisited ==
  /\ Doing("generate")
  /\ IsNull(Next1.n) \/ Next1.n \in visited
  /\ vals' = Append(vals, NOREGISTER)
  /\ Then(<<>>)
  /\ UNCHANGED <<tree, visited, else_label, irlist, counters, crashed>>

(* Mutant: the flag is set but not looked at.                              *)
GeneratingAgain(type) ==
  /\ Doing("generate")
  /\ At(Next1.n).type = type
  /\ visited' = visited \cup {Next1.n}

(* The node at hand is generated now, for the first time.                  *)
Generating(type) ==
  /\ Doing("generate")
  /\ At(Next1.n).type = type
  /\ Next1.n \notin visited
  /\ visited' = visited \cup {Next1.n}

GenerateReturn ==
  /\ Generating("STMT")
  /\ At(Next1.n).string_data = "return"
  /\ Then(<<Generate(Right(Parent(Next1.n)), "L_VALUE"), Return(Next1.n), Param(Next1.n)>>)
  /\ UNCHANGED <<tree, vals, else_label, irlist, counters, crashed>>

(* find_ir_node(1, r): the last node whose first operand is the number r,  *)
(* whatever the type of that operand; a pointer or a label is no such      *)
(* number.                                                                 *)
Numeric == {"REGISTER", "IMMEDIATE", "NULL"}
Finds(r) ==
  {i \in 1..Len(irlist) : LET o == irlist[i].operand[1] IN o.type \in Numeric /\ o.data = r}
(* Mutant: the first such node.                                            *)
find_first_ir_node(r) == irlist[CHOOSE i \in Finds(r) : \A j \in Finds(r) : i <= j]
find_ir_node(r) == irlist[CHOOSE i \in Finds(r) : \A j \in Finds(r) : j <= i]

(* A value that was loaded as an immediate is moved to $v0; any other is   *)
(* taken for an address.  The caller of the return drops what it returns.  *)
ReturnNodes(n, r) ==
  LET jr == <<IrNode(n, "JR", Reg(REGISTERRA), NoOperand, NoOperand)>>
      op == IF find_ir_node(r).operand[2].type = "IMMEDIATE" THEN "MOVE" ELSE "LIW"
  IN IF r < 0 THEN jr
     ELSE <<IrNode(n, op, Reg(REGISTERV0), Reg(r), NoOperand)>> \o jr

DoReturn ==
  /\ Doing("return")
  /\ Top >= 0 => Finds(Top) # {}
  /\ Append_ir_nodes(ReturnNodes(Next1.n, Top))
  /\ vals' = Append(Drop1, NOREGISTER)
  /\ Then(<<>>)
  /\ UNCHANGED <<tree, visited, else_label, counters, crashed>>

(* find_ir_node returns NULL and its operand2_type is read.                *)
CrashInReturn ==
  /\ Doing("return")
  /\ Top >= 0 /\ Finds(Top) = {}
  /\ crashed' = TRUE
  /\ todo' = <<>>
  /\ UNCHANGED <<tree, vals, visited, else_label, irlist, counters>>

GenerateCall ==
  /\ Generating("LIST")
  /\ At(Next1.n).subtype = "FUNCTION_CALL"
  /\ Append_ir_nodes(<<IrNode(Left(Next1.n), "FUNCTIONCALL", Ptr(At(Next1.n).left.string_data),
                              NoOperand, NoOperand)>>)
  /\ vals' = Append(vals, REGISTERV0)
  /\ Then(<<Param(Next1.n)>>)
  /\ UNCHANGED <<tree, else_label, counters, crashed>>

(* Any other list, a declaration for one: returnval is not initialised.    *)
Uninitialised == {NOREGISTER, 0}

GenerateList ==
  /\ Generating("LIST")
  /\ At(Next1.n).subtype # "FUNCTION_CALL"
  /\ \E r \in Uninitialised : vals' = Append(vals, r)
  /\ Then(<<Param(Next1.n)>>)
  /\ UNCHANGED <<tree, else_label, irlist, counters, crashed>>

(* Mutant: the temporary is not used up.                                   *)
GenerateNumberFree ==
  /\ Generating("NUMBER")
  /\ Append_ir_nodes(<<LoadNode(Next1.n, registernum, At(Next1.n).const_value)>>)
  /\ vals' = Append(vals, registernum)
  /\ Then(<<Param(Next1.n)>>)
  /\ UNCHANGED <<tree, else_label, counters, crashed>>

GenerateNumber ==
  /\ Generating("NUMBER")
  /\ Append_ir_nodes(<<LoadNode(Next1.n, registernum, At(Next1.n).const_value)>>)
  /\ registernum' = registernum + 1
  /\ vals' = Append(vals, registernum)
  /\ Then(<<Param(Next1.n)>>)
  /\ UNCHANGED <<tree, else_label, labelnum, crashed>>

(* The address, and for an R_VALUE the word it points to.                  *)
GenerateIdentifier ==
  /\ Generating("IDENTIFIER")
  /\ LET n  == Next1.n
         la  == IrNode(n, "LA", Reg(registernum), Ptr(At(n).string_data), NoOperand)
         liw == IrNode(n, "LIW", Reg(registernum + 1), Reg(registernum), NoOperand)
         made == IF Next1.v = "R_VALUE" THEN <<la, liw>> ELSE <<la>>
     IN /\ Append_ir_nodes(made)
        /\ registernum' = registernum + Len(made)
        /\ vals' = Append(vals, registernum + Len(made) - 1)
  /\ Then(<<Param(Next1.n)>>)
  /\ UNCHANGED <<tree, else_label, labelnum, crashed>>

GenerateUnary ==
  /\ Generating("UNARY_OP")
  /\ At(Next1.n).string_data \in {"++", "--"}
  /\ LET n == Next1.n
         operand == IF IsNull(Left(n)) THEN Right(n) ELSE Left(n)
         by == IF At(n).string_data = "++" THEN 1 ELSE -1
     IN Then(<<Generate(operand, "R_VALUE"), Increment(n, by), Param(n)>>)
  /\ UNCHANGED <<tree, vals, else_label, irlist, counters, crashed>>

(* The register is changed; nothing is stored.                             *)
DoIncrement ==
  /\ Doing("increment")
  /\ Append_ir_nodes(<<IrNode(Next1.n, "ADDI", Reg(Top), Reg(Top), Imm(Next1.by))>>)
  /\ vals' = Append(Drop1, registernum - 1)
  /\ Then(<<>>)
  /\ UNCHANGED <<tree, visited, else_label, counters, crashed>>

GenerateAssignment ==
  /\ Generating("BINARY_OP")
  /\ At(Next1.n).string_data = "="
  /\ LET n == Next1.n
     IN Then(<<Generate(Left(n), "L_VALUE"), Generate(Right(n), "R_VALUE"), Store(n), Param(n)>>)
  /\ UNCHANGED <<tree, vals, else_label, irlist, counters, crashed>>

DoStore ==
  /\ Doing("store")
  /\ Append_ir_nodes(<<IrNode(Next1.n, "SIW", Reg(Top), Reg(Second), NoOperand)>>)
  /\ vals' = Append(Drop2, 0)
  /\ Then(<<>>)
  /\ UNCHANGED <<tree, visited, else_label, counters, crashed>>

(* Both operands are tested; && branches away when the left one is false,  *)
(* || when it is true, and true means greater than zero.                   *)
GenerateLogical ==
  /\ Generating("BINARY_OP")
  /\ At(Next1.n).string_data \in {"&&", "||"}
  /\ LET n     == Next1.n
         isand == At(n).string_data = "&&"
         fail  == new_label(IF isand THEN "and_fail" ELSE "or_fail", 0)
         pass  == new_label(IF isand THEN "and_pass" ELSE "or_pass", 1)
         done  == new_label(IF isand THEN "and_done" ELSE "or_done", 2)
         lhs   == Generate(Left(n), "R_VALUE")
         rhs   == Generate(Right(n), "R_VALUE")
     IN Then((IF isand
              THEN <<lhs, Branch(n, "BLEZ", fail), rhs, Branch(n, "BGZ", pass),
                     Truth(n, fail, 0, pass, done)>>
              ELSE <<lhs, Branch(n, "BGZ", pass), rhs, Branch(n, "BLEZ", fail),
                     Truth(n, pass, 1, fail, done)>>)
             \o <<Param(n)>>)
  /\ labelnum' = labelnum + 3
  /\ UNCHANGED <<tree, vals, else_label, irlist, registernum, crashed>>

(* The two ends of a logical operator load its value in one temporary.     *)
DoTruth ==
  /\ Doing("truth")
  /\ LET t == Next1
     IN Append_ir_nodes(<<LabelNode(t.n, t.first), LoadNode(t.n, registernum, t.v),
                          JumpNode(t.n, t.done), LabelNode(t.n, t.second),
                          LoadNode(t.n, registernum, 1 - t.v), LabelNode(t.n, t.done)>>)
  /\ registernum' = registernum + 1
  /\ vals' = Append(vals, registernum)
  /\ Then(<<>>)
  /\ UNCHANGED <<tree, visited, else_label, labelnum, crashed>>

Operators == {"+", "-", "*", "/", "%", "==", "<", "<=", ">", ">=", "&", "|"}
Opcode(op) ==
  CASE op = "+" -> "ADD"   [] op = "-"  -> "SUB"    [] op = "*"  -> "MULT"
    [] op = "/" -> "DIV"   [] op = "%"  -> "MOD"    [] op = "==" -> "SEQ"
    [] op = "<" -> "SLT"   [] op = "<=" -> "SLTE"   [] op = ">"  -> "SGT"
    [] op = ">=" -> "SGTE" [] op = "&"  -> "BITAND" [] op = "|"  -> "BITOR"

GenerateOperator ==
  /\ Generating("BINARY_OP")
  /\ At(Next1.n).string_data \in Operators
  /\ LET n == Next1.n
     IN Then(<<Generate(Left(n), "R_VALUE"), Generate(Right(n), "R_VALUE"),
               Operate(n, Opcode(At(n).string_data)), Param(n)>>)
  /\ UNCHANGED <<tree, vals, else_label, irlist, counters, crashed>>

(* Mutant: the number returned is that of the next temporary.              *)
DoOperateNext ==
  /\ Doing("operate")
  /\ Append_ir_nodes(<<IrNode(Next1.n, Next1.op, Reg(registernum), Reg(Second), Reg(Top))>>)
  /\ registernum' = registernum + 1
  /\ vals' = Append(Drop2, registernum')
  /\ Then(<<>>)
  /\ UNCHANGED <<tree, visited, else_label, labelnum, crashed>>

DoOperate ==
  /\ Doing("operate")
  /\ Append_ir_nodes(<<IrNode(Next1.n, Next1.op, Reg(registernum), Reg(Second), Reg(Top))>>)
  /\ registernum' = registernum + 1
  /\ vals' = Append(Drop2, registernum)
  /\ Then(<<>>)
  /\ UNCHANGED <<tree, visited, else_label, labelnum, crashed>>

(* The last temporary is pushed if the expression is an argument, whatever *)
(* register the expression's own value is in.                              *)
IsArgument(n) ==
  is_below_subtype(tree, n, "FUNCTION_CALL") /\ At(Parent(n)).subtype = "EXPR_ITEM"

(* Mutant: the next temporary is pushed.                                   *)
DoParamNext ==
  /\ Doing("param")
  /\ Append_ir_nodes(IF IsArgument(Next1.n)
                     THEN <<IrNode(Next1.n, "PARAM", Reg(registernum), NoOperand, NoOperand)>>
                     ELSE <<>>)
  /\ Then(<<>>)
  /\ UNCHANGED <<tree, vals, visited, else_label, counters, crashed>>

DoParam ==
  /\ Doing("param")
  /\ Append_ir_nodes(IF IsArgument(Next1.n)
                     THEN <<IrNode(Next1.n, "PARAM", Reg(registernum - 1), NoOperand, NoOperand)>>
                     ELSE <<>>)
  /\ Then(<<>>)
  /\ UNCHANGED <<tree, vals, visited, else_label, counters, crashed>>

build_ir ==
  \/ BuildNull \/ BuildNode \/ SwitchFunctionSpec \/ SwitchIf \/ DoElseJump
  \/ SwitchElse \/ DoElseEnd \/ SwitchWhile \/ SwitchFor \/ DoForTest
  \/ SwitchOther \/ DoEmit \/ DoDrop \/ DoBranch

generate_ir_node ==
  \/ GenerateVisited \/ GenerateReturn \/ DoReturn \/ CrashInReturn
  \/ GenerateCall \/ GenerateList \/ GenerateNumber \/ GenerateIdentifier
  \/ GenerateUnary \/ DoIncrement \/ GenerateAssignment \/ DoStore
  \/ GenerateLogical \/ DoTruth \/ GenerateOperator \/ DoOperate \/ DoParam

Next == build_ir \/ generate_ir_node

Spec == Init /\ [][Next]_vars /\ WF_vars(Next)

-----------------------------------------------------------------------------
(* Properties of the finished list.                                        *)

Finished == todo = <<>> /\ ~crashed
Nodes    == 1..Len(irlist)

IsLabel(i) == irlist[i].opcode = "LABEL"
IsJump(i)  == irlist[i].opcode \in {"BLEZ", "BGZ", "J"}
Target(i)  == irlist[i].operand[IF irlist[i].opcode = "J" THEN 1 ELSE 2].data

(***************************************************************************)
(* A label is placed once, and a jump finds its label in its own function, *)
(* also where the body of a statement is visited a second time             *)
(* (irnode.c:294) and where new_label is called before the label is used.  *)
(***************************************************************************)
JumpsLand ==
  Finished =>
     /\ \A i, j \in Nodes :
          IsLabel(i) /\ IsLabel(j) /\ irlist[i].operand[1] = irlist[j].operand[1] => i = j
     /\ \A i \in Nodes : IsJump(i) =>
          \E j \in Nodes :
             /\ IsLabel(j) /\ irlist[j].operand[1].data = Target(i)
             /\ \A k \in Nodes : irlist[k].opcode = "FUNCTIONSTART" =>
                  ~(i < k /\ k < j) /\ ~(j < k /\ k < i)

(* The opcodes whose first operand is written, not read.                   *)
Writing == {"LI", "LA", "LIW", "MOVE"} \cup {Opcode(op) : op \in Operators}

Writes(i, t) == irlist[i].opcode \in Writing /\ irlist[i].operand[1] = Reg(t)
Reads(i, t) ==
  \E k \in 1..3 : irlist[i].operand[k] = Reg(t) /\ (k = 1 => irlist[i].opcode \notin Writing)

(***************************************************************************)
(* A node that reads a temporary follows a node of the same statement that *)
(* writes it, although the numbers are taken from registernum at different *)
(* points of the recursion (irnode.c:637, 656).                            *)
(***************************************************************************)
WrittenBeforeRead ==
  Finished =>
     \A t \in Temps(irlist) : \A i \in Nodes : Reads(i, t) =>
        \E w \in 1..(i - 1) : Writes(w, t) /\ \A e \in w..i : ~IsEos(irlist, e)

(***************************************************************************)
(* A temporary is written by one syntax-tree node only, and by a node of   *)
(* the list only once, but for the two loads of a logical operator.        *)
(***************************************************************************)
WrittenOnce ==
  Finished =>
     \A t \in Temps(irlist) : \A i, j \in Nodes :
        Writes(i, t) /\ Writes(j, t) /\ i # j =>
           /\ irlist[i].opnode = irlist[j].opnode
           /\ At(irlist[i].opnode).string_data \in {"&&", "||"}

(***************************************************************************)
(* What register allocation assumes of the list (RegAlloc!IrsAssumption):  *)
(* no temporary is used on both sides of an end of statement.              *)
(***************************************************************************)
ReadyToAllocate == Finished => EosHasNoRegister(irlist) /\ Confined(irlist)

(* The EXPR_ITEM nodes of a call's expression list, first argument first:  *)
(* the EXPR_LISTs are nested to the left.                                  *)
Items(n) ==
  LET Inner(k) == n \o [i \in 1..k |-> "L"]
      items[k \in Nat] ==
        IF At(Inner(k)).subtype = "EXPR_ITEM" THEN <<Inner(k)>>
        ELSE items[k + 1] \o <<Right(Inner(k))>>
  IN IF IsNull(n) THEN <<>> ELSE items[0]

Pushes(item) == {i \in Nodes : irlist[i].opcode = "PARAM" /\ irlist[i].opnode = Left(item)}

(* The node is part of the expression of a return statement.               *)
IsReturned(n) ==
  \E k \in 0..(Len(n) - 1) :
     LET m == SubSeq(n, 1, k)
     IN At(m).type = "EXPR_STMT" /\ At(Left(m)).string_data = "return"

(***************************************************************************)
(* Each argument of a call is pushed exactly once and before the call, the *)
(* first argument first, although build_ir reaches an argument through the *)
(* expression list, through the statement and through a second visit of an *)
(* enclosing body.  Calls in a return are left out: test.c:7 counts only   *)
(* constants, variables and nothing among the values that are returned.    *)
(***************************************************************************)
ArgumentsPushed ==
  Finished =>
     \A c \in Nodes : irlist[c].opcode = "FUNCTIONCALL" /\ ~IsReturned(irlist[c].opnode) =>
        LET items == Items(Right(Parent(irlist[c].opnode)))
        IN /\ \A a \in DOMAIN items : \E p \in 1..(c - 1) : Pushes(items[a]) = {p}
           /\ \A a, b \in DOMAIN items : a < b =>
                \A p \in Pushes(items[a]), q \in Pushes(items[b]) : p < q

(* The nodes whose first operand is $v0, and those of them that write it   *)
(* for a return; what the node i of these returns.                         *)
OnV0         == {i \in Nodes : irlist[i].operand[1] = Reg(REGISTERV0)}
ReturnValues == {i \in Nodes : Writes(i, REGISTERV0) /\ At(irlist[i].opnode).type = "STMT"}
Returned(i)  == At(Right(Parent(irlist[i].opnode)))

(***************************************************************************)
(* A constant is returned as itself and a variable from its address,       *)
(* although find_ir_node tells them apart by a number that an empty        *)
(* operand, or a register written before, may have too.  For a call, which *)
(* is a list, it looks for $v0, and the compiler reads NULL if no node     *)
(* before has $v0 as its first operand, as a return or a test of a call    *)
(* has: so it does at the first return of a call, and at no other return.  *)
(***************************************************************************)
ReturnsTellApart ==
  /\ \A i \in ReturnValues :
       /\ Returned(i).type = "NUMBER"     => irlist[i].opcode = "MOVE"
       /\ Returned(i).type = "IDENTIFIER" => irlist[i].opcode = "LIW"
       /\ Returned(i).type = "LIST"       => \E j \in OnV0 : j < i
  /\ crashed => /\ OnV0 = {}
                /\ \E c \in Nodes : irlist[c].opcode = "FUNCTIONCALL" /\ IsReturned(irlist[c].opnode)

(***************************************************************************)
(* A syntax-tree node is generated once: no two branches of the list come  *)
(* from the same test of the same node, as the comment at irnode.c:312     *)
(* says of the visited flag.                                               *)
(***************************************************************************)
GeneratedOnce ==
  \A i, j \in Nodes :
     /\ irlist[i].opnode = irlist[j].opnode
     /\ irlist[i].opcode = irlist[j].opcode
     /\ irlist[i].opcode \in {"BLEZ", "BGZ"}
     => i = j

(* The recursion comes to an end.                                          *)
Terminates == <>(todo = <<>>)

=============================================================================
