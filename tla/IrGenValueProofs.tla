-------------------------- MODULE IrGenValueProofs --------------------------
(***************************************************************************)
(* The registers of the lists that build_ir and generate_ir_node make.     *)
(* Whatever the program, a list writes each temporary in one place.        *)
(* In a program in plain style every register that it reads was written in *)
(* the same statement, and no temporary outlives its statement.  The first *)
(* invariant is about what is left to append; the second about the work    *)
(* that is left as a whole: run in order, its items find on vals what they *)
(* take off it.  The last part is about what a return finds in the list.   *)
(***************************************************************************)
EXTENDS IrGen, PlainStyle, SequenceTheorems, TLAPS


Logical(n) == At(n).string_data \in {"&&", "||"}

(* What the work that is left will append: the known nodes and branches    *)
(* write no temporary, and two loads are left to logical operators only.   *)
Clean(item) ==
  /\ item.do = "emit"   => item.irn.opcode \notin Writing
  /\ item.do = "branch" => item.op \notin Writing
  /\ item.do = "truth"  => Logical(item.n)

IsSequence(s) == \E S : s \in Seq(S)
AllClean(s)   == IsSequence(s) /\ \A k \in 1..Len(s) : Clean(s[k])

IsRegister(o, t) == o.type = "REGISTER" /\ o.data = t
Writer(irn, t)   == irn.opcode \in Writing /\ IsRegister(irn.operand[1], t)

(* Two nodes of a list that may both write t, in one statement.            *)
Twin(irn, jrn)  == irn.opnode = jrn.opnode /\ Logical(irn.opnode)
Twins(ir, i, j) == Twin(ir[i], ir[j]) /\ \A e \in i..j : ~IsEos(ir, e)

(* The temporaries that are written are numbered below registernum; they   *)
(* are all the numbers but $v0, which every return of a value writes.      *)
Inv ==
  /\ registernum \in Nat
  /\ IsSequence(irlist)
  /\ AllClean(todo)
  /\ \A i \in Nodes : \A t : Writer(irlist[i], t) /\ t # REGISTERV0 => t \in 0..(registernum - 1)
  /\ \A i, j \in Nodes : \A t :
       Writer(irlist[i], t) /\ Writer(irlist[j], t) /\ t # REGISTERV0 /\ i # j =>
         Twins(irlist, i, j)

(* The nodes irns that a step appends write new temporaries, each once.    *)
Fresh(irns) ==
  /\ IsSequence(irns)
  /\ \A i \in 1..Len(irns) : \A t :
       Writer(irns[i], t) /\ t # REGISTERV0 => t \in registernum..(registernum' - 1)
  /\ \A i, j \in 1..Len(irns) : \A t :
       Writer(irns[i], t) /\ Writer(irns[j], t) /\ t # REGISTERV0 /\ i # j =>
         Twins(irns, i, j)

-----------------------------------------------------------------------------
(* Sequences.                                                              *)

(* The elements of two sequences in one.                                   *)
LEMMA Concatenation ==
  ASSUME NEW s, IsSequence(s), NEW u, IsSequence(u)
  PROVE  /\ IsSequence(s \o u)
         /\ Len(s) \in Nat /\ Len(u) \in Nat /\ Len(s \o u) = Len(s) + Len(u)
         /\ \A i \in 1..Len(s) : (s \o u)[i] = s[i]
         /\ \A i \in 1..Len(u) : (s \o u)[Len(s) + i] = u[i]
<1>1. PICK S : s \in Seq(S)
      BY DEF IsSequence
<1>2. PICK U : u \in Seq(U)
      BY DEF IsSequence
<1>3. PICK W : W = S \cup U
      OBVIOUS
<1>4. s \in Seq(W) /\ u \in Seq(W)
      BY <1>1, <1>2, <1>3
<1>5. s \o u \in Seq(W)
      BY <1>4
<1>6. QED
      BY <1>4, <1>5 DEF IsSequence

(* A position in a concatenation lies in one of its parts.                 *)
LEMMA Split ==
  ASSUME NEW m \in Nat, NEW k \in Nat, NEW i \in 1..(m + k)
  PROVE  i \in 1..m \/ \E j \in 1..k : i = m + j
<1>1. CASE i <= m
      BY <1>1
<1>2. CASE i > m
      <2>1. i - m \in 1..k /\ i = m + (i - m)
            BY <1>2
      <2>2. QED
            BY <2>1
<1>3. QED
      BY <1>1, <1>2

(* The temporaries written before a step and in it.                        *)
LEMMA Interval ==
  ASSUME NEW r \in Nat, NEW q \in Nat, r <= q
  PROVE  0..(r - 1) \subseteq 0..(q - 1) /\ r..(q - 1) \subseteq 0..(q - 1)
OBVIOUS

(* Clean work followed by clean work is clean.                             *)
LEMMA CleanTogether ==
  ASSUME NEW s, AllClean(s), NEW u, AllClean(u)
  PROVE  AllClean(s \o u)
<1>1. PICK m : m = Len(s)
      OBVIOUS
<1>2. PICK k : k = Len(u)
      OBVIOUS
<1>3. /\ IsSequence(s \o u) /\ m \in Nat /\ k \in Nat
      /\ Len(s \o u) = m + k
      /\ \A i \in 1..m : (s \o u)[i] = s[i]
      /\ \A i \in 1..k : (s \o u)[m + i] = u[i]
      BY <1>1, <1>2, Concatenation DEF AllClean
<1>4. ASSUME NEW i \in 1..(m + k) PROVE Clean((s \o u)[i])
      <2>1. i \in 1..m \/ \E j \in 1..k : i = m + j
            BY <1>3, Split
      <2>2. CASE i \in 1..m
            BY <1>1, <1>3, <2>2 DEF AllClean
      <2>3. CASE \E j \in 1..k : i = m + j
            BY <1>2, <1>3, <2>3 DEF AllClean
      <2>4. QED
            BY <2>1, <2>2, <2>3
<1>5. QED
      BY <1>3, <1>4 DEF AllClean

(* What is left of clean work is clean.                                    *)
LEMMA CleanTail ==
  ASSUME NEW s, AllClean(s), s # <<>>
  PROVE  AllClean(Tail(s)) /\ Clean(Head(s))
<1>1. PICK S : s \in Seq(S)
      BY DEF AllClean, IsSequence
<1>2. /\ Tail(s) \in Seq(S) /\ Len(Tail(s)) = Len(s) - 1 /\ Len(s) \in Nat \ {0}
      /\ Head(s) = s[1]
      BY <1>1
<1>3. \A i \in 1..Len(Tail(s)) : Tail(s)[i] = s[i + 1] /\ i + 1 \in 1..Len(s)
      BY <1>1, <1>2
<1>4. QED
      BY <1>2, <1>3 DEF AllClean, IsSequence

-----------------------------------------------------------------------------
(* Opcodes.                                                                *)

(* These opcodes write no register, the others of an operator do.          *)
LEMMA NotWritten ==
  /\ \A op \in {"LABEL", "J", "EOS", "BLEZ", "BGZ", "FUNCTIONSTART", "FUNCTIONCALL", "PARAM",
                "SIW", "ADDI", "JR"} : op \notin Writing
<1>1. \A op \in Operators : Opcode(op) \in {"ADD", "SUB", "MULT", "DIV", "MOD", "SEQ", "SLT",
                                            "SLTE", "SGT", "SGTE", "BITAND", "BITOR"}
      BY DEF Operators, Opcode
<1>2. QED
      BY <1>1 DEF Writing

-----------------------------------------------------------------------------
(* Steps.                                                                  *)

(* The argument of all steps: old nodes write below registernum, the nodes *)
(* appended at or above it.                                                *)
LEMMA Extend ==
  ASSUME Inv, UNCHANGED tree, NEW irns, Fresh(irns), Append_ir_nodes(irns),
         registernum' \in Nat, registernum <= registernum', AllClean(todo')
  PROVE  Inv'
<1> USE DEF Inv
<1>1. PICK m : m = Len(irlist)
      OBVIOUS
<1>2. PICK k : k = Len(irns)
      OBVIOUS
<1>3. /\ IsSequence(irlist') /\ m \in Nat /\ k \in Nat /\ Len(irlist') = m + k
      /\ \A i \in 1..m : irlist'[i] = irlist[i]
      /\ \A i \in 1..k : irlist'[m + i] = irns[i]
      BY <1>1, <1>2, Concatenation DEF Append_ir_nodes, Fresh
<1>4. \A n : Logical(n)' = Logical(n)
      BY DEF Logical, At
<1>5. AllClean(todo)'
      BY <1>4 DEF AllClean, Clean
<1>6. \A i \in 1..(m + k) : i \in 1..m \/ \E j \in 1..k : i = m + j
      BY <1>3, Split
<1>7. \A i \in 1..m : \A t : Writer(irlist[i], t) /\ t # REGISTERV0 => t \in 0..(registernum - 1)
      BY <1>1 DEF Nodes
<1>8. \A i \in 1..k : \A t :
        Writer(irns[i], t) /\ t # REGISTERV0 => t \in registernum..(registernum' - 1)
      BY <1>2 DEF Fresh
<1>0. /\ 0..(registernum - 1) \subseteq 0..(registernum' - 1)
      /\ registernum..(registernum' - 1) \subseteq 0..(registernum' - 1)
      BY Interval
<1>9. ASSUME NEW i \in 1..(m + k), NEW t, Writer(irlist'[i], t), t # REGISTERV0
      PROVE  t \in 0..(registernum' - 1)
      <2>1. CASE i \in 1..m
            <3>1. t \in 0..(registernum - 1)
                  BY <1>3, <1>7, <1>9, <2>1
            <3>2. QED
                  BY <1>0, <3>1
      <2>2. CASE \E j \in 1..k : i = m + j
            <3>1. t \in registernum..(registernum' - 1)
                  BY <1>3, <1>8, <1>9, <2>2
            <3>2. QED
                  BY <1>0, <3>1
      <2>3. QED
            BY <1>6, <2>1, <2>2
<1>10. ASSUME NEW i \in 1..(m + k), NEW j \in 1..(m + k), NEW t,
              Writer(irlist'[i], t), Writer(irlist'[j], t), t # REGISTERV0, i # j
       PROVE  Twins(irlist', i, j)
       <2>1. CASE i \in 1..m /\ j \in 1..m
             <3>1. Twins(irlist, i, j)
                   BY <1>1, <1>3, <1>10, <2>1 DEF Nodes
             <3>2. \A e \in i..j : e \in 1..m
                   BY <1>3, <2>1
             <3>3. QED
                   BY <1>3, <2>1, <3>1, <3>2 DEF Twins, IsEos
       <2>2. ASSUME NEW a \in 1..k, NEW b \in 1..k, i = m + a, j = m + b
             PROVE  Twins(irlist', i, j)
             <3>1. irlist'[i] = irns[a] /\ irlist'[j] = irns[b] /\ a # b
                   BY <1>3, <1>10, <2>2
             <3>2. Twins(irns, a, b)
                   BY <1>2, <1>10, <3>1 DEF Fresh
             <3>3. \A e \in i..j : e - m \in a..b /\ e - m \in 1..k /\ e = m + (e - m)
                   BY <1>3, <2>2
             <3>4. QED
                   BY <1>3, <3>1, <3>2, <3>3 DEF Twins, IsEos
       <2>3. ASSUME NEW a \in 1..k, i = m + a, j \in 1..m
             PROVE  FALSE
             <3>1. t \in registernum..(registernum' - 1)
                   BY <1>3, <1>8, <1>10, <2>3
             <3>2. t \in 0..(registernum - 1)
                   BY <1>3, <1>7, <1>10, <2>3
             <3>3. QED
                   BY <3>1, <3>2
       <2>4. ASSUME NEW b \in 1..k, j = m + b, i \in 1..m
             PROVE  FALSE
             <3>1. t \in registernum..(registernum' - 1)
                   BY <1>3, <1>8, <1>10, <2>4
             <3>2. t \in 0..(registernum - 1)
                   BY <1>3, <1>7, <1>10, <2>4
             <3>3. QED
                   BY <3>1, <3>2
       <2>5. QED
             BY <1>6, <2>1, <2>2, <2>3, <2>4
<1>11. ASSUME NEW i \in 1..(m + k), NEW j \in 1..(m + k), Twins(irlist', i, j)
       PROVE  Twins(irlist, i, j)'
       BY <1>4, <1>11 DEF Twins, Twin
<1>12. QED
       BY <1>3, <1>5, <1>9, <1>10, <1>11 DEF Nodes, Writer

(* A step that appends nothing.                                            *)
LEMMA Quiet ==
  ASSUME Inv, UNCHANGED <<tree, irlist, registernum>>, AllClean(todo')
  PROVE  Inv'
<1>1. \A n : Logical(n)' = Logical(n)
      BY DEF Logical, At
<1>2. AllClean(todo)'
      BY <1>1 DEF AllClean, Clean
<1>3. ASSUME NEW i, NEW j, Twins(irlist, i, j)
      PROVE  Twins(irlist, i, j)'
      BY <1>1, <1>3 DEF Twins, Twin
<1>4. QED
      BY <1>2, <1>3 DEF Inv, Nodes

(* Next step's work is what it adds, and then what was left.               *)
LEMMA ThenClean ==
  ASSUME Inv, todo # <<>>
  PROVE  /\ Clean(Next1)
         /\ \A new : AllClean(new) /\ Then(new) => AllClean(todo')
<1>1. AllClean(Tail(todo)) /\ Clean(Next1)
      BY CleanTail DEF Inv, Next1
<1>2. QED
      BY <1>1, CleanTogether DEF Then

(* Short lists of clean work.                                              *)
LEMMA CleanNone == AllClean(<<>>)
<1>1. <<>> \in Seq({})
      OBVIOUS
<1>2. QED
      BY <1>1 DEF AllClean, IsSequence

LEMMA CleanOne ==
  ASSUME NEW a, Clean(a)
  PROVE  AllClean(<<a>>)
<1>1. <<a>> \in Seq({a}) /\ Len(<<a>>) = 1 /\ <<a>>[1] = a
      OBVIOUS
<1>2. IsSequence(<<a>>)
      BY <1>1, Zenon DEF IsSequence
<1>3. QED
      BY <1>1, <1>2 DEF AllClean

LEMMA CleanTwo ==
  ASSUME NEW a, Clean(a), NEW b, Clean(b)
  PROVE  AllClean(<<a, b>>)
<1>1. <<a, b>> = <<a>> \o <<b>>
      OBVIOUS
<1>2. QED
      BY <1>1, CleanOne, CleanOne, CleanTogether

LEMMA CleanThree ==
  ASSUME NEW a, Clean(a), NEW b, Clean(b), NEW c, Clean(c)
  PROVE  AllClean(<<a, b, c>>)
<1>1. <<a, b, c>> = <<a, b>> \o <<c>>
      OBVIOUS
<1>2. QED
      BY <1>1, CleanTwo, CleanOne, CleanTogether

LEMMA CleanFour ==
  ASSUME NEW a, Clean(a), NEW b, Clean(b), NEW c, Clean(c), NEW d, Clean(d)
  PROVE  AllClean(<<a, b, c, d>>)
<1>1. <<a, b, c, d>> = <<a, b, c>> \o <<d>>
      OBVIOUS
<1>2. QED
      BY <1>1, CleanThree, CleanOne, CleanTogether

LEMMA CleanFive ==
  ASSUME NEW a, Clean(a), NEW b, Clean(b), NEW c, Clean(c), NEW d, Clean(d), NEW e, Clean(e)
  PROVE  AllClean(<<a, b, c, d, e>>)
<1>1. <<a, b, c, d, e>> = <<a, b, c, d>> \o <<e>>
      OBVIOUS
<1>2. QED
      BY <1>1, CleanFour, CleanOne, CleanTogether

(* Work that appends no node of its own.                                   *)
LEMMA CleanItems ==
  ASSUME NEW n
  PROVE  /\ Clean(Build(n)) /\ Clean(Switch(n)) /\ Clean(Drop)
         /\ \A v : Clean(Generate(n, v))
         /\ Clean(ForTest(n)) /\ Clean(ElseJump(n)) /\ Clean(ElseEnd(n))
         /\ Clean(Store(n)) /\ Clean(Return(n)) /\ Clean(Param(n))
         /\ \A op : Clean(Operate(n, op))
         /\ \A by : Clean(Increment(n, by))
BY DEF Clean, Build, Switch, Drop, Generate, ForTest, ElseJump, ElseEnd, Store, Return, Param,
       Operate, Increment

(* Work that appends labels, jumps, branches or an end of statement.       *)
LEMMA CleanNodes ==
  ASSUME NEW n, NEW l
  PROVE  /\ Clean(Emit(LabelNode(n, l))) /\ Clean(Emit(JumpNode(n, l)))
         /\ Clean(Emit(EosNode(n)))
         /\ Clean(Emit(IrNode(n, "BGZ", Reg(REGISTERZERO), Lab(l), NoOperand)))
         /\ Clean(Branch(n, "BLEZ", l)) /\ Clean(Branch(n, "BGZ", l))
<1>1. \A op \in {"LABEL", "J", "EOS", "BGZ"} :
        \A a, b, c : Clean(Emit(IrNode(n, op, a, b, c)))
      BY NotWritten DEF Clean, Emit, IrNode
<1>2. \A op \in {"BLEZ", "BGZ"} : Clean(Branch(n, op, l))
      BY NotWritten DEF Clean, Branch
<1>3. QED
      BY <1>1, <1>2 DEF LabelNode, JumpNode, EosNode

(* The two loads that a logical operator has left to do.                   *)
LEMMA CleanTruth ==
  ASSUME NEW n, Logical(n), NEW first, NEW v, NEW second, NEW done
  PROVE  Clean(Truth(n, first, v, second, done))
BY DEF Clean, Truth

(* Nodes that write no temporary, or the next one.                         *)
LEMMA FreshPlain ==
  ASSUME NEW irns, IsSequence(irns),
         \A i \in 1..Len(irns) : \A t : Writer(irns[i], t) => t = REGISTERV0
  PROVE  Fresh(irns)
BY DEF Fresh

(* A single node that writes a new temporary, if any.                      *)
LEMMA FreshOne ==
  ASSUME NEW irn, \A t : Writer(irn, t) /\ t # REGISTERV0 => t \in registernum..(registernum' - 1)
  PROVE  Fresh(<<irn>>)
<1>1. <<irn>> \in Seq({irn}) /\ Len(<<irn>>) = 1 /\ <<irn>>[1] = irn
      OBVIOUS
<1>2. IsSequence(<<irn>>)
      BY <1>1, Zenon DEF IsSequence
<1>3. \A i \in 1..Len(<<irn>>) : <<irn>>[i] = irn /\ i = 1
      BY <1>1
<1>4. QED
      BY <1>2, <1>3 DEF Fresh

(* One node that writes nothing is appended.                               *)
LEMMA PlainStep ==
  ASSUME Inv, UNCHANGED <<tree, registernum>>, AllClean(todo'),
         NEW irn, irn.opcode \notin Writing, Append_ir_nodes(<<irn>>)
  PROVE  Inv'
<1>1. Fresh(<<irn>>)
      BY FreshOne DEF Writer
<1>2. registernum' \in Nat /\ registernum <= registernum'
      BY DEF Inv
<1>3. QED
      BY <1>1, <1>2, Extend

-----------------------------------------------------------------------------

(* build_ir, one lemma for each case with work of its own.                 *)
LEMMA BuildKeeps ==
  ASSUME Inv, BuildNull \/ BuildNode \/ SwitchElse \/ SwitchOther \/ DoDrop
  PROVE  Inv'
<1>1. todo # <<>> /\ UNCHANGED <<tree, irlist, registernum>>
      BY DEF BuildNull, BuildNode, SwitchElse, SwitchOther, DoDrop, Doing, counters
<1>2. CASE BuildNull \/ SwitchOther \/ DoDrop
      <2>1. Then(<<>>)
            BY <1>2 DEF BuildNull, SwitchOther, DoDrop
      <2>2. QED
            BY <1>1, <2>1, CleanNone, ThenClean, Quiet
<1>3. CASE BuildNode
      <2>1. PICK n : n = Next1.n
            OBVIOUS
      <2>2. PICK expr : expr = IF At(n).type = "EXPR_STMT" \/ At(n).subtype = "EXPR_ITEM"
                               THEN <<Generate(Left(n), "R_VALUE"), Drop>> ELSE <<>>
            OBVIOUS
      <2>3. PICK eos : eos = IF At(n).type = "EXPR_STMT" THEN <<Emit(EosNode(n))>> ELSE <<>>
            OBVIOUS
      <2>4. Then(<<Build(Left(n)), Switch(n)>> \o expr \o <<Build(Right(n))>> \o eos)
            BY <1>3, <2>1, <2>2, <2>3 DEF BuildNode
      <2>5. AllClean(<<Build(Left(n)), Switch(n)>>) /\ AllClean(<<Build(Right(n))>>)
            BY CleanItems, CleanOne, CleanTwo
      <2>6. AllClean(expr)
            <3>1. AllClean(<<Generate(Left(n), "R_VALUE"), Drop>>)
                  BY CleanItems, CleanTwo
            <3>2. QED
                  BY <2>2, <3>1, CleanNone
      <2>7. AllClean(eos)
            <3>1. AllClean(<<Emit(EosNode(n))>>)
                  BY CleanNodes, CleanOne
            <3>2. QED
                  BY <2>3, <3>1, CleanNone
      <2>8. AllClean(<<Build(Left(n)), Switch(n)>> \o expr \o <<Build(Right(n))>> \o eos)
            BY <2>5, <2>6, <2>7, CleanTogether
      <2>9. QED
            BY <1>1, <2>4, <2>8, ThenClean, Quiet
<1>4. CASE SwitchElse
      <2>1. Then(<<Build(Left(Next1.n)), ElseEnd(Next1.n)>>)
            BY <1>4 DEF SwitchElse
      <2>2. AllClean(<<Build(Left(Next1.n)), ElseEnd(Next1.n)>>)
            BY CleanItems, CleanTwo
      <2>3. QED
            BY <1>1, <2>1, <2>2, ThenClean, Quiet
<1>5. QED
      BY <1>2, <1>3, <1>4

(* A function definition appends its start and leaves its body to do.      *)
LEMMA SwitchFunctionSpecKeeps ==
  ASSUME Inv, SwitchFunctionSpec
  PROVE  Inv'
<1>1. todo # <<>> /\ Then(<<>>) /\ UNCHANGED <<tree, registernum>>
      BY DEF SwitchFunctionSpec, Doing, counters
<1>3. PICK label : label = LabelNode(Next1.n, func_label(At(Next1.n).right.left.string_data))
      OBVIOUS
<1>4. PICK start : start = IrNode(Next1.n, "FUNCTIONSTART", Ptr(At(Next1.n).right.left.string_data),
                                  NoOperand, NoOperand)
      OBVIOUS
<1>5. Append_ir_nodes(<<label, start>>)
      BY <1>3, <1>4 DEF SwitchFunctionSpec
<1>6. label.opcode \notin Writing /\ start.opcode \notin Writing
      BY <1>3, <1>4, NotWritten DEF LabelNode, IrNode
<1>7. Fresh(<<label, start>>)
      <2>1. <<label, start>> \in Seq({label, start})
            OBVIOUS
      <2>2. \A i \in 1..Len(<<label, start>>) : <<label, start>>[i].opcode \notin Writing
            BY <1>6
      <2>3. QED
            BY <2>1, <2>2 DEF Fresh, IsSequence, Writer
<1>8. registernum' \in Nat /\ registernum <= registernum'
      BY <1>1 DEF Inv
<1>9. QED
      BY <1>1, <1>5, <1>7, <1>8, CleanNone, ThenClean, Extend

(* An if statement, with or without else.                                  *)
LEMMA SwitchIfKeeps ==
  ASSUME Inv, SwitchIf
  PROVE  Inv'
<1>1. todo # <<>> /\ UNCHANGED <<tree, irlist, registernum>>
      BY DEF SwitchIf, Doing
<1>2. PICK n : n = Next1.n
      OBVIOUS
<1>3. PICK end : end = new_label("endif", 0)
      OBVIOUS
<1>4. PICK els : els = IF At(Parent(n)).subtype = "IF_ELSE_STMT" THEN <<ElseJump(n)>> ELSE <<>>
      OBVIOUS
<1>5. Then(<<Generate(Left(n), "R_VALUE"), Branch(n, "BLEZ", end), Build(Right(n))>>
           \o els \o <<Emit(LabelNode(n, end))>>)
      BY <1>2, <1>3, <1>4 DEF SwitchIf
<1>6. AllClean(<<Generate(Left(n), "R_VALUE"), Branch(n, "BLEZ", end), Build(Right(n))>>)
      BY CleanItems, CleanNodes, CleanThree
<1>7. AllClean(els)
      <2>1. AllClean(<<ElseJump(n)>>)
            BY CleanItems, CleanOne
      <2>2. QED
            BY <1>4, <2>1, CleanNone
<1>8. AllClean(<<Emit(LabelNode(n, end))>>)
      BY CleanNodes, CleanOne
<1>9. AllClean(<<Generate(Left(n), "R_VALUE"), Branch(n, "BLEZ", end), Build(Right(n))>>
               \o els \o <<Emit(LabelNode(n, end))>>)
      BY <1>6, <1>7, <1>8, CleanTogether
<1>10. QED
       BY <1>1, <1>5, <1>9, ThenClean, Quiet

(* The steps that append one node, which defines no temporary.             *)
LEMMA OneNodeKeeps ==
  ASSUME Inv, DoElseJump \/ DoElseEnd \/ DoEmit \/ DoBranch \/ DoIncrement \/ DoStore
  PROVE  Inv'
<1>1. todo # <<>> /\ Then(<<>>) /\ UNCHANGED <<tree, registernum>>
      BY DEF DoElseJump, DoElseEnd, DoEmit, DoBranch, DoIncrement, DoStore, Doing, counters
<1>2. AllClean(todo') /\ Clean(Next1)
      BY <1>1, CleanNone, ThenClean
<1>3. PICK irn : Append_ir_nodes(<<irn>>) /\ irn.opcode \notin Writing
      <2>1. CASE DoElseJump
            <3>1. PICK a : a = JumpNode(Next1.n, new_label("endelse", 0))
                  OBVIOUS
            <3>2. Append_ir_nodes(<<a>>)
                  BY <2>1, <3>1 DEF DoElseJump
            <3>3. QED
                  BY <3>1, <3>2, NotWritten DEF JumpNode, IrNode
      <2>2. CASE DoElseEnd
            <3>1. PICK a : a = LabelNode(Next1.n, else_label[Next1.n])
                  OBVIOUS
            <3>2. Append_ir_nodes(<<a>>)
                  BY <2>2, <3>1 DEF DoElseEnd
            <3>3. QED
                  BY <3>1, <3>2, NotWritten DEF LabelNode, IrNode
      <2>3. CASE DoEmit
            BY <1>2, <2>3 DEF DoEmit, Doing, Clean
      <2>4. CASE DoBranch
            <3>1. PICK a : a = IrNode(Next1.n, Next1.op, Reg(Top), Lab(Next1.label), NoOperand)
                  OBVIOUS
            <3>2. Append_ir_nodes(<<a>>) /\ Next1.do = "branch"
                  BY <2>4, <3>1 DEF DoBranch, Doing
            <3>3. QED
                  BY <1>2, <3>1, <3>2 DEF IrNode, Clean
      <2>5. CASE DoIncrement
            <3>1. PICK a : a = IrNode(Next1.n, "ADDI", Reg(Top), Reg(Top), Imm(Next1.by))
                  OBVIOUS
            <3>2. Append_ir_nodes(<<a>>)
                  BY <2>5, <3>1 DEF DoIncrement
            <3>3. QED
                  BY <3>1, <3>2, NotWritten DEF IrNode
      <2>6. CASE DoStore
            <3>1. PICK a : a = IrNode(Next1.n, "SIW", Reg(Top), Reg(Second), NoOperand)
                  OBVIOUS
            <3>2. Append_ir_nodes(<<a>>)
                  BY <2>6, <3>1 DEF DoStore
            <3>3. QED
                  BY <3>1, <3>2, NotWritten DEF IrNode
      <2>7. QED
            BY <2>1, <2>2, <2>3, <2>4, <2>5, <2>6
<1>4. QED
      BY <1>1, <1>2, <1>3, PlainStep

(* A while statement.                                                      *)
LEMMA SwitchWhileKeeps ==
  ASSUME Inv, SwitchWhile
  PROVE  Inv'
<1>1. todo # <<>> /\ UNCHANGED <<tree, registernum>>
      BY DEF SwitchWhile, Doing
<1>2. PICK n : n = Next1.n
      OBVIOUS
<1>3. PICK test : test = new_label("while_test", 0)
      OBVIOUS
<1>4. PICK end : end = new_label("while_end", 1)
      OBVIOUS
<1>5. /\ Append_ir_nodes(<<LabelNode(n, test)>>)
      /\ Then(<<Generate(Left(n), "R_VALUE"), Branch(n, "BLEZ", end), Build(Right(n)),
                Emit(JumpNode(n, test)), Emit(LabelNode(n, end))>>)
      BY <1>2, <1>3, <1>4 DEF SwitchWhile
<1>6. AllClean(<<Generate(Left(n), "R_VALUE"), Branch(n, "BLEZ", end), Build(Right(n)),
                 Emit(JumpNode(n, test)), Emit(LabelNode(n, end))>>)
      BY CleanItems, CleanNodes, CleanFive
<1>7. AllClean(todo')
      BY <1>1, <1>5, <1>6, ThenClean
<1>8. LabelNode(n, test).opcode \notin Writing
      BY NotWritten DEF LabelNode, IrNode
<1>9. QED
      BY <1>1, <1>5, <1>7, <1>8, PlainStep

(* The parts of a for statement.                                           *)
LEMMA CleanClause ==
  ASSUME NEW n
  PROVE  AllClean(OptClause(n))
<1>1. AllClean(Clause(n))
      BY CleanItems, CleanTwo DEF Clause
<1>2. QED
      BY <1>1, CleanNone DEF OptClause

(* A for statement.                                                        *)
LEMMA ForKeeps ==
  ASSUME Inv, SwitchFor \/ DoForTest
  PROVE  Inv'
<1>1. CASE SwitchFor
      <2>1. /\ todo # <<>> /\ UNCHANGED <<tree, irlist, registernum>>
            /\ Then(OptClause(Left(Next1.n)) \o <<ForTest(Next1.n)>>)
            BY <1>1 DEF SwitchFor, Doing, counters
      <2>2. AllClean(<<ForTest(Next1.n)>>)
            BY CleanItems, CleanOne
      <2>3. AllClean(OptClause(Left(Next1.n)) \o <<ForTest(Next1.n)>>)
            BY <2>2, CleanClause, CleanTogether
      <2>4. QED
            BY <2>1, <2>3, ThenClean, Quiet
<1>2. CASE DoForTest
      <2>1. todo # <<>> /\ UNCHANGED <<tree, registernum>>
            BY <1>2 DEF DoForTest, Doing
      <2>2. PICK n : n = Next1.n
            OBVIOUS
      <2>3. PICK test : test = new_label("for_test", 0)
            OBVIOUS
      <2>4. PICK end : end = new_label("for_end", 1)
            OBVIOUS
      <2>5. PICK cond : cond = Left(Right(Left(n)))
            OBVIOUS
      <2>6. PICK check : check = IF At(cond).type # "NULL_STMT"
                  THEN <<Generate(cond, "R_VALUE"), Branch(n, "BLEZ", end)>>
                  ELSE <<Emit(IrNode(n, "BGZ", Reg(REGISTERZERO), Lab(end), NoOperand))>>
            OBVIOUS
      <2>7. /\ Append_ir_nodes(<<LabelNode(n, test)>>)
            /\ Then(check \o <<Build(Right(n))>> \o OptClause(Right(Right(Left(n))))
                    \o <<Emit(JumpNode(n, test)), Emit(LabelNode(n, end))>>)
            BY <1>2, <2>2, <2>3, <2>4, <2>5, <2>6 DEF DoForTest
      <2>8. AllClean(check)
            <3>1. AllClean(<<Generate(cond, "R_VALUE"), Branch(n, "BLEZ", end)>>)
                  BY CleanItems, CleanNodes, CleanTwo
            <3>2. AllClean(<<Emit(IrNode(n, "BGZ", Reg(REGISTERZERO), Lab(end), NoOperand))>>)
                  BY CleanNodes, CleanOne
            <3>3. QED
                  BY <2>6, <3>1, <3>2
      <2>9. AllClean(<<Build(Right(n))>>)
            BY CleanItems, CleanOne
      <2>10. AllClean(<<Emit(JumpNode(n, test)), Emit(LabelNode(n, end))>>)
             BY CleanNodes, CleanTwo
      <2>11. AllClean(check \o <<Build(Right(n))>> \o OptClause(Right(Right(Left(n))))
                      \o <<Emit(JumpNode(n, test)), Emit(LabelNode(n, end))>>)
             BY <2>8, <2>9, <2>10, CleanClause, CleanTogether
      <2>12. AllClean(todo')
             BY <2>1, <2>7, <2>11, ThenClean
      <2>13. LabelNode(n, test).opcode \notin Writing
             BY NotWritten DEF LabelNode, IrNode
      <2>14. QED
             BY <2>1, <2>7, <2>12, <2>13, PlainStep
<1>3. QED
      BY <1>1, <1>2

-----------------------------------------------------------------------------
(* generate_ir_node.                                                       *)

(* generate_ir_node, one lemma for each of its cases.                      *)
LEMMA QuietGenerateKeeps ==
  ASSUME Inv,
         \/ GenerateVisited \/ GenerateReturn \/ CrashInReturn \/ GenerateList
         \/ GenerateUnary \/ GenerateAssignment \/ GenerateOperator
  PROVE  Inv'
<1>1. todo # <<>> /\ UNCHANGED <<tree, irlist, registernum>>
      BY DEF GenerateVisited, GenerateReturn, CrashInReturn, GenerateList, GenerateUnary,
             GenerateAssignment, GenerateOperator, Generating, Doing, counters
<1>2. AllClean(todo')
      <2>1. CASE GenerateVisited
            BY <1>1, <2>1, CleanNone, ThenClean DEF GenerateVisited
      <2>2. CASE GenerateReturn
            <3>1. Then(<<Generate(Right(Parent(Next1.n)), "L_VALUE"), Return(Next1.n),
                         Param(Next1.n)>>)
                  BY <2>2 DEF GenerateReturn
            <3>2. AllClean(<<Generate(Right(Parent(Next1.n)), "L_VALUE"), Return(Next1.n),
                             Param(Next1.n)>>)
                  BY CleanItems, CleanThree
            <3>3. QED
                  BY <1>1, <3>1, <3>2, ThenClean
      <2>3. CASE CrashInReturn
            BY <2>3, CleanNone DEF CrashInReturn
      <2>4. CASE GenerateList
            <3>1. AllClean(<<Param(Next1.n)>>)
                  BY CleanItems, CleanOne
            <3>2. QED
                  BY <1>1, <2>4, <3>1, ThenClean DEF GenerateList
      <2>5. CASE GenerateUnary
            <3>1. PICK n : n = Next1.n
                  OBVIOUS
            <3>2. PICK operand : operand = IF IsNull(Left(n)) THEN Right(n) ELSE Left(n)
                  OBVIOUS
            <3>3. PICK by : by = IF At(n).string_data = "++" THEN 1 ELSE -1
                  OBVIOUS
            <3>4. Then(<<Generate(operand, "R_VALUE"), Increment(n, by), Param(n)>>)
                  BY <2>5, <3>1, <3>2, <3>3 DEF GenerateUnary
            <3>5. AllClean(<<Generate(operand, "R_VALUE"), Increment(n, by), Param(n)>>)
                  BY CleanItems, CleanThree
            <3>6. QED
                  BY <1>1, <3>4, <3>5, ThenClean
      <2>6. CASE GenerateAssignment
            <3>1. PICK n : n = Next1.n
                  OBVIOUS
            <3>2. Then(<<Generate(Left(n), "L_VALUE"), Generate(Right(n), "R_VALUE"), Store(n),
                         Param(n)>>)
                  BY <2>6, <3>1 DEF GenerateAssignment
            <3>3. AllClean(<<Generate(Left(n), "L_VALUE"), Generate(Right(n), "R_VALUE"), Store(n),
                             Param(n)>>)
                  BY CleanItems, CleanFour
            <3>4. QED
                  BY <1>1, <3>2, <3>3, ThenClean
      <2>7. CASE GenerateOperator
            <3>1. PICK n : n = Next1.n
                  OBVIOUS
            <3>2. PICK op : op = Opcode(At(n).string_data)
                  OBVIOUS
            <3>3. Then(<<Generate(Left(n), "R_VALUE"), Generate(Right(n), "R_VALUE"),
                         Operate(n, op), Param(n)>>)
                  BY <2>7, <3>1, <3>2 DEF GenerateOperator
            <3>4. AllClean(<<Generate(Left(n), "R_VALUE"), Generate(Right(n), "R_VALUE"),
                             Operate(n, op), Param(n)>>)
                  BY CleanItems, CleanFour
            <3>5. QED
                  BY <1>1, <3>3, <3>4, ThenClean
      <2>8. QED
            BY <2>1, <2>2, <2>3, <2>4, <2>5, <2>6, <2>7
<1>3. QED
      BY <1>1, <1>2, Quiet

(* A logical operator leaves its branches and loads to do.                 *)
LEMMA GenerateLogicalKeeps ==
  ASSUME Inv, GenerateLogical
  PROVE  Inv'
<1>1. PICK n : n = Next1.n
      OBVIOUS
<1>2. PICK isand : isand = (At(n).string_data = "&&")
      OBVIOUS
<1>3. PICK fail : fail = new_label(IF isand THEN "and_fail" ELSE "or_fail", 0)
      OBVIOUS
<1>4. PICK pass : pass = new_label(IF isand THEN "and_pass" ELSE "or_pass", 1)
      OBVIOUS
<1>5. PICK done : done = new_label(IF isand THEN "and_done" ELSE "or_done", 2)
      OBVIOUS
<1>6. PICK lhs : lhs = Generate(Left(n), "R_VALUE")
      OBVIOUS
<1>7. PICK rhs : rhs = Generate(Right(n), "R_VALUE")
      OBVIOUS
<1>8. PICK work : work = IF isand
              THEN <<lhs, Branch(n, "BLEZ", fail), rhs, Branch(n, "BGZ", pass),
                     Truth(n, fail, 0, pass, done)>>
              ELSE <<lhs, Branch(n, "BGZ", pass), rhs, Branch(n, "BLEZ", fail),
                     Truth(n, pass, 1, fail, done)>>
      OBVIOUS
<1>9. todo # <<>> /\ UNCHANGED <<tree, irlist, registernum>> /\ Logical(n)
      BY <1>1 DEF GenerateLogical, Generating, Doing, Logical
<1>10. Then(work \o <<Param(n)>>)
       BY <1>1, <1>2, <1>3, <1>4, <1>5, <1>6, <1>7, <1>8 DEF GenerateLogical
<1>11. Clean(lhs) /\ Clean(rhs)
       BY <1>6, <1>7, CleanItems
<1>12. AllClean(<<lhs, Branch(n, "BLEZ", fail), rhs, Branch(n, "BGZ", pass),
                  Truth(n, fail, 0, pass, done)>>)
       BY <1>9, <1>11, CleanNodes, CleanTruth, CleanFive
<1>13. AllClean(<<lhs, Branch(n, "BGZ", pass), rhs, Branch(n, "BLEZ", fail),
                  Truth(n, pass, 1, fail, done)>>)
       BY <1>9, <1>11, CleanNodes, CleanTruth, CleanFive
<1>14. AllClean(<<Param(n)>>)
       BY CleanItems, CleanOne
<1>15. AllClean(work \o <<Param(n)>>)
       BY <1>8, <1>12, <1>13, <1>14, CleanTogether
<1>16. QED
       BY <1>9, <1>10, <1>15, ThenClean, Quiet

(* One node after another, where neither writes a temporary.               *)
LEMMA FreshTwo ==
  ASSUME NEW x, NEW y, \A t : Writer(x, t) => t = REGISTERV0,
         \A t : Writer(y, t) => t = REGISTERV0
  PROVE  Fresh(<<x>> \o <<y>>)
<1>1. PICK S : S = {x, y}
      OBVIOUS
<1>2. x \in S /\ y \in S
      BY <1>1
<1>3. <<x>> \in Seq(S) /\ <<y>> \in Seq(S)
      BY <1>2
<1>4. <<x>> \o <<y>> \in Seq(S) /\ Len(<<x>> \o <<y>>) = 2
      BY <1>3
<1>5. (<<x>> \o <<y>>)[1] = x /\ (<<x>> \o <<y>>)[2] = y
      BY <1>3
<1>6. PICK irns : irns = <<x>> \o <<y>>
      OBVIOUS
<1>7. IsSequence(irns)
      BY <1>4, <1>6 DEF IsSequence
<1>8. \A i \in 1..Len(irns) : irns[i] = x \/ irns[i] = y
      BY <1>4, <1>5, <1>6
<1>9. QED
      BY <1>6, <1>7, <1>8, FreshPlain

(* $v0 is written, and no temporary.                                       *)
LEMMA DoReturnKeeps ==
  ASSUME Inv, DoReturn
  PROVE  Inv'
<1>1. /\ todo # <<>> /\ Then(<<>>) /\ UNCHANGED <<tree, registernum>>
      /\ Append_ir_nodes(ReturnNodes(Next1.n, Top))
      BY DEF DoReturn, Doing, counters
<1>2. PICK jr : jr = IrNode(Next1.n, "JR", Reg(REGISTERRA), NoOperand, NoOperand)
      OBVIOUS
<1>3. PICK op : op = IF find_ir_node(Top).operand[2].type = "IMMEDIATE" THEN "MOVE" ELSE "LIW"
      OBVIOUS
<1>4. PICK v0 : v0 = IrNode(Next1.n, op, Reg(REGISTERV0), Reg(Top), NoOperand)
      OBVIOUS
<1>5. ReturnNodes(Next1.n, Top) = IF Top < 0 THEN <<jr>> ELSE <<v0>> \o <<jr>>
      BY <1>2, <1>3, <1>4 DEF ReturnNodes
<1>7. \A t : ~Writer(jr, t)
      BY <1>2, NotWritten DEF Writer, IrNode
<1>8. \A t : Writer(v0, t) => t = REGISTERV0
      BY <1>4 DEF Writer, IsRegister, IrNode, Reg
<1>9. Fresh(<<jr>>)
      BY <1>7, FreshOne
<1>10. Fresh(<<v0>> \o <<jr>>)
       BY <1>7, <1>8, FreshTwo
<1>11. Fresh(ReturnNodes(Next1.n, Top))
       <2>1. CASE Top < 0
             BY <1>5, <1>9, <2>1
       <2>2. CASE ~(Top < 0)
             BY <1>5, <1>10, <2>2, Zenon
       <2>3. QED
             BY <2>1, <2>2
<1>12. registernum' \in Nat /\ registernum <= registernum'
       BY <1>1 DEF Inv
<1>13. QED
       BY <1>1, <1>11, <1>12, CleanNone, ThenClean, Extend

(* The call's node, whose arguments are left to do.                        *)
LEMMA GenerateCallKeeps ==
  ASSUME Inv, GenerateCall
  PROVE  Inv'
<1>1. todo # <<>> /\ Then(<<Param(Next1.n)>>) /\ UNCHANGED <<tree, registernum>>
      BY DEF GenerateCall, Generating, Doing, counters
<1>2. PICK call : call = IrNode(Left(Next1.n), "FUNCTIONCALL", Ptr(At(Next1.n).left.string_data),
                                NoOperand, NoOperand)
      OBVIOUS
<1>3. Append_ir_nodes(<<call>>)
      BY <1>2 DEF GenerateCall
<1>4. call.opcode \notin Writing
      BY <1>2, NotWritten DEF IrNode
<1>5. AllClean(<<Param(Next1.n)>>)
      BY CleanItems, CleanOne
<1>6. QED
      BY <1>1, <1>3, <1>4, <1>5, ThenClean, PlainStep

(* The tail of generate_ir_node that pushes an argument.                   *)
LEMMA DoParamKeeps ==
  ASSUME Inv, DoParam
  PROVE  Inv'
<1>1. todo # <<>> /\ Then(<<>>) /\ UNCHANGED <<tree, registernum>>
      BY DEF DoParam, Doing, counters
<1>2. AllClean(todo')
      BY <1>1, CleanNone, ThenClean
<1>3. PICK push : push = IrNode(Next1.n, "PARAM", Reg(registernum - 1), NoOperand, NoOperand)
      OBVIOUS
<1>4. push.opcode \notin Writing
      BY <1>3, NotWritten DEF IrNode
<1>5. CASE IsArgument(Next1.n)
      <2>1. Append_ir_nodes(<<push>>)
            BY <1>3, <1>5 DEF DoParam
      <2>2. QED
            BY <1>1, <1>2, <1>4, <2>1, PlainStep
<1>6. CASE ~IsArgument(Next1.n)
      <2>1. Append_ir_nodes(<<>>)
            BY <1>6 DEF DoParam
      <2>2. PICK S : irlist \in Seq(S)
            BY DEF Inv, IsSequence
      <2>3. irlist' = irlist
            BY <2>1, <2>2 DEF Append_ir_nodes
      <2>4. QED
            BY <1>1, <1>2, <2>3, Quiet
<1>7. QED
      BY <1>5, <1>6

(* One node that writes the next temporary.                                *)
LEMMA WritingStep ==
  ASSUME Inv, UNCHANGED tree, registernum' = registernum + 1, AllClean(todo'),
         NEW irn, irn.operand[1] = Reg(registernum), Append_ir_nodes(<<irn>>)
  PROVE  Inv'
<1>1. registernum \in Nat /\ registernum' \in Nat /\ registernum <= registernum'
      BY DEF Inv
<1>2. registernum \in registernum..(registernum' - 1)
      BY <1>1
<1>3. \A t : Writer(irn, t) => t = registernum
      BY DEF Writer, IsRegister, Reg
<1>4. Fresh(<<irn>>)
      BY <1>2, <1>3, FreshOne
<1>5. QED
      BY <1>1, <1>4, Extend

(* The load of a constant, into a new temporary.                           *)
LEMMA GenerateNumberKeeps ==
  ASSUME Inv, GenerateNumber
  PROVE  Inv'
<1>1. todo # <<>> /\ Then(<<Param(Next1.n)>>) /\ tree' = tree /\ registernum' = registernum + 1
      BY DEF GenerateNumber, Generating, Doing
<1>2. PICK li : li = LoadNode(Next1.n, registernum, At(Next1.n).const_value)
      OBVIOUS
<1>3. Append_ir_nodes(<<li>>) /\ li.operand[1] = Reg(registernum)
      BY <1>2 DEF GenerateNumber, LoadNode, IrNode
<1>4. AllClean(<<Param(Next1.n)>>)
      BY CleanItems, CleanOne
<1>5. QED
      BY <1>1, <1>3, <1>4, ThenClean, WritingStep

(* An operator's node, into a new temporary.                               *)
LEMMA DoOperateKeeps ==
  ASSUME Inv, DoOperate
  PROVE  Inv'
<1>1. todo # <<>> /\ Then(<<>>) /\ tree' = tree /\ registernum' = registernum + 1
      BY DEF DoOperate, Doing
<1>2. PICK op : op = IrNode(Next1.n, Next1.op, Reg(registernum), Reg(Second), Reg(Top))
      OBVIOUS
<1>3. Append_ir_nodes(<<op>>) /\ op.operand[1] = Reg(registernum)
      BY <1>2 DEF DoOperate, IrNode
<1>4. QED
      BY <1>1, <1>3, CleanNone, ThenClean, WritingStep

(* A variable's address, and where it is read the load of its value.       *)
LEMMA GenerateIdentifierKeeps ==
  ASSUME Inv, GenerateIdentifier
  PROVE  Inv'
<1>1. todo # <<>> /\ Then(<<Param(Next1.n)>>) /\ tree' = tree
      BY DEF GenerateIdentifier, Generating, Doing
<1>2. PICK la : la = IrNode(Next1.n, "LA", Reg(registernum), Ptr(At(Next1.n).string_data), NoOperand)
      OBVIOUS
<1>3. PICK liw : liw = IrNode(Next1.n, "LIW", Reg(registernum + 1), Reg(registernum), NoOperand)
      OBVIOUS
<1>4. PICK made : made = IF Next1.v = "R_VALUE" THEN <<la, liw>> ELSE <<la>>
      OBVIOUS
<1>5. Append_ir_nodes(made) /\ registernum' = registernum + Len(made)
      BY <1>2, <1>3, <1>4 DEF GenerateIdentifier
<1>6. AllClean(<<Param(Next1.n)>>)
      BY CleanItems, CleanOne
<1>7. AllClean(todo')
      BY <1>1, <1>6, ThenClean
<1>8. CASE made = <<la>>
      <2>1. registernum' = registernum + 1 /\ la.operand[1] = Reg(registernum)
            BY <1>2, <1>5, <1>8 DEF IrNode
      <2>2. QED
            BY <1>1, <1>5, <1>7, <1>8, <2>1, WritingStep
<1>9. CASE made = <<la, liw>>
      <2>1. /\ registernum' = registernum + 2 /\ registernum \in Nat
            /\ registernum' \in Nat /\ registernum <= registernum'
            BY <1>5, <1>9 DEF Inv
      <2>2. /\ \A t : Writer(la, t) => t = registernum
            /\ \A t : Writer(liw, t) => t = registernum + 1
            BY <1>2, <1>3 DEF Writer, IsRegister, IrNode, Reg
      <2>3. <<la, liw>> \in Seq({la, liw})
            OBVIOUS
      <2>4. IsSequence(<<la, liw>>)
            BY <2>3, Zenon DEF IsSequence
      <2>5. \A i \in 1..Len(<<la, liw>>) : \/ i = 1 /\ <<la, liw>>[i] = la
                                           \/ i = 2 /\ <<la, liw>>[i] = liw
            OBVIOUS
      <2>6. /\ registernum \in registernum..(registernum' - 1)
            /\ registernum + 1 \in registernum..(registernum' - 1)
            /\ registernum # registernum + 1
            BY <2>1
      <2>7. \A i, j \in 1..Len(<<la, liw>>) : \A t :
              Writer(<<la, liw>>[i], t) /\ Writer(<<la, liw>>[j], t) => i = j
            BY <2>2, <2>5, <2>6
      <2>8. \A i \in 1..Len(<<la, liw>>) : \A t :
              Writer(<<la, liw>>[i], t) => t \in registernum..(registernum' - 1)
            BY <2>2, <2>5, <2>6
      <2>9. Fresh(<<la, liw>>)
            BY <2>4, <2>7, <2>8 DEF Fresh
      <2>10. QED
             BY <1>1, <1>5, <1>7, <1>9, <2>1, <2>9, Extend
<1>10. QED
       BY <1>4, <1>8, <1>9

(* The two loads of a logical operator, into one new temporary.            *)
LEMMA DoTruthKeeps ==
  ASSUME Inv, DoTruth
  PROVE  Inv'
<1>1. /\ todo # <<>> /\ Then(<<>>) /\ tree' = tree /\ registernum' = registernum + 1
      /\ Next1.do = "truth"
      BY DEF DoTruth, Doing
<1>2. AllClean(todo') /\ Logical(Next1.n)
      BY <1>1, CleanNone, ThenClean DEF Clean
<1>3. PICK a : a = LabelNode(Next1.n, Next1.first)
      OBVIOUS
<1>4. PICK b : b = LoadNode(Next1.n, registernum, Next1.v)
      OBVIOUS
<1>5. PICK c : c = JumpNode(Next1.n, Next1.done)
      OBVIOUS
<1>6. PICK d : d = LabelNode(Next1.n, Next1.second)
      OBVIOUS
<1>7. PICK e : e = LoadNode(Next1.n, registernum, 1 - Next1.v)
      OBVIOUS
<1>8. PICK f : f = LabelNode(Next1.n, Next1.done)
      OBVIOUS
<1>9. PICK irns : irns = <<a, b, c, d, e, f>>
      OBVIOUS
<1>10. Append_ir_nodes(irns)
       BY <1>3, <1>4, <1>5, <1>6, <1>7, <1>8, <1>9 DEF DoTruth
<1>11. IsSequence(irns)
       <2>1. irns \in Seq({a, b, c, d, e, f})
             BY <1>9
       <2>2. QED
             BY <2>1, Zenon DEF IsSequence
<1>12. \A i \in 1..Len(irns) : irns[i] \in {a, b, c, d, e, f}
       BY <1>9
<1>13. \A t : ~Writer(a, t) /\ ~Writer(c, t) /\ ~Writer(d, t) /\ ~Writer(f, t)
       BY <1>3, <1>5, <1>6, <1>8, NotWritten DEF Writer, LabelNode, JumpNode, IrNode
<1>14. /\ b.opnode = Next1.n /\ e.opnode = Next1.n
       /\ \A t : Writer(b, t) \/ Writer(e, t) => t = registernum
       BY <1>4, <1>7 DEF Writer, IsRegister, LoadNode, IrNode, Reg
<1>15. \A i \in 1..Len(irns) : \A t :
         Writer(irns[i], t) => t = registernum /\ irns[i].opnode = Next1.n
       BY <1>12, <1>13, <1>14
<1>16. registernum \in Nat /\ registernum' \in Nat /\ registernum <= registernum'
       BY <1>1 DEF Inv
<1>17. registernum \in registernum..(registernum' - 1)
       BY <1>1, <1>16
<1>18. Fresh(irns)
       <2>1. \A irn \in {a, b, c, d, e, f} : irn.opcode # "EOS"
             BY <1>3, <1>4, <1>5, <1>6, <1>7, <1>8 DEF LabelNode, LoadNode, JumpNode, IrNode
       <2>2. \A i, j \in 1..Len(irns) : \A k \in i..j : k \in 1..Len(irns)
             BY <1>9
       <2>3. \A i, j \in 1..Len(irns) : \A k \in i..j : ~IsEos(irns, k)
             BY <1>12, <2>1, <2>2 DEF IsEos
       <2>4. QED
             BY <1>2, <1>11, <1>15, <1>17, <2>3 DEF Fresh, Twins, Twin
<1>19. QED
       BY <1>1, <1>2, <1>10, <1>16, <1>18, Extend

-----------------------------------------------------------------------------
(* The invariant holds from the start and at every step.                   *)
LEMMA InitInv ==
  ASSUME Init
  PROVE  Inv
<1>1. registernum = 0 /\ irlist = <<>> /\ todo = <<Build(<<>>)>>
      BY DEF Init, Start
<1>2. AllClean(todo)
      BY <1>1, CleanItems, CleanOne
<1>3. Nodes = {} /\ IsSequence(irlist)
      BY <1>1, CleanNone DEF Nodes, AllClean
<1>4. QED
      BY <1>1, <1>2, <1>3 DEF Inv

LEMMA StepInv ==
  ASSUME Inv, [Next]_vars
  PROVE  Inv'
<1>1. CASE UNCHANGED vars
      <2>1. UNCHANGED <<tree, irlist, registernum>> /\ todo' = todo
            BY <1>1 DEF vars
      <2>2. AllClean(todo')
            BY <2>1 DEF Inv
      <2>3. QED
            BY <2>1, <2>2, Quiet
<1>2. CASE build_ir
      BY <1>2, BuildKeeps, SwitchFunctionSpecKeeps, SwitchIfKeeps, OneNodeKeeps,
         SwitchWhileKeeps, ForKeeps DEF build_ir
<1>3. CASE generate_ir_node
      BY <1>3, QuietGenerateKeeps, GenerateLogicalKeeps, DoReturnKeeps,
         GenerateCallKeeps, DoParamKeeps, GenerateNumberKeeps, DoOperateKeeps,
         GenerateIdentifierKeeps, DoTruthKeeps, OneNodeKeeps DEF generate_ir_node
<1>4. QED
      BY <1>1, <1>2, <1>3 DEF Next

(***************************************************************************)
(* The temporaries of the list that generate_ir_node makes are each        *)
(* written by one syntax-tree node, and by one node of the list but for    *)
(* the two loads of a logical operator, for every tree, however often its  *)
(* nodes are reached.                                                      *)
(***************************************************************************)
THEOREM EachWrittenOnce == Spec => []WrittenOnce
<1>1. Init => Inv
      BY InitInv
<1>2. Inv /\ [Next]_vars => Inv'
      BY StepInv
<1>3. Inv => WrittenOnce
      <2>1. REGISTERV0 \in Special
            BY DEF Special
      <2>2. \A t \in Temps(irlist) : t # REGISTERV0
            BY <2>1 DEF Temps
      <2>3. QED
            BY <2>2 DEF Inv, WrittenOnce, Writes, Writer, IsRegister, Reg, Twins, Twin, Logical
<1>4. QED
      BY <1>1, <1>2, <1>3, PTL DEF Spec

-----------------------------------------------------------------------------
(* What is written before it is read.                                      *)


(* t was written since the last end of statement.                          *)
Sets(irn, t) == irn.opcode \in Writing /\ irn.operand[1] = Reg(t)
Recent(t) == \E w \in Nodes : Writes(w, t) /\ \A e \in w..Len(irlist) : ~IsEos(irlist, e)
Usable(t) == t \in Special \/ Recent(t)

(* The registers that a node reads, as Reads says of a node of the list.   *)
Reader(irn, t) ==
  \E k \in 1..3 : IsRegister(irn.operand[k], t) /\ (k = 1 => irn.opcode \notin Writing)

HasRegister(irn) == \E k \in 1..3 : irn.operand[k].type = "REGISTER"

(***************************************************************************)
(* What an item of the work to do finds and leaves: height values on vals, *)
(* the last one lost if it may be no register at all; recent when the last *)
(* temporary was written in the statement at hand, fresh when the item is  *)
(* about a node that was not reached before, but its parent was.           *)
(***************************************************************************)
States == [height : Nat, lost : BOOLEAN, recent : BOOLEAN, fresh : BOOLEAN]
State(height, lost, recent) ==
  [height |-> height, lost |-> lost, recent |-> recent, fresh |-> FALSE]

IsOperand(n) == At(Parent(n)).type = "UNARY_OP" /\ n = Operand(tree, Parent(n))

(* The items that come between statements, where vals is empty.            *)
Outside == {"build", "switch", "fortest", "elsejump", "elseend"}

Needs(item) ==
  CASE item.do \in {"drop", "branch", "increment", "return"} -> 1
    [] item.do \in {"store", "operate"} -> 2
    [] OTHER -> 0
Leaves(item) ==
  CASE item.do \in {"generate", "truth", "store", "operate", "increment", "return"} -> 1
    [] OTHER -> 0

(* The item is one that the program may have to do in state s.             *)
Fits(item, s) ==
  /\ s.height >= Needs(item)
  /\ item.do \notin {"drop", "emit"} => IsPath(tree, item.n)
  /\ item.do \notin {"drop", "emit", "build", "switch", "generate"} => ~IsNull(item.n)
  /\ item.do = "fortest" => At(item.n).subtype = "FOR_STMT"
  /\ item.do = "generate" /\ IsOperand(item.n) => s.fresh
  /\ item.do = "increment" => s.recent
  /\ item.do = "param" /\ IsArgument(item.n) => s.recent
  /\ item.do = "branch" => item.op \in {"BLEZ", "BGZ"}
  /\ item.do = "operate" => \E op \in Operators : item.op = Opcode(op)
  /\ item.do \in Outside => s.height = 0
  /\ item.do = "emit" =>
       /\ \A t : Reader(item.irn, t) => t \in Special
       /\ item.irn.opcode = "EOS" => s.height = 0 /\ ~HasRegister(item.irn)
  /\ s.lost => item.do \in {"drop", "param"}

(* It leads from state s to state e.                                       *)
Does(item, s, e) ==
  /\ Fits(item, s)
  /\ e.height = s.height - Needs(item) + Leaves(item)
  /\ e.lost <=> \/ item.do = "generate" /\ ~HasValue(tree, item.n)
                \/ item.do = "store"
                \/ item.do = "param" /\ s.lost
  /\ e.recent => \/ s.recent
                 \/ item.do \in {"operate", "truth"}
                 \/ item.do = "generate" /\ IsOperand(item.n)
  /\ e.recent => item.do \notin Outside /\ (item.do = "emit" => item.irn.opcode # "EOS")
  /\ ~e.fresh

(* The items of work lead from s to e, one after another.                  *)
Leads(s, work, e) ==
  \E h \in [1..(Len(work) + 1) -> States] :
     /\ h[1] = s /\ h[Len(work) + 1] = e
     /\ \A i \in 1..Len(work) : Does(work[i], h[i], h[i + 1])

(* The state at hand.                                                      *)
Holds(s) ==
  /\ s \in States
  /\ vals \in Seq(Int)
  /\ Len(vals) = s.height
  /\ \A i \in 1..s.height : Usable(vals[i]) \/ (s.lost /\ i = s.height)
  /\ s.recent => Recent(registernum - 1)
Starts(s) ==
  s.fresh => todo # <<>> /\ Next1.n \notin visited /\ Parent(Next1.n) \in visited

(* What is known of the list so far: the temporaries that it reads.        *)
ReadsWritten ==
  \A i \in Nodes : \A t : Reader(irlist[i], t) /\ t \notin Special =>
     \E w \in 1..(i - 1) : Writes(w, t) /\ \A e \in w..i : ~IsEos(irlist, e)

(* A node is reached after its parent where that matters.                  *)
InOrder == \A n \in visited : IsPath(tree, n) /\ (IsOperand(n) => Parent(n) \in visited)

ValueInv ==
  /\ Inv
  /\ ReadsWritten
  /\ EosHasNoRegister(irlist)
  /\ InOrder
  /\ IF crashed THEN todo = <<>>
     ELSE \E s, e \in States : Holds(s) /\ Starts(s) /\ Leads(s, todo, e)

-----------------------------------------------------------------------------
(* Paths.                                                                  *)

Steps == {"L", "R"}

(* The node above a child.                                                 *)
LEMMA ChildPath ==
  ASSUME NEW n \in Seq(Steps), NEW d \in Steps
  PROVE  /\ Append(n, d) \in Seq(Steps) /\ Len(Append(n, d)) = Len(n) + 1
         /\ Append(n, d)[Len(n) + 1] = d
         /\ \A k \in 0..Len(n) : SubSeq(Append(n, d), 1, k) = SubSeq(n, 1, k)
         /\ SubSeq(n, 1, Len(n)) = n
         /\ Parent(Append(n, d)) = n
<1>1. /\ Append(n, d) \in Seq(Steps) /\ Len(Append(n, d)) = Len(n) + 1
      /\ \A i \in 1..Len(n) : Append(n, d)[i] = n[i]
      /\ Append(n, d)[Len(n) + 1] = d /\ Len(n) \in Nat
      BY AppendProperties
<1>2. ASSUME NEW k \in 0..Len(n) PROVE SubSeq(Append(n, d), 1, k) = SubSeq(n, 1, k)
      <2>1. \A i \in 1..k : n[i] \in Steps /\ Append(n, d)[i] = n[i]
            BY <1>1
      <2>2. /\ SubSeq(n, 1, k) \in Seq(Steps) /\ Len(SubSeq(n, 1, k)) = k
            /\ \A i \in 1..k : SubSeq(n, 1, k)[i] = n[i]
            BY <2>1, SubSeqProperties
      <2>3. /\ SubSeq(Append(n, d), 1, k) \in Seq(Steps) /\ Len(SubSeq(Append(n, d), 1, k)) = k
            /\ \A i \in 1..k : SubSeq(Append(n, d), 1, k)[i] = n[i]
            BY <2>1, SubSeqProperties
      <2>4. QED
            BY <2>2, <2>3, SeqEqual
<1>3. SubSeq(n, 1, Len(n)) = n
      BY SubSeqFull
<1>4. Parent(Append(n, d)) = n
      <2>1. Len(Append(n, d)) - 1 = Len(n) /\ Len(n) \in 0..Len(n)
            BY <1>1
      <2>2. QED
            BY <1>2, <1>3, <2>1 DEF Parent
<1>5. QED
      BY <1>1, <1>2, <1>3, <1>4

(* A node's children are nodes, or where a node could be.                  *)
LEMMA Children ==
  ASSUME NEW n, IsPath(tree, n), ~IsNull(n)
  PROVE  /\ IsPath(tree, Left(n)) /\ IsPath(tree, Right(n)) /\ Left(n) # Right(n)
         /\ Parent(Left(n)) = n /\ Parent(Right(n)) = n
<1>1. n \in Seq(Steps) /\ "L" \in Steps /\ "R" \in Steps
      BY DEF IsPath, Steps, IsNull, Missing, At
<1>2. ASSUME NEW d \in Steps PROVE IsPath(tree, Append(n, d))
      <2>1. /\ Append(n, d) \in Seq(Steps) /\ Len(Append(n, d)) = Len(n) + 1 /\ Len(n) \in Nat
            /\ \A k \in 0..Len(n) : SubSeq(Append(n, d), 1, k) = SubSeq(n, 1, k)
            /\ SubSeq(n, 1, Len(n)) = n
            BY <1>1, ChildPath
      <2>2. ASSUME NEW k \in 0..(Len(Append(n, d)) - 1)
            PROVE  ~IsNull(SubSeq(Append(n, d), 1, k))
            <3>0. k \in 0..Len(n)
                  BY <2>1
            <3>1. SubSeq(Append(n, d), 1, k) = SubSeq(n, 1, k)
                  BY <2>1
            <3>2. CASE k = Len(n)
                  BY <2>1, <3>1, <3>2
            <3>3. CASE k # Len(n)
                  <4>1. k \in 0..(Len(n) - 1)
                        <5>1. PICK m : m = Len(n)
                              OBVIOUS
                        <5>2. m \in Nat /\ k \in 0..m /\ k # m
                              BY <2>1, <3>0, <3>3, <5>1
                        <5>3. k \in 0..(m - 1)
                              BY <5>2
                        <5>4. QED
                              BY <5>1, <5>3
                  <4>2. QED
                        BY <3>1, <4>1 DEF IsPath, IsNull, Missing, At
            <3>4. QED
                  BY <3>2, <3>3
      <2>3. QED
            BY <2>1, <2>2 DEF IsPath, Steps, IsNull, Missing, At
<1>3. Left(n) # Right(n)
      <2>1. Append(n, "L")[Len(n) + 1] = "L" /\ Append(n, "R")[Len(n) + 1] = "R"
            BY <1>1, ChildPath
      <2>2. QED
            BY <2>1 DEF Left, Right
<1>4. QED
      BY <1>1, <1>2, <1>3, ChildPath DEF Left, Right

(* The root is its own parent; every other node is a child of a node.      *)
LEMMA Parents ==
  ASSUME NEW n, IsPath(tree, n)
  PROVE  /\ IsPath(tree, Parent(n))
         /\ \/ n = <<>> /\ Parent(n) = n
            \/ ~IsNull(Parent(n)) /\ (n = Left(Parent(n)) \/ n = Right(Parent(n)))
<1>1. n \in Seq(Steps) /\ Len(n) \in Nat
      BY DEF IsPath, Steps, IsNull, Missing, At
<1>2. CASE n = <<>>
      <2>1. Parent(n) = n
            BY <1>2, SubSeqEmpty DEF Parent
      <2>2. QED
            BY <1>2, <2>1
<1>3. CASE n # <<>>
      <2>1. PICK m \in Seq(Steps), d \in Steps : n = Append(m, d)
            BY <1>1, <1>3, SequenceEmptyOrAppend, Zenon
      <2>2. /\ Parent(n) = m /\ Len(n) = Len(m) + 1 /\ Len(m) \in Nat
            /\ \A k \in 0..Len(m) : SubSeq(n, 1, k) = SubSeq(m, 1, k)
            /\ SubSeq(m, 1, Len(m)) = m
            BY <2>1, ChildPath
      <2>3. \A k \in 0..Len(m) : ~IsNull(SubSeq(m, 1, k))
            <3>1. Len(n) - 1 = Len(m)
                  BY <2>2
            <3>2. QED
                  BY <2>2, <3>1 DEF IsPath, IsNull, Missing, At
      <2>4. ~IsNull(m) /\ IsPath(tree, m)
            <3>1. Len(m) \in 0..Len(m) /\ 0..(Len(m) - 1) \subseteq 0..Len(m)
                  BY <2>2
            <3>2. QED
                  BY <2>1, <2>2, <2>3, <3>1 DEF IsPath, Steps, IsNull, Missing, At
      <2>5. n = Left(m) \/ n = Right(m)
            BY <2>1 DEF Left, Right, Steps
      <2>6. QED
            BY <2>2, <2>4, <2>5
<1>4. QED
      BY <1>2, <1>3

(* A node is not its own child.                                            *)
LEMMA ChildIsNew ==
  ASSUME NEW n, IsPath(tree, n)
  PROVE  Left(n) # n /\ Right(n) # n
<1>1. n \in Seq(Steps) /\ Len(n) \in Nat
      BY DEF IsPath, Steps, IsNull, Missing, At
<1>2. \A d \in Steps : Len(Append(n, d)) = Len(n) + 1
      BY <1>1, ChildPath
<1>3. \A d \in Steps : Append(n, d) # n
      BY <1>1, <1>2
<1>4. QED
      BY <1>3 DEF Left, Right, Steps

(* What has a type or a subtype is there.                                  *)
LEMMA NotNull ==
  ASSUME NEW n, At(n).type # "NULL" \/ At(n).subtype # "NONE"
  PROVE  ~IsNull(n)
BY DEF IsNull, NULL

(* Every node of a program in plain style is in plain style.               *)
LEMMA PlainNode ==
  ASSUME NEW n, Plain(tree), IsPath(tree, n), ~IsNull(n)
  PROVE  PlainAt(tree, n)
BY DEF Plain, IsPath, IsNull, Missing, At

(* An operand of ++ and -- loads something.                                *)
LEMMA OperandLoads ==
  ASSUME NEW n, Plain(tree), IsPath(tree, n), IsOperand(n)
  PROVE  Loads(tree, n) /\ ~IsNull(n)
<1>1. At(Parent(n)).type = "UNARY_OP" /\ n = Operand(tree, Parent(n))
      BY DEF IsOperand
<1>2. IsPath(tree, Parent(n)) /\ ~IsNull(Parent(n))
      BY <1>1, Parents, NotNull
<1>3. Loads(tree, n)
      BY <1>1, <1>2, PlainNode DEF PlainAt, At
<1>4. QED
      BY <1>3, NotNull DEF Loads, At

(* The operand of ++ or -- is a child of it.                               *)
LEMMA OperandOf ==
  ASSUME NEW n, IsPath(tree, n), At(n).type = "UNARY_OP"
  PROVE  /\ IsPath(tree, Operand(tree, n)) /\ Parent(Operand(tree, n)) = n
         /\ IsOperand(Operand(tree, n))
<1>1. IsPath(tree, Left(n)) /\ IsPath(tree, Right(n)) /\ Parent(Left(n)) = n /\ Parent(Right(n)) = n
      BY NotNull, Children
<1>2. Operand(tree, n) = Left(n) \/ Operand(tree, n) = Right(n)
      BY DEF Operand, IsNull, Missing, At
<1>3. QED
      BY <1>1, <1>2 DEF IsOperand

(* A child of any other node is no such operand.                           *)
LEMMA NoOperandBelow ==
  ASSUME NEW n, IsPath(tree, n), ~IsNull(n), At(n).type # "UNARY_OP"
  PROVE  ~IsOperand(Left(n)) /\ ~IsOperand(Right(n))
BY Children DEF IsOperand

-----------------------------------------------------------------------------
(* Work in a chain.                                                        *)

(* No work leads nowhere else.                                             *)
LEMMA LeadsNone ==
  ASSUME NEW s \in States
  PROVE  Leads(s, <<>>, s)
<1>1. PICK h : h = [i \in 1..1 |-> s]
      OBVIOUS
<1>2. Len(<<>>) = 0 /\ h \in [1..(0 + 1) -> States] /\ h[1] = s
      BY <1>1
<1>3. QED
      BY <1>2 DEF Leads

(* One item.                                                               *)
LEMMA LeadsOne ==
  ASSUME NEW a, NEW s \in States, NEW e \in States, Does(a, s, e)
  PROVE  Leads(s, <<a>>, e)
<1>1. PICK h : h = [i \in 1..2 |-> IF i = 1 THEN s ELSE e]
      OBVIOUS
<1>2. /\ Len(<<a>>) = 1 /\ <<a>>[1] = a /\ 1 + 1 = 2
      /\ h \in [1..2 -> States] /\ h[1] = s /\ h[2] = e
      BY <1>1
<1>3. \A i \in 1..1 : i = 1
      OBVIOUS
<1>4. \A i \in 1..1 : Does(<<a>>[i], h[i], h[i + 1])
      BY <1>2, <1>3
<1>5. QED
      BY <1>2, <1>4 DEF Leads

(* Work that leads to m, and then work that leads from m.                  *)
LEMMA LeadsJoin ==
  ASSUME NEW v, IsSequence(v), NEW w, IsSequence(w),
         NEW s \in States, NEW m \in States, NEW e \in States, Leads(s, v, m), Leads(m, w, e)
  PROVE  Leads(s, v \o w, e)
<1>1. PICK p : p = Len(v)
      OBVIOUS
<1>2. PICK q : q = Len(w)
      OBVIOUS
<1>3. /\ p \in Nat /\ q \in Nat /\ Len(v \o w) = p + q
      /\ \A i \in 1..p : (v \o w)[i] = v[i]
      /\ \A i \in 1..q : (v \o w)[p + i] = w[i]
      BY <1>1, <1>2, Concatenation
<1>4. PICK g \in [1..(p + 1) -> States] :
        g[1] = s /\ g[p + 1] = m /\ \A i \in 1..p : Does(v[i], g[i], g[i + 1])
      BY <1>1 DEF Leads
<1>5. PICK h \in [1..(q + 1) -> States] :
        h[1] = m /\ h[q + 1] = e /\ \A i \in 1..q : Does(w[i], h[i], h[i + 1])
      BY <1>2 DEF Leads
<1>6. PICK f : f = [i \in 1..(p + q + 1) |-> IF i <= p THEN g[i] ELSE h[i - p]]
      OBVIOUS
<1>7. f \in [1..(p + q + 1) -> States]
      <2>1. ASSUME NEW i \in 1..(p + q + 1), i <= p PROVE g[i] \in States
            <3>1. i \in 1..(p + 1)
                  BY <1>3, <2>1
            <3>2. QED
                  BY <3>1
      <2>2. ASSUME NEW i \in 1..(p + q + 1), ~(i <= p) PROVE h[i - p] \in States
            <3>1. i - p \in 1..(q + 1)
                  BY <1>3, <2>2
            <3>2. QED
                  BY <3>1
      <2>3. QED
            BY <1>6, <2>1, <2>2
<1>8. \A i \in 1..(p + 1) : f[i] = g[i]
      <2>1. ASSUME NEW i \in 1..(p + 1), i <= p PROVE f[i] = g[i]
            BY <1>3, <1>6, <2>1
      <2>2. f[p + 1] = h[1]
            <3>1. p + 1 \in 1..(p + q + 1) /\ ~(p + 1 <= p) /\ (p + 1) - p = 1
                  BY <1>3
            <3>2. QED
                  BY <1>6, <3>1
      <2>3. \A i \in 1..(p + 1) : i <= p \/ i = p + 1
            BY <1>3
      <2>4. QED
            BY <1>4, <1>5, <2>1, <2>2, <2>3
<1>9. \A i \in 1..(q + 1) : f[p + i] = h[i]
      <2>1. \A i \in 1..(q + 1) :
              p + i \in 1..(p + q + 1) /\ ~(p + i <= p) /\ (p + i) - p = i
            BY <1>3
      <2>2. QED
            BY <1>6, <2>1
<1>10. ASSUME NEW i \in 1..(p + q)
       PROVE  Does((v \o w)[i], f[i], f[i + 1])
       <2>1. CASE i \in 1..p
             <3>1. i \in 1..(p + 1) /\ i + 1 \in 1..(p + 1)
                   BY <1>3, <2>1
             <3>2. QED
                   BY <1>3, <1>4, <1>8, <2>1, <3>1
       <2>2. ASSUME NEW j \in 1..q, i = p + j
             PROVE  Does((v \o w)[i], f[i], f[i + 1])
             <3>1. j \in 1..(q + 1) /\ j + 1 \in 1..(q + 1) /\ (p + j) + 1 = p + (j + 1)
                   BY <1>3
             <3>2. (v \o w)[i] = w[j] /\ f[i] = h[j] /\ f[i + 1] = h[j + 1]
                   BY <1>3, <1>9, <2>2, <3>1
             <3>3. QED
                   BY <1>5, <3>2
       <2>3. QED
             BY <1>3, <2>1, <2>2, Split
<1>11. f[1] = s /\ f[(p + q) + 1] = e
       <2>1. 1 \in 1..(p + 1) /\ q + 1 \in 1..(q + 1) /\ (p + q) + 1 = p + (q + 1)
             BY <1>3
       <2>2. QED
             BY <1>4, <1>5, <1>8, <1>9, <2>1
<1>12. QED
       BY <1>3, <1>7, <1>10, <1>11 DEF Leads

(* The next item and what comes after it.                                  *)
LEMMA LeadsHead ==
  ASSUME NEW work, IsSequence(work), work # <<>>,
         NEW s \in States, NEW e \in States, Leads(s, work, e)
  PROVE  \E m \in States : Does(Head(work), s, m) /\ Leads(m, Tail(work), e)
<1>1. PICK S : work \in Seq(S)
      BY DEF IsSequence
<1>2. PICK p : p = Len(Tail(work))
      OBVIOUS
<1>3. /\ p \in Nat /\ Len(work) = p + 1 /\ Head(work) = work[1]
      /\ \A i \in 1..p : Tail(work)[i] = work[i + 1]
      BY <1>1, <1>2
<1>4. PICK g \in [1..(p + 2) -> States] :
        g[1] = s /\ g[p + 2] = e /\ \A i \in 1..(p + 1) : Does(work[i], g[i], g[i + 1])
      <2>1. (p + 1) + 1 = p + 2
            BY <1>3
      <2>2. QED
            BY <1>3, <2>1 DEF Leads
<1>5. PICK h : h = [i \in 1..(p + 1) |-> g[i + 1]]
      OBVIOUS
<1>6. \A i \in 1..(p + 1) : i + 1 \in 1..(p + 2)
      BY <1>3
<1>7. h \in [1..(p + 1) -> States]
      BY <1>5, <1>6
<1>8. h[1] = g[2] /\ h[p + 1] = e
      <2>1. 1 \in 1..(p + 1) /\ p + 1 \in 1..(p + 1) /\ 1 + 1 = 2 /\ (p + 1) + 1 = p + 2
            BY <1>3
      <2>2. QED
            BY <1>4, <1>5, <2>1
<1>9. ASSUME NEW i \in 1..p PROVE Does(Tail(work)[i], h[i], h[i + 1])
      <2>1. i \in 1..(p + 1) /\ i + 1 \in 1..(p + 1)
            BY <1>3
      <2>2. h[i] = g[i + 1] /\ h[i + 1] = g[(i + 1) + 1]
            BY <1>5, <2>1
      <2>3. QED
            BY <1>3, <1>4, <2>1, <2>2
<1>10. g[2] \in States /\ Does(Head(work), s, g[2])
       <2>1. 2 \in 1..(p + 2) /\ 1 \in 1..(p + 1) /\ 1 + 1 = 2
             BY <1>3
       <2>2. QED
             BY <1>3, <1>4, <2>1
<1>11. Leads(g[2], Tail(work), e)
       BY <1>2, <1>7, <1>8, <1>9 DEF Leads
<1>12. QED
       BY <1>10, <1>11

(* Short chains.                                                           *)
LEMMA SequenceOne ==
  ASSUME NEW a
  PROVE  IsSequence(<<a>>) /\ Len(<<a>>) = 1 /\ <<a>>[1] = a
<1>1. <<a>> \in Seq({a}) /\ Len(<<a>>) = 1 /\ <<a>>[1] = a
      OBVIOUS
<1>2. QED
      BY <1>1, Zenon DEF IsSequence

(* A list of two, one after the other.                                     *)
LEMMA Pair ==
  ASSUME NEW a, NEW b
  PROVE  <<a, b>> = <<a>> \o <<b>>
<1>1. PICK S : S = {a, b}
      OBVIOUS
<1>2. a \in S /\ b \in S
      BY <1>1
<1>3. /\ <<a>> \o <<b>> \in Seq(S) /\ Len(<<a>> \o <<b>>) = 2
      /\ (<<a>> \o <<b>>)[1] = a /\ (<<a>> \o <<b>>)[2] = b
      BY <1>2
<1>4. <<a, b>> \in Seq(S) /\ Len(<<a, b>>) = 2 /\ <<a, b>>[1] = a /\ <<a, b>>[2] = b
      BY <1>2
<1>5. \A i \in 1..2 : i = 1 \/ i = 2
      OBVIOUS
<1>6. QED
      BY <1>3, <1>4, <1>5, SeqEqual

(* Two items.                                                              *)
LEMMA LeadsTwo ==
  ASSUME NEW a, NEW b, NEW s \in States, NEW m \in States, NEW e \in States,
         Does(a, s, m), Does(b, m, e)
  PROVE  Leads(s, <<a, b>>, e) /\ IsSequence(<<a, b>>) /\ <<a, b>>[1] = a /\ <<a, b>> # <<>>
<1>1. <<a, b>> = <<a>> \o <<b>>
      BY Pair
<1>2. Leads(s, <<a>>, m) /\ Leads(m, <<b>>, e)
      BY LeadsOne
<1>3. <<a, b>>[1] = a /\ Len(<<a, b>>) = 2 /\ Len(<<>>) = 0
      OBVIOUS
<1>4. QED
      BY <1>1, <1>2, <1>3, SequenceOne, LeadsJoin, Concatenation

(* Three.                                                                  *)
LEMMA LeadsThree ==
  ASSUME NEW a, NEW b, NEW c, NEW s \in States, NEW m \in States, NEW n \in States,
         NEW e \in States, Does(a, s, m), Does(b, m, n), Does(c, n, e)
  PROVE  /\ Leads(s, <<a, b, c>>, e) /\ IsSequence(<<a, b, c>>)
         /\ <<a, b, c>>[1] = a /\ <<a, b, c>> # <<>>
<1>1. <<a, b, c>> = <<a, b>> \o <<c>> /\ <<a, b, c>>[1] = a /\ <<a, b, c>> # <<>>
      OBVIOUS
<1>2. Leads(s, <<a, b>>, n) /\ IsSequence(<<a, b>>)
      BY LeadsTwo
<1>3. Leads(n, <<c>>, e)
      BY LeadsOne
<1>4. QED
      BY <1>1, <1>2, <1>3, SequenceOne, LeadsJoin, Concatenation

(* Four.                                                                   *)
LEMMA LeadsFour ==
  ASSUME NEW a, NEW b, NEW c, NEW d, NEW s \in States, NEW m \in States, NEW n \in States,
         NEW o \in States, NEW e \in States,
         Does(a, s, m), Does(b, m, n), Does(c, n, o), Does(d, o, e)
  PROVE  /\ Leads(s, <<a, b, c, d>>, e) /\ IsSequence(<<a, b, c, d>>)
         /\ <<a, b, c, d>>[1] = a /\ <<a, b, c, d>> # <<>>
<1>1. /\ <<a, b, c, d>> = <<a, b, c>> \o <<d>>
      /\ <<a, b, c, d>>[1] = a /\ <<a, b, c, d>> # <<>>
      OBVIOUS
<1>2. Leads(s, <<a, b, c>>, o) /\ IsSequence(<<a, b, c>>)
      BY LeadsThree
<1>3. Leads(o, <<d>>, e)
      BY LeadsOne
<1>4. QED
      BY <1>1, <1>2, <1>3, SequenceOne, LeadsJoin, Concatenation

(* Five.                                                                   *)
LEMMA LeadsFive ==
  ASSUME NEW a, NEW b, NEW c, NEW d, NEW f, NEW s \in States, NEW m \in States,
         NEW n \in States, NEW o \in States, NEW q \in States, NEW e \in States,
         Does(a, s, m), Does(b, m, n), Does(c, n, o), Does(d, o, q), Does(f, q, e)
  PROVE  /\ Leads(s, <<a, b, c, d, f>>, e) /\ IsSequence(<<a, b, c, d, f>>)
         /\ <<a, b, c, d, f>>[1] = a /\ <<a, b, c, d, f>> # <<>>
<1>1. /\ <<a, b, c, d, f>> = <<a, b, c, d>> \o <<f>>
      /\ <<a, b, c, d, f>>[1] = a /\ <<a, b, c, d, f>> # <<>>
      OBVIOUS
<1>2. Leads(s, <<a, b, c, d>>, q) /\ IsSequence(<<a, b, c, d>>)
      BY LeadsFour
<1>3. Leads(q, <<f>>, e)
      BY LeadsOne
<1>4. QED
      BY <1>1, <1>2, <1>3, SequenceOne, LeadsJoin, Concatenation

-----------------------------------------------------------------------------
(* The list.                                                               *)

(* The nodes irns read registers that were written before them in the same *)
(* statement, which they do not end.                                       *)
Good(irns) ==
  /\ IsSequence(irns)
  /\ \A j \in 1..Len(irns) :
       /\ irns[j].opcode # "EOS"
       /\ \A t : Reader(irns[j], t) => Usable(t) \/ \E w \in 1..(j - 1) : Sets(irns[w], t)

Grown(irns) ==
  /\ ReadsWritten' /\ EosHasNoRegister(irlist)'
  /\ \A t : Recent(t) => Recent(t)'
  /\ \A j \in 1..Len(irns) : \A t : Sets(irns[j], t) => Recent(t)'

(* The list after good nodes were appended.                                *)
LEMMA Grow ==
  ASSUME Inv, ReadsWritten, EosHasNoRegister(irlist), NEW irns, Good(irns), Append_ir_nodes(irns)
  PROVE  Grown(irns)
<1>1. PICK m : m = Len(irlist)
      OBVIOUS
<1>2. PICK k : k = Len(irns)
      OBVIOUS
<1>3. /\ m \in Nat /\ k \in Nat /\ Len(irlist') = m + k
      /\ \A i \in 1..m : irlist'[i] = irlist[i]
      /\ \A i \in 1..k : irlist'[m + i] = irns[i]
      BY <1>1, <1>2, Concatenation DEF Append_ir_nodes, Good, Inv
<1>4. \A i \in 1..(m + k) : i \in 1..m \/ \E j \in 1..k : i = m + j
      BY <1>3, Split
<1>5. \A j \in 1..k : irlist'[m + j].opcode # "EOS"
      BY <1>2, <1>3 DEF Good
<1>6. ASSUME NEW t, Recent(t)
      PROVE  \E w \in 1..m : /\ Sets(irlist'[w], t)
                             /\ \A e \in w..(m + k) : irlist'[e].opcode # "EOS"
      <2>1. PICK w \in 1..m : Writes(w, t) /\ \A e \in w..m : ~IsEos(irlist, e)
            BY <1>1, <1>6 DEF Recent, Nodes
      <2>2. Sets(irlist'[w], t)
            BY <1>3, <2>1 DEF Writes, Sets
      <2>3. ASSUME NEW e \in w..(m + k) PROVE irlist'[e].opcode # "EOS"
            <3>1. e \in 1..(m + k) /\ (e \in 1..m => e \in w..m)
                  BY <1>3
            <3>2. QED
                  BY <1>3, <1>4, <1>5, <2>1, <3>1 DEF IsEos
      <2>4. QED
            BY <2>2, <2>3
<1>7. \A t : Recent(t) => Recent(t)'
      <2>1. \A w \in 1..m : w \in 1..(m + k)
            BY <1>3
      <2>2. QED
            BY <1>3, <1>6, <2>1 DEF Recent, Nodes, Writes, Sets, IsEos
<1>8. ASSUME NEW j \in 1..k, NEW t, Sets(irns[j], t)
      PROVE  Recent(t)'
      <2>1. Sets(irlist'[m + j], t) /\ m + j \in 1..(m + k)
            BY <1>3, <1>8
      <2>2. ASSUME NEW e \in (m + j)..(m + k) PROVE irlist'[e].opcode # "EOS"
            <3>1. e - m \in 1..k /\ e = m + (e - m)
                  BY <1>3
            <3>2. QED
                  BY <1>5, <3>1
      <2>3. QED
            BY <1>3, <2>1, <2>2 DEF Recent, Nodes, Writes, Sets, IsEos
<1>9. ASSUME NEW i \in 1..(m + k), NEW t, Reader(irlist'[i], t), t \notin Special
      PROVE  \E w \in 1..(i - 1) : /\ Sets(irlist'[w], t)
                                   /\ \A e \in w..i : irlist'[e].opcode # "EOS"
      <2>1. CASE i \in 1..m
            <3>1. Reader(irlist[i], t)
                  BY <1>3, <1>9, <2>1 DEF Reader
            <3>2. PICK w \in 1..(i - 1) : Writes(w, t) /\ \A e \in w..i : ~IsEos(irlist, e)
                  BY <1>1, <1>9, <2>1, <3>1 DEF ReadsWritten, Nodes
            <3>3. w \in 1..m /\ \A e \in w..i : e \in 1..m
                  BY <1>3, <2>1
            <3>4. QED
                  BY <1>3, <3>2, <3>3 DEF Writes, Sets, IsEos
      <2>2. ASSUME NEW j \in 1..k, i = m + j
            PROVE  \E w \in 1..(i - 1) : /\ Sets(irlist'[w], t)
                                         /\ \A e \in w..i : irlist'[e].opcode # "EOS"
            <3>1. Reader(irns[j], t)
                  BY <1>3, <1>9, <2>2
            <3>2. Recent(t) \/ \E w \in 1..(j - 1) : Sets(irns[w], t)
                  BY <1>2, <1>9, <3>1 DEF Good, Usable
            <3>3. CASE Recent(t)
                  <4>1. PICK w \in 1..m : /\ Sets(irlist'[w], t)
                                          /\ \A e \in w..(m + k) : irlist'[e].opcode # "EOS"
                        BY <1>6, <3>3
                  <4>2. w \in 1..(i - 1) /\ \A e \in w..i : e \in w..(m + k)
                        BY <1>3, <2>2
                  <4>3. QED
                        BY <4>1, <4>2
            <3>4. ASSUME NEW w \in 1..(j - 1), Sets(irns[w], t)
                  PROVE  \E v \in 1..(i - 1) : /\ Sets(irlist'[v], t)
                                               /\ \A e \in v..i : irlist'[e].opcode # "EOS"
                  <4>1. w \in 1..k /\ m + w \in 1..(i - 1)
                        BY <1>3, <2>2
                  <4>2. Sets(irlist'[m + w], t)
                        BY <1>3, <3>4, <4>1
                  <4>3. \A e \in (m + w)..i : e - m \in 1..k /\ e = m + (e - m)
                        BY <1>3, <2>2
                  <4>4. QED
                        BY <1>5, <4>1, <4>2, <4>3
            <3>5. QED
                  BY <3>2, <3>3, <3>4
      <2>3. QED
            BY <1>4, <2>1, <2>2
<1>10. ReadsWritten'
       BY <1>3, <1>9 DEF ReadsWritten, Nodes, Reader, Writes, Sets, IsEos
<1>11. EosHasNoRegister(irlist)'
       <2>1. ASSUME NEW i \in 1..(m + k), irlist'[i].opcode = "EOS"
             PROVE  \A n \in 1..3 : irlist'[i].operand[n].type # "REGISTER"
             BY <1>1, <1>3, <1>4, <1>5, <2>1 DEF EosHasNoRegister, IsEos, IsReg
       <2>2. QED
             BY <1>3, <2>1 DEF EosHasNoRegister, IsEos, IsReg
<1>12. QED
       BY <1>2, <1>7, <1>8, <1>10, <1>11 DEF Grown

(* One node.                                                               *)
LEMMA GrowOne ==
  ASSUME Inv, ReadsWritten, EosHasNoRegister(irlist), NEW irn, irn.opcode # "EOS",
         \A t : Reader(irn, t) => Usable(t), Append_ir_nodes(<<irn>>)
  PROVE  /\ ReadsWritten' /\ EosHasNoRegister(irlist)'
         /\ \A t : Recent(t) => Recent(t)'
         /\ \A t : Sets(irn, t) => Recent(t)'
<1>1. IsSequence(<<irn>>) /\ Len(<<irn>>) = 1 /\ <<irn>>[1] = irn
      BY SequenceOne
<1>2. \A j \in 1..1 : j = 1
      OBVIOUS
<1>3. Good(<<irn>>)
      BY <1>1, <1>2 DEF Good
<1>4. Grown(<<irn>>)
      BY <1>3, Grow
<1>5. 1 \in 1..1
      OBVIOUS
<1>6. QED
      BY <1>1, <1>4, <1>5 DEF Grown

(* An end of statement.                                                    *)
LEMMA GrowEnd ==
  ASSUME Inv, ReadsWritten, EosHasNoRegister(irlist), NEW irn, ~HasRegister(irn),
         Append_ir_nodes(<<irn>>)
  PROVE  ReadsWritten' /\ EosHasNoRegister(irlist)'
<1>1. PICK m : m = Len(irlist)
      OBVIOUS
<1>2. /\ m \in Nat /\ Len(irlist') = m + 1
      /\ \A i \in 1..m : irlist'[i] = irlist[i]
      /\ irlist'[m + 1] = irn
      <2>1. 1 \in 1..1
            OBVIOUS
      <2>2. QED
            BY <1>1, <2>1, SequenceOne, Concatenation DEF Append_ir_nodes, Inv
<1>3. \A i \in 1..(m + 1) : i \in 1..m \/ i = m + 1
      BY <1>2
<1>4. \A t : ~Reader(irn, t)
      BY DEF Reader, HasRegister, IsRegister
<1>5. ASSUME NEW i \in 1..(m + 1), NEW t, Reader(irlist'[i], t), t \notin Special
      PROVE  \E w \in 1..(i - 1) : /\ Sets(irlist'[w], t)
                                   /\ \A e \in w..i : irlist'[e].opcode # "EOS"
      <2>1. i \in 1..m
            BY <1>2, <1>3, <1>4, <1>5
      <2>2. Reader(irlist[i], t)
            BY <1>2, <1>5, <2>1 DEF Reader
      <2>3. PICK w \in 1..(i - 1) : Writes(w, t) /\ \A e \in w..i : ~IsEos(irlist, e)
            BY <1>1, <1>5, <2>1, <2>2 DEF ReadsWritten, Nodes
      <2>4. w \in 1..m /\ \A e \in w..i : e \in 1..m
            BY <1>2, <2>1
      <2>5. QED
            BY <1>2, <2>3, <2>4 DEF Writes, Sets, IsEos
<1>6. ReadsWritten'
      BY <1>2, <1>5 DEF ReadsWritten, Nodes, Reader, Writes, Sets, IsEos
<1>7. EosHasNoRegister(irlist)'
      <2>1. ASSUME NEW i \in 1..(m + 1), irlist'[i].opcode = "EOS"
            PROVE  \A n \in 1..3 : irlist'[i].operand[n].type # "REGISTER"
            BY <1>1, <1>2, <1>3, <2>1 DEF EosHasNoRegister, IsEos, IsReg, HasRegister
      <2>2. QED
            BY <1>2, <2>1 DEF EosHasNoRegister, IsEos, IsReg
<1>8. QED
      BY <1>6, <1>7

-----------------------------------------------------------------------------
(* What each item does.                                                    *)

Same(s, e) == e.height = s.height /\ (e.lost <=> s.lost) /\ ~e.fresh
Ground(s)  == s.height = 0 /\ ~s.lost /\ ~s.recent /\ ~s.fresh

(* The items between statements, which leave nothing on vals.              *)
LEMMA DoesOutside ==
  ASSUME NEW n, IsPath(tree, n), NEW s \in States, s.height = 0, ~s.lost,
         NEW e \in States, Ground(e)
  PROVE  /\ Does(Build(n), s, e) /\ Does(Switch(n), s, e)
         /\ ~IsNull(n) => Does(ElseJump(n), s, e) /\ Does(ElseEnd(n), s, e)
         /\ At(n).subtype = "FOR_STMT" => Does(ForTest(n), s, e)
<1>1. At(n).subtype = "FOR_STMT" => ~IsNull(n)
      BY NotNull
<1>2. QED
      BY <1>1 DEF Does, Fits, Needs, Leaves, Outside, Ground, States,
                  Build, Switch, ElseJump, ElseEnd, ForTest

(* An expression leaves its value.                                         *)
LEMMA DoesGenerate ==
  ASSUME NEW n, NEW v, IsPath(tree, n), NEW s \in States, ~s.lost, NEW e \in States, ~e.fresh,
         e.height = s.height + 1, e.lost <=> ~HasValue(tree, n),
         \/ ~IsOperand(n) /\ (e.recent => s.recent)
         \/ IsOperand(n) /\ s.fresh
  PROVE  Does(Generate(n, v), s, e)
BY DEF Does, Fits, Needs, Leaves, Outside, States, Generate

(* The value is not used.                                                  *)
LEMMA DoesDrop ==
  ASSUME NEW s \in States, NEW e \in States, ~e.fresh,
         s.height = e.height + 1, ~e.lost, e.recent => s.recent
  PROVE  Does(Drop, s, e)
BY DEF Does, Fits, Needs, Leaves, Outside, States, Drop

(* A test uses it.                                                         *)
LEMMA DoesBranch ==
  ASSUME NEW n, NEW op \in {"BLEZ", "BGZ"}, NEW l, IsPath(tree, n), ~IsNull(n),
         NEW s \in States, ~s.lost, NEW e \in States, ~e.fresh,
         s.height = e.height + 1, ~e.lost, e.recent => s.recent
  PROVE  Does(Branch(n, op, l), s, e)
BY DEF Does, Fits, Needs, Leaves, Outside, States, Branch

(* ++ uses the last temporary and returns it.                              *)
LEMMA DoesIncrement ==
  ASSUME NEW n, NEW by, IsPath(tree, n), ~IsNull(n), NEW s \in States, ~s.lost, s.recent,
         s.height >= 1, NEW e \in States, ~e.fresh, e.height = s.height, ~e.lost
  PROVE  Does(Increment(n, by), s, e)
BY DEF Does, Fits, Needs, Leaves, Outside, States, Increment

(* A return uses it and returns none.                                      *)
LEMMA DoesReturn ==
  ASSUME NEW n, IsPath(tree, n), ~IsNull(n), NEW s \in States, ~s.lost, s.height >= 1,
         NEW e \in States, ~e.fresh, e.height = s.height, ~e.lost, e.recent => s.recent
  PROVE  Does(Return(n), s, e)
BY DEF Does, Fits, Needs, Leaves, Outside, States, Return

(* A store uses two; what it returns may be no register.                   *)
LEMMA DoesStore ==
  ASSUME NEW n, IsPath(tree, n), ~IsNull(n), NEW s \in States, ~s.lost,
         NEW e \in States, ~e.fresh, e.height >= 1, s.height = e.height + 1, e.lost,
         e.recent => s.recent
  PROVE  Does(Store(n), s, e)
BY DEF Does, Fits, Needs, Leaves, Outside, States, Store

(* An operation uses two and leaves one.                                   *)
LEMMA DoesOperate ==
  ASSUME NEW n, NEW op \in Operators, IsPath(tree, n), ~IsNull(n), NEW s \in States, ~s.lost,
         NEW e \in States, ~e.fresh, e.height >= 1, s.height = e.height + 1, ~e.lost
  PROVE  Does(Operate(n, Opcode(op)), s, e)
BY DEF Does, Fits, Needs, Leaves, Outside, States, Operate

(* The ends of a logical operator leave one.                               *)
LEMMA DoesTruth ==
  ASSUME NEW n, NEW first, NEW v, NEW second, NEW done, IsPath(tree, n), ~IsNull(n),
         NEW s \in States, ~s.lost, NEW e \in States, ~e.fresh, e.height = s.height + 1, ~e.lost
  PROVE  Does(Truth(n, first, v, second, done), s, e)
BY DEF Does, Fits, Needs, Leaves, Outside, States, Truth

(* The end of generate_ir_node leaves what there is.                       *)
LEMMA DoesParam ==
  ASSUME NEW n, IsPath(tree, n), ~IsNull(n), NEW s \in States, NEW e \in States, ~e.fresh,
         e.height = s.height, e.lost <=> s.lost, e.recent => s.recent,
         IsArgument(n) => s.recent
  PROVE  Does(Param(n), s, e)
BY DEF Does, Fits, Needs, Leaves, Outside, States, Param

(* A node that reads no temporary.                                         *)
LEMMA DoesEmit ==
  ASSUME NEW irn, \A t : Reader(irn, t) => t \in Special,
         NEW s \in States, ~s.lost, NEW e \in States, ~e.fresh,
         e.height = s.height, ~e.lost, e.recent => s.recent,
         irn.opcode = "EOS" => s.height = 0 /\ ~HasRegister(irn) /\ ~e.recent
  PROVE  Does(Emit(irn), s, e)
BY DEF Does, Fits, Needs, Leaves, Outside, States, Emit

(* The nodes that are known beforehand.                                    *)
LEMMA ReaderOf ==
  ASSUME NEW n, NEW op, NEW a, NEW b, NEW c, NEW t
  PROVE  Reader(IrNode(n, op, a, b, c), t) <=>
           \/ IsRegister(a, t) /\ op \notin Writing
           \/ IsRegister(b, t) \/ IsRegister(c, t)
<1>1. PICK o : o = IrNode(n, op, a, b, c).operand
      OBVIOUS
<1>2. o[1] = a /\ o[2] = b /\ o[3] = c /\ IrNode(n, op, a, b, c).opcode = op
      BY <1>1 DEF IrNode
<1>3. \A k \in 1..3 : k = 1 \/ k = 2 \/ k = 3
      OBVIOUS
<1>4. 1 \in 1..3 /\ 2 \in 1..3 /\ 3 \in 1..3
      OBVIOUS
<1>5. QED
      BY <1>1, <1>2, <1>3, <1>4 DEF Reader

(* An operand that is the register t was made for t.                       *)
LEMMA Operands ==
  ASSUME NEW t, NEW u
  PROVE  /\ IsRegister(Reg(u), t) => u = t
         /\ ~IsRegister(Lab(u), t) /\ ~IsRegister(Imm(u), t) /\ ~IsRegister(Ptr(u), t)
         /\ ~IsRegister(NoOperand, t)
BY DEF IsRegister, Reg, Lab, Imm, Ptr, NoOperand

(* Labels, jumps and loads read nothing.                                   *)
LEMMA KnownNodes ==
  ASSUME NEW n, NEW l, NEW t
  PROVE  /\ ~Reader(LabelNode(n, l), t) /\ ~Reader(JumpNode(n, l), t)
         /\ \A r, v : ~Reader(LoadNode(n, r, v), t)
         /\ Reader(IrNode(n, "BGZ", Reg(REGISTERZERO), Lab(l), NoOperand), t) => t \in Special
         /\ LabelNode(n, l).opcode # "EOS" /\ JumpNode(n, l).opcode # "EOS"
         /\ \A r, v : LoadNode(n, r, v).opcode # "EOS"
         /\ \A r, v, u : Sets(LoadNode(n, r, v), u) => u = r
         /\ IrNode(n, "BGZ", Reg(REGISTERZERO), Lab(l), NoOperand).opcode # "EOS"
<1>1. ~Reader(LabelNode(n, l), t) /\ ~Reader(JumpNode(n, l), t)
      BY ReaderOf, Operands DEF LabelNode, JumpNode
<1>2. ASSUME NEW r, NEW v PROVE ~Reader(LoadNode(n, r, v), t)
      <2>1. "LI" \in Writing
            BY DEF Writing
      <2>2. QED
            BY <2>1, ReaderOf, Operands DEF LoadNode
<1>3. Reader(IrNode(n, "BGZ", Reg(REGISTERZERO), Lab(l), NoOperand), t) => t \in Special
      <2>1. REGISTERZERO \in Special
            BY DEF Special
      <2>2. QED
            BY <2>1, ReaderOf, Operands
<1>4. QED
      BY <1>1, <1>2, <1>3 DEF LabelNode, JumpNode, LoadNode, IrNode, Sets, Reg

(* The end of statement that build_ir appends uses no register.            *)
LEMMA EosHasNone ==
  ASSUME NEW n
  PROVE  ~HasRegister(EosNode(n)) /\ EosNode(n).opcode = "EOS"
<1>1. \A k \in 1..3 : k = 1 \/ k = 2 \/ k = 3
      OBVIOUS
<1>2. QED
      BY <1>1 DEF HasRegister, EosNode, IrNode, NoOperand

-----------------------------------------------------------------------------
(* Steps.                                                                  *)

(* What is said of work is said of the tree, which does not change.        *)
LEMMA SameTree ==
  ASSUME tree' = tree
  PROVE  /\ \A n : At(n)' = At(n) /\ IsNull(n)' = IsNull(n) /\ IsPath(tree, n)' = IsPath(tree, n)
         /\ \A n : IsOperand(n)' = IsOperand(n)
         /\ \A s, work, e : Leads(s, work, e)' = Leads(s, work, e)
<1>1. \A n : At(n)' = At(n) /\ IsNull(n)' = IsNull(n)
      BY DEF At, IsNull
<1>2. \A n : IsPath(tree, n)' = IsPath(tree, n)
      BY <1>1 DEF IsPath, IsNull, Missing, At
<1>3. \A n : IsOperand(n)' = IsOperand(n)
      BY <1>1 DEF IsOperand, Operand, IsNull, Missing, At
<1>4. \A n : HasValue(tree, n)' = HasValue(tree, n) /\ IsArgument(n)' = IsArgument(n)
      BY <1>1 DEF HasValue, IsArgument, At
<1>5. \A item, s : Fits(item, s)' = Fits(item, s)
      BY <1>1, <1>2, <1>3, <1>4 DEF Fits
<1>6. \A item, s, e : Does(item, s, e)' = Does(item, s, e)
      BY <1>3, <1>4, <1>5 DEF Does
<1>7. QED
      BY <1>1, <1>2, <1>3, <1>6 DEF Leads

(* The next item, and where it leads.                                      *)
LEMMA NextItem ==
  ASSUME ValueInv, todo # <<>>
  PROVE  /\ ~crashed
         /\ \E s, m, e \in States :
              Holds(s) /\ Starts(s) /\ Does(Next1, s, m) /\ Leads(m, Tail(todo), e)
<1>1. ~crashed
      BY DEF ValueInv
<1>2. PICK s \in States, e \in States : Holds(s) /\ Starts(s) /\ Leads(s, todo, e)
      BY <1>1 DEF ValueInv
<1>3. IsSequence(todo)
      BY DEF ValueInv, Inv, AllClean
<1>4. \E m \in States : Does(Next1, s, m) /\ Leads(m, Tail(todo), e)
      BY <1>2, <1>3, LeadsHead DEF Next1
<1>5. QED
      BY <1>1, <1>2, <1>4

(* The argument of all steps: the item is replaced by work that leads to   *)
(* the same state.                                                         *)
LEMMA ValueStep ==
  ASSUME ValueInv, Inv', tree' = tree, UNCHANGED crashed, todo # <<>>,
         ReadsWritten', EosHasNoRegister(irlist)', InOrder',
         NEW new, IsSequence(new), Then(new),
         NEW s \in States, NEW m \in States, NEW e \in States,
         Holds(s)', Leads(s, new, m), Leads(m, Tail(todo), e),
         s.fresh => new # <<>> /\ new[1].n \notin visited' /\ Parent(new[1].n) \in visited'
  PROVE  ValueInv'
<1>1. ~crashed
      BY NextItem
<1>2. PICK S : todo \in Seq(S)
      BY DEF ValueInv, Inv, AllClean, IsSequence
<1>3. Tail(todo) \in Seq(S)
      BY <1>2
<1>4. IsSequence(Tail(todo))
      BY <1>3 DEF IsSequence
<1>5. Leads(s, todo', e)
      BY <1>4, LeadsJoin DEF Then
<1>6. Leads(s, todo, e)'
      BY <1>5, SameTree
<1>7. Starts(s)'
      <2>1. SUFFICES ASSUME s.fresh PROVE todo' # <<>> /\ todo'[1] = new[1]
            BY <2>1 DEF Starts, Next1
      <2>2. PICK U : new \in Seq(U)
            BY DEF IsSequence
      <2>3. Len(new) \in Nat \ {0}
            BY <2>1, <2>2
      <2>4. /\ Len(todo') = Len(new) + Len(Tail(todo)) /\ Len(Tail(todo)) \in Nat
            /\ \A i \in 1..Len(new) : todo'[i] = new[i]
            BY <1>4, Concatenation DEF Then
      <2>5. 1 \in 1..Len(new) /\ Len(todo') # 0
            BY <2>3, <2>4
      <2>6. QED
            BY <2>4, <2>5
<1>8. QED
      BY <1>1, <1>6, <1>7 DEF ValueInv

(* What is reached.                                                        *)
LEMMA Visit ==
  ASSUME InOrder, tree' = tree, NEW n, IsPath(tree, n), IsOperand(n) => Parent(n) \in visited,
         visited' = visited \cup {n}
  PROVE  InOrder'
BY SameTree DEF InOrder

(* Nothing is reached that was not before.                                 *)
LEMMA VisitNone ==
  ASSUME InOrder, tree' = tree, visited' = visited
  PROVE  InOrder'
BY SameTree DEF InOrder

(* What is returned.                                                       *)
LEMMA HoldsSame ==
  ASSUME NEW s, Holds(s), NEW m \in States, m.height = s.height,
         s.lost => m.lost, vals' = vals, \A t : Recent(t) => Recent(t)',
         m.recent => Recent(registernum - 1)'
  PROVE  Holds(m)'
BY DEF Holds, Usable

(* What is left of vals when the values used are taken off.                *)
LEMMA Drops ==
  ASSUME NEW s, Holds(s), NEW k \in 0..s.height
  PROVE  /\ s.height \in Nat /\ s.height - k \in Nat
         /\ SubSeq(vals, 1, Len(vals) - k) \in Seq(Int)
         /\ Len(SubSeq(vals, 1, Len(vals) - k)) = s.height - k
         /\ \A i \in 1..(s.height - k) : SubSeq(vals, 1, Len(vals) - k)[i] = vals[i]
         /\ \A i \in 1..(s.height - k) : i \in 1..s.height
<1>1. vals \in Seq(Int) /\ Len(vals) = s.height /\ s.height \in Nat
      BY DEF Holds, States
<1>2. PICK q : q = s.height - k
      OBVIOUS
<1>3. q \in Nat /\ q \in Int /\ 1 \in Int
      BY <1>1, <1>2
<1>4. \A i \in 1..q : vals[i] \in Int /\ i \in 1..s.height
      BY <1>1, <1>2
<1>5. /\ SubSeq(vals, 1, q) \in Seq(Int)
      /\ Len(SubSeq(vals, 1, q)) = IF 1 <= q THEN q - 1 + 1 ELSE 0
      /\ \A i \in 1..(q - 1 + 1) : SubSeq(vals, 1, q)[i] = vals[1 + i - 1]
      BY <1>3, <1>4, SubSeqProperties
<1>6. Len(SubSeq(vals, 1, q)) = q /\ \A i \in 1..q : SubSeq(vals, 1, q)[i] = vals[i]
      BY <1>3, <1>5
<1>7. QED
      BY <1>1, <1>2, <1>3, <1>4, <1>5, <1>6

(* One value is taken off vals.                                            *)
LEMMA HoldsDrop ==
  ASSUME NEW s, Holds(s), s.height >= 1, vals' = Drop1,
         NEW m \in States, m.height = s.height - 1,
         \A t : Recent(t) => Recent(t)', m.recent => Recent(registernum - 1)'
  PROVE  Holds(m)'
<1>1. s.height \in Nat /\ 1 \in 0..s.height
      BY DEF Holds, States
<1>2. /\ vals' \in Seq(Int) /\ Len(vals') = m.height
      /\ \A i \in 1..m.height : vals'[i] = vals[i] /\ i \in 1..s.height
      BY <1>1, Drops DEF Drop1
<1>3. \A i \in 1..m.height : i # s.height
      BY <1>2
<1>4. \A i \in 1..m.height : Usable(vals[i])'
      BY <1>2, <1>3 DEF Holds, Usable
<1>5. QED
      BY <1>2, <1>4 DEF Holds

(* Values are taken off vals and one that is usable is put there.          *)
LEMMA HoldsPush ==
  ASSUME NEW s, Holds(s), NEW k \in 0..s.height, s.lost => k >= 1, NEW v \in Int,
         vals' = Append(SubSeq(vals, 1, Len(vals) - k), v),
         NEW m \in States, m.height = (s.height - k) + 1, Usable(v)' \/ m.lost,
         \A t : Recent(t) => Recent(t)', m.recent => Recent(registernum - 1)'
  PROVE  Holds(m)'
<1>1. PICK q : q = s.height - k
      OBVIOUS
<1>2. PICK b : b = SubSeq(vals, 1, Len(vals) - k)
      OBVIOUS
<1>3. /\ s.height \in Nat /\ q \in Nat /\ b \in Seq(Int) /\ Len(b) = q
      /\ \A i \in 1..q : b[i] = vals[i]
      /\ \A i \in 1..q : i \in 1..s.height
      BY <1>1, <1>2, Drops
<1>4. /\ vals' \in Seq(Int) /\ Len(vals') = q + 1
      /\ \A i \in 1..q : vals'[i] = b[i]
      /\ vals'[q + 1] = v
      BY <1>2, <1>3, AppendProperties
<1>5. \A i \in 1..q : s.lost => i # s.height
      BY <1>1, <1>3
<1>6. ASSUME NEW i \in 1..q PROVE Usable(vals[i])'
      <2>1. vals'[i] = vals[i] /\ i \in 1..s.height /\ (s.lost => i # s.height)
            BY <1>3, <1>4, <1>5
      <2>2. Usable(vals[i])
            BY <2>1 DEF Holds
      <2>3. QED
            BY <2>1, <2>2 DEF Usable
<1>7. \A i \in 1..(q + 1) : i \in 1..q \/ i = q + 1
      BY <1>3
<1>8. m.height = q + 1
      BY <1>1
<1>9. QED
      BY <1>4, <1>6, <1>7, <1>8 DEF Holds

(* A value on top of the others.                                           *)
LEMMA HoldsMore ==
  ASSUME NEW s, Holds(s), ~s.lost, NEW v \in Int, vals' = Append(vals, v),
         NEW m \in States, m.height = s.height + 1, Usable(v)' \/ m.lost,
         \A t : Recent(t) => Recent(t)', m.recent => Recent(registernum - 1)'
  PROVE  Holds(m)'
<1>1. vals \in Seq(Int) /\ s.height \in Nat /\ Len(vals) = s.height
      BY DEF Holds, States
<1>2. SubSeq(vals, 1, Len(vals) - 0) = vals
      BY <1>1, SubSeqFull
<1>3. 0 \in 0..s.height /\ m.height = (s.height - 0) + 1
      BY <1>1
<1>4. QED
      BY <1>2, <1>3, HoldsPush

(* A step that appends nothing.                                            *)
LEMMA SameList ==
  ASSUME ValueInv, UNCHANGED irlist
  PROVE  ReadsWritten' /\ EosHasNoRegister(irlist)' /\ \A t : Recent(t) => Recent(t)'
<1>1. ReadsWritten'
      BY DEF ValueInv, ReadsWritten, Nodes, Reads, Writes, IsEos
<1>2. EosHasNoRegister(irlist)'
      BY DEF ValueInv
<1>3. \A t : Recent(t) => Recent(t)'
      BY DEF Recent, Nodes, Writes, IsEos
<1>4. QED
      BY <1>1, <1>2, <1>3

-----------------------------------------------------------------------------
(* build_ir.                                                               *)

(* What holds before an item between statements.                           *)
LEMMA OutsideItem ==
  ASSUME ValueInv, todo # <<>>, Next1.do \in Outside
  PROVE  /\ \E m, e \in States : Holds(m) /\ Leads(m, Tail(todo), e) /\ Ground(m)
         /\ IsPath(tree, Next1.n)
         /\ Next1.do \notin {"build", "switch"} => ~IsNull(Next1.n)
         /\ Next1.do = "fortest" => At(Next1.n).subtype = "FOR_STMT"
<1>1. PICK s \in States, m \in States, e \in States :
        Holds(s) /\ Does(Next1, s, m) /\ Leads(m, Tail(todo), e)
      BY NextItem
<1>2. /\ s.height = 0 /\ ~s.lost /\ Ground(m) /\ IsPath(tree, Next1.n)
      /\ Next1.do \notin {"build", "switch"} => ~IsNull(Next1.n)
      /\ Next1.do = "fortest" => At(Next1.n).subtype = "FOR_STMT"
      BY <1>1 DEF Does, Fits, Needs, Leaves, Outside, Ground, States
<1>3. Holds(m)
      BY <1>1, <1>2 DEF Holds, Ground
<1>4. QED
      BY <1>1, <1>2, <1>3

(* Steps between statements, which append at most one node.                *)
LEMMA OutsideStep ==
  ASSUME ValueInv, Inv', todo # <<>>, Next1.do \in Outside, UNCHANGED <<tree, vals, crashed>>,
         \/ UNCHANGED irlist
         \/ \E irns : Good(irns) /\ Append_ir_nodes(irns),
         InOrder', NEW new, IsSequence(new), Then(new),
         \A m \in States : Ground(m) => Leads(m, new, m)
  PROVE  ValueInv'
<1>1. PICK m \in States, e \in States : Holds(m) /\ Leads(m, Tail(todo), e) /\ Ground(m)
      BY OutsideItem
<1>2. ReadsWritten' /\ EosHasNoRegister(irlist)' /\ \A t : Recent(t) => Recent(t)'
      BY SameList, Grow DEF ValueInv, Grown
<1>3. Holds(m)'
      BY <1>1, <1>2, HoldsSame DEF Ground
<1>4. QED
      BY <1>1, <1>2, <1>3, ValueStep DEF Ground

(* No work is a sequence.                                                  *)
LEMMA EmptySequence == IsSequence(<<>>)
BY CleanNone DEF AllClean

(* build_ir: a missing child, and a node whose subtype has no case.        *)
LEMMA BuildNullValue ==
  ASSUME ValueInv, Inv', BuildNull \/ SwitchOther
  PROVE  ValueInv'
<1>1. /\ todo # <<>> /\ Next1.do \in Outside /\ UNCHANGED <<tree, vals, irlist, crashed>>
      /\ visited' = visited /\ Then(<<>>)
      BY DEF BuildNull, SwitchOther, Doing, Outside
<1>2. InOrder'
      BY <1>1, VisitNone DEF ValueInv
<1>3. QED
      BY <1>1, <1>2, LeadsNone, EmptySequence, OutsideStep

(* The expression of a statement, whose value is not used.                 *)
LEMMA LeadsClause ==
  ASSUME NEW n, IsPath(tree, n), ~IsNull(n), At(n).type # "UNARY_OP",
         NEW m \in States, Ground(m)
  PROVE  /\ Leads(m, <<Generate(Left(n), "R_VALUE"), Drop>>, m)
         /\ IsSequence(<<Generate(Left(n), "R_VALUE"), Drop>>)
<1>1. PICK g : g = State(1, ~HasValue(tree, Left(n)), FALSE)
      OBVIOUS
<1>2. g \in States /\ g.height = 1 /\ (g.lost <=> ~HasValue(tree, Left(n))) /\ ~g.recent /\ ~g.fresh
      BY <1>1 DEF State, States
<1>3. IsPath(tree, Left(n)) /\ ~IsOperand(Left(n))
      BY Children, NoOperandBelow
<1>4. m.height = 0 /\ ~m.lost /\ ~m.recent /\ ~m.fresh
      BY DEF Ground
<1>5. Does(Generate(Left(n), "R_VALUE"), m, g)
      BY <1>2, <1>3, <1>4, DoesGenerate
<1>6. Does(Drop, g, m)
      BY <1>2, <1>4, DoesDrop
<1>7. QED
      BY <1>2, <1>5, <1>6, LeadsTwo

(* A node with its children, its expression and its end of statement.      *)
LEMMA BuildNodeValue ==
  ASSUME ValueInv, Inv', Plain(tree), BuildNode
  PROVE  ValueInv'
<1>1. PICK n : n = Next1.n
      OBVIOUS
<1>2. /\ todo # <<>> /\ Next1.do \in Outside /\ UNCHANGED <<tree, vals, irlist, crashed>>
      /\ visited' = visited /\ ~IsNull(n)
      BY <1>1 DEF BuildNode, Doing, Outside
<1>3. IsPath(tree, n) /\ PlainAt(tree, n)
      BY <1>1, <1>2, OutsideItem, PlainNode
<1>4. PICK expr : expr = IF At(n).type = "EXPR_STMT" \/ At(n).subtype = "EXPR_ITEM"
                         THEN <<Generate(Left(n), "R_VALUE"), Drop>> ELSE <<>>
      OBVIOUS
<1>5. PICK eos : eos = IF At(n).type = "EXPR_STMT" THEN <<Emit(EosNode(n))>> ELSE <<>>
      OBVIOUS
<1>6. PICK new : new = <<Build(Left(n)), Switch(n)>> \o expr \o <<Build(Right(n))>> \o eos
      OBVIOUS
<1>7. Then(new)
      BY <1>1, <1>4, <1>5, <1>6 DEF BuildNode
<1>8. IsPath(tree, Left(n)) /\ IsPath(tree, Right(n))
      BY <1>2, <1>3, Children
<1>9. ASSUME NEW m \in States, Ground(m)
      PROVE  Leads(m, new, m) /\ IsSequence(new)
      <2>0. m.height = 0 /\ ~m.lost /\ ~m.recent /\ ~m.fresh
            BY <1>9 DEF Ground
      <2>1. Does(Build(Left(n)), m, m) /\ Does(Switch(n), m, m) /\ Does(Build(Right(n)), m, m)
            BY <1>3, <1>8, <1>9, <2>0, DoesOutside
      <2>2. /\ Leads(m, <<Build(Left(n)), Switch(n)>>, m)
            /\ IsSequence(<<Build(Left(n)), Switch(n)>>)
            BY <2>1, LeadsTwo
      <2>3. Leads(m, <<Build(Right(n))>>, m) /\ IsSequence(<<Build(Right(n))>>)
            BY <2>1, LeadsOne, SequenceOne
      <2>4. Leads(m, expr, m) /\ IsSequence(expr)
            <3>1. CASE At(n).type = "EXPR_STMT" \/ At(n).subtype = "EXPR_ITEM"
                  <4>1. At(n).type # "UNARY_OP"
                        BY <1>3, <3>1 DEF PlainAt, At
                  <4>2. QED
                        BY <1>2, <1>3, <1>4, <1>9, <3>1, <4>1, LeadsClause
            <3>2. CASE ~(At(n).type = "EXPR_STMT" \/ At(n).subtype = "EXPR_ITEM")
                  BY <1>4, <3>2, LeadsNone, EmptySequence
            <3>3. QED
                  BY <3>1, <3>2
      <2>5. Leads(m, eos, m) /\ IsSequence(eos)
            <3>1. \A t : ~Reader(EosNode(n), t)
                  BY EosHasNone DEF Reader, HasRegister, IsRegister
            <3>2. Does(Emit(EosNode(n)), m, m)
                  BY <2>0, <3>1, EosHasNone, DoesEmit
            <3>3. Leads(m, <<Emit(EosNode(n))>>, m) /\ IsSequence(<<Emit(EosNode(n))>>)
                  BY <3>2, LeadsOne, SequenceOne
            <3>4. QED
                  BY <1>5, <3>3, LeadsNone, EmptySequence
      <2>6. /\ Leads(m, <<Build(Left(n)), Switch(n)>> \o expr, m)
            /\ IsSequence(<<Build(Left(n)), Switch(n)>> \o expr)
            BY <2>2, <2>4, LeadsJoin, Concatenation
      <2>7. /\ Leads(m, <<Build(Left(n)), Switch(n)>> \o expr \o <<Build(Right(n))>>, m)
            /\ IsSequence(<<Build(Left(n)), Switch(n)>> \o expr \o <<Build(Right(n))>>)
            BY <2>3, <2>6, LeadsJoin, Concatenation
      <2>8. QED
            BY <1>6, <2>5, <2>7, LeadsJoin, Concatenation
<1>10. InOrder'
       BY <1>2, VisitNone DEF ValueInv
<1>11. IsSequence(new)
       BY <1>2, <1>9, OutsideItem
<1>12. QED
       BY <1>2, <1>7, <1>9, <1>10, <1>11, OutsideStep

(* Nodes that read nothing, one or two.                                    *)
LEMMA GoodOne ==
  ASSUME NEW irn, irn.opcode # "EOS", \A t : Reader(irn, t) => Usable(t)
  PROVE  Good(<<irn>>)
<1>1. IsSequence(<<irn>>) /\ Len(<<irn>>) = 1 /\ <<irn>>[1] = irn
      BY SequenceOne
<1>2. \A j \in 1..1 : j = 1
      OBVIOUS
<1>3. QED
      BY <1>1, <1>2 DEF Good

(* Two good nodes, of which the second may read what the first wrote.      *)
LEMMA GoodTwo ==
  ASSUME NEW a, NEW b, a.opcode # "EOS", b.opcode # "EOS",
         \A t : Reader(a, t) => Usable(t),
         \A t : Reader(b, t) => Usable(t) \/ Sets(a, t)
  PROVE  Good(<<a, b>>)
<1>1. /\ IsSequence(<<a>>) /\ Len(<<a>>) = 1 /\ <<a>>[1] = a
      /\ IsSequence(<<b>>) /\ Len(<<b>>) = 1 /\ <<b>>[1] = b
      BY SequenceOne
<1>2. PICK u : u = <<a>> \o <<b>>
      OBVIOUS
<1>3. 1 \in 1..1
      OBVIOUS
<1>4. IsSequence(u) /\ Len(u) = 2 /\ u[1] = a /\ u[1 + 1] = b
      BY <1>1, <1>2, <1>3, Concatenation
<1>5. \A j \in 1..2 : j = 1 \/ j = 2
      OBVIOUS
<1>6. 1 \in 1..(2 - 1) /\ 1 + 1 = 2
      OBVIOUS
<1>7. Good(u)
      BY <1>4, <1>5, <1>6 DEF Good
<1>8. QED
      BY <1>2, <1>7, Pair

(* A label or a jump may always be appended.                               *)
LEMMA LabelsGood ==
  ASSUME NEW n, NEW l
  PROVE  Good(<<LabelNode(n, l)>>) /\ Good(<<JumpNode(n, l)>>)
BY KnownNodes, GoodOne

(* The start of a function.                                                *)
LEMMA SwitchFunctionSpecValue ==
  ASSUME ValueInv, Inv', SwitchFunctionSpec
  PROVE  ValueInv'
<1>1. /\ todo # <<>> /\ Next1.do \in Outside /\ UNCHANGED <<tree, vals, crashed>>
      /\ visited' = visited /\ Then(<<>>)
      BY DEF SwitchFunctionSpec, Doing, Outside
<1>2. PICK label : label = LabelNode(Next1.n, func_label(At(Next1.n).right.left.string_data))
      OBVIOUS
<1>3. PICK start : start = IrNode(Next1.n, "FUNCTIONSTART", Ptr(At(Next1.n).right.left.string_data),
                                  NoOperand, NoOperand)
      OBVIOUS
<1>4. Append_ir_nodes(<<label, start>>)
      BY <1>2, <1>3 DEF SwitchFunctionSpec
<1>5. label.opcode # "EOS" /\ \A t : ~Reader(label, t)
      BY <1>2, KnownNodes
<1>6. start.opcode # "EOS" /\ \A t : ~Reader(start, t)
      BY <1>3, ReaderOf, Operands DEF IrNode
<1>7. Good(<<label, start>>)
      BY <1>5, <1>6, GoodTwo
<1>8. InOrder'
      BY <1>1, VisitNone DEF ValueInv
<1>9. QED
      BY <1>1, <1>4, <1>7, <1>8, LeadsNone, EmptySequence, OutsideStep

(* The jump over an else part, and the end of it.                          *)
LEMMA ElseValue ==
  ASSUME ValueInv, Inv', DoElseJump \/ DoElseEnd
  PROVE  ValueInv'
<1>1. /\ todo # <<>> /\ Next1.do \in Outside /\ UNCHANGED <<tree, vals, crashed>>
      /\ visited' = visited /\ Then(<<>>)
      BY DEF DoElseJump, DoElseEnd, Doing, Outside
<1>2. \E irns : Good(irns) /\ Append_ir_nodes(irns)
      <2>1. CASE DoElseJump
            BY <2>1, LabelsGood DEF DoElseJump
      <2>2. CASE DoElseEnd
            BY <2>2, LabelsGood DEF DoElseEnd
      <2>3. QED
            BY <2>1, <2>2
<1>3. InOrder'
      BY <1>1, VisitNone DEF ValueInv
<1>4. QED
      BY <1>1, <1>2, <1>3, LeadsNone, EmptySequence, OutsideStep

(* A node of these subtypes is no operand.                                 *)
LEMMA VisitStatement ==
  ASSUME InOrder, Plain(tree), tree' = tree, NEW n, IsPath(tree, n), At(n).subtype # "NONE",
         visited' = visited \cup {n}
  PROVE  InOrder'
<1>1. ~IsOperand(n)
      BY OperandLoads DEF Loads, At
<1>2. QED
      BY <1>1, Visit

(* An else part.                                                           *)
LEMMA SwitchElseValue ==
  ASSUME ValueInv, Inv', Plain(tree), SwitchElse
  PROVE  ValueInv'
<1>1. PICK n : n = Next1.n
      OBVIOUS
<1>2. /\ todo # <<>> /\ Next1.do \in Outside /\ UNCHANGED <<tree, vals, irlist, crashed>>
      /\ visited' = visited \cup {n} /\ At(n).subtype = "ELSE_STMT"
      /\ Then(<<Build(Left(n)), ElseEnd(n)>>)
      BY <1>1 DEF SwitchElse, Doing, Outside, counters
<1>3. IsPath(tree, n) /\ ~IsNull(n)
      BY <1>1, <1>2, OutsideItem, NotNull
<1>4. InOrder'
      BY <1>2, <1>3, VisitStatement DEF ValueInv
<1>5. ASSUME NEW m \in States, Ground(m)
      PROVE  /\ Leads(m, <<Build(Left(n)), ElseEnd(n)>>, m)
             /\ IsSequence(<<Build(Left(n)), ElseEnd(n)>>)
      <2>1. Does(Build(Left(n)), m, m) /\ Does(ElseEnd(n), m, m)
            BY <1>3, <1>5, Children, DoesOutside DEF Ground
      <2>2. QED
            BY <2>1, LeadsTwo
<1>6. IsSequence(<<Build(Left(n)), ElseEnd(n)>>)
      BY <1>2, <1>5, OutsideItem
<1>7. QED
      BY <1>2, <1>4, <1>5, <1>6, OutsideStep

(* A test and its branch.                                                  *)
LEMMA DoesTest ==
  ASSUME NEW n, IsPath(tree, n), ~IsNull(n), NEW l,
         NEW c, IsPath(tree, c), ~IsOperand(c), HasValue(tree, c),
         NEW m \in States, Ground(m)
  PROVE  \E g \in States : /\ Does(Generate(c, "R_VALUE"), m, g)
                           /\ Does(Branch(n, "BLEZ", l), g, m)
<1>1. PICK g : g = State(1, FALSE, FALSE)
      OBVIOUS
<1>2. g \in States /\ g.height = 1 /\ ~g.lost /\ ~g.recent /\ ~g.fresh
      BY <1>1 DEF State, States
<1>3. m.height = 0 /\ ~m.lost /\ ~m.recent /\ ~m.fresh
      BY DEF Ground
<1>4. Does(Generate(c, "R_VALUE"), m, g)
      BY <1>2, <1>3, DoesGenerate
<1>5. Does(Branch(n, "BLEZ", l), g, m)
      BY <1>2, <1>3, DoesBranch
<1>6. QED
      BY <1>2, <1>4, <1>5

(* A label or a jump, between statements.                                  *)
LEMMA DoesLabel ==
  ASSUME NEW n, NEW l, NEW m \in States, Ground(m)
  PROVE  /\ Does(Emit(LabelNode(n, l)), m, m) /\ Does(Emit(JumpNode(n, l)), m, m)
         /\ Does(Emit(IrNode(n, "BGZ", Reg(REGISTERZERO), Lab(l), NoOperand)), m, m)
<1>1. ~m.lost /\ ~m.recent /\ ~m.fresh
      BY DEF Ground
<1>2. QED
      BY <1>1, KnownNodes, DoesEmit

(* An if: the test leaves the value that the branch reads.                 *)
LEMMA SwitchIfValue ==
  ASSUME ValueInv, Inv', Plain(tree), SwitchIf
  PROVE  ValueInv'
<1>1. PICK n : n = Next1.n
      OBVIOUS
<1>2. PICK end : end = new_label("endif", 0)
      OBVIOUS
<1>3. PICK els : els = IF At(Parent(n)).subtype = "IF_ELSE_STMT" THEN <<ElseJump(n)>> ELSE <<>>
      OBVIOUS
<1>4. PICK test : test = <<Generate(Left(n), "R_VALUE"), Branch(n, "BLEZ", end), Build(Right(n))>>
      OBVIOUS
<1>5. /\ todo # <<>> /\ Next1.do \in Outside /\ UNCHANGED <<tree, vals, irlist, crashed>>
      /\ visited' = visited \cup {n} /\ At(n).subtype = "IF_STMT"
      /\ Then(test \o els \o <<Emit(LabelNode(n, end))>>)
      BY <1>1, <1>2, <1>3, <1>4 DEF SwitchIf, Doing, Outside
<1>6. IsPath(tree, n) /\ ~IsNull(n) /\ PlainAt(tree, n)
      BY <1>1, <1>5, OutsideItem, NotNull, PlainNode
<1>7. InOrder'
      BY <1>5, <1>6, VisitStatement DEF ValueInv
<1>8. ASSUME NEW m \in States, Ground(m)
      PROVE  /\ Leads(m, test \o els \o <<Emit(LabelNode(n, end))>>, m)
             /\ IsSequence(test \o els \o <<Emit(LabelNode(n, end))>>)
      <2>1. /\ IsPath(tree, Left(n)) /\ IsPath(tree, Right(n))
            /\ ~IsOperand(Left(n)) /\ HasValue(tree, Left(n))
            <3>1. At(n).type # "UNARY_OP" /\ HasValue(tree, Left(n))
                  BY <1>5, <1>6 DEF PlainAt, At
            <3>2. QED
                  BY <1>6, <3>1, Children, NoOperandBelow
      <2>2. PICK g \in States : /\ Does(Generate(Left(n), "R_VALUE"), m, g)
                                /\ Does(Branch(n, "BLEZ", end), g, m)
            BY <1>6, <1>8, <2>1, DoesTest
      <2>3. Does(Build(Right(n)), m, m) /\ Does(ElseJump(n), m, m)
            BY <1>6, <1>8, <2>1, DoesOutside DEF Ground
      <2>4. Leads(m, test, m) /\ IsSequence(test)
            BY <1>4, <2>2, <2>3, LeadsThree
      <2>5. Leads(m, els, m) /\ IsSequence(els)
            <3>1. Leads(m, <<ElseJump(n)>>, m) /\ IsSequence(<<ElseJump(n)>>)
                  BY <2>3, LeadsOne, SequenceOne
            <3>2. QED
                  BY <1>3, <3>1, LeadsNone, EmptySequence
      <2>6. /\ Leads(m, <<Emit(LabelNode(n, end))>>, m)
            /\ IsSequence(<<Emit(LabelNode(n, end))>>)
            BY <1>8, DoesLabel, LeadsOne, SequenceOne
      <2>7. Leads(m, test \o els, m) /\ IsSequence(test \o els)
            BY <2>4, <2>5, LeadsJoin, Concatenation
      <2>8. QED
            BY <2>6, <2>7, LeadsJoin, Concatenation
<1>9. IsSequence(test \o els \o <<Emit(LabelNode(n, end))>>)
      BY <1>5, <1>8, OutsideItem
<1>10. QED
       BY <1>5, <1>7, <1>8, <1>9, OutsideStep

(* A while.                                                                *)
LEMMA SwitchWhileValue ==
  ASSUME ValueInv, Inv', Plain(tree), SwitchWhile
  PROVE  ValueInv'
<1>1. PICK n : n = Next1.n
      OBVIOUS
<1>2. PICK test : test = new_label("while_test", 0)
      OBVIOUS
<1>3. PICK end : end = new_label("while_end", 1)
      OBVIOUS
<1>4. PICK new : new = <<Generate(Left(n), "R_VALUE"), Branch(n, "BLEZ", end), Build(Right(n)),
                         Emit(JumpNode(n, test)), Emit(LabelNode(n, end))>>
      OBVIOUS
<1>5. /\ todo # <<>> /\ Next1.do \in Outside /\ UNCHANGED <<tree, vals, crashed>>
      /\ visited' = visited /\ At(n).subtype = "WHILE_STMT"
      /\ Append_ir_nodes(<<LabelNode(n, test)>>) /\ Then(new)
      BY <1>1, <1>2, <1>3, <1>4 DEF SwitchWhile, Doing, Outside
<1>6. IsPath(tree, n) /\ ~IsNull(n) /\ PlainAt(tree, n)
      BY <1>1, <1>5, OutsideItem, NotNull, PlainNode
<1>7. InOrder'
      BY <1>5, VisitNone DEF ValueInv
<1>8. ASSUME NEW m \in States, Ground(m)
      PROVE  Leads(m, new, m) /\ IsSequence(new)
      <2>1. /\ IsPath(tree, Left(n)) /\ IsPath(tree, Right(n))
            /\ ~IsOperand(Left(n)) /\ HasValue(tree, Left(n))
            <3>1. At(n).type # "UNARY_OP" /\ HasValue(tree, Left(n))
                  BY <1>5, <1>6 DEF PlainAt, At
            <3>2. QED
                  BY <1>6, <3>1, Children, NoOperandBelow
      <2>2. PICK g \in States : /\ Does(Generate(Left(n), "R_VALUE"), m, g)
                                /\ Does(Branch(n, "BLEZ", end), g, m)
            BY <1>6, <1>8, <2>1, DoesTest
      <2>3. Does(Build(Right(n)), m, m)
            BY <1>8, <2>1, DoesOutside DEF Ground
      <2>4. Does(Emit(JumpNode(n, test)), m, m) /\ Does(Emit(LabelNode(n, end)), m, m)
            BY <1>8, DoesLabel
      <2>5. QED
            BY <1>4, <2>2, <2>3, <2>4, LeadsFive
<1>9. IsSequence(new)
      BY <1>5, <1>8, OutsideItem
<1>10. \E irns : Good(irns) /\ Append_ir_nodes(irns)
       BY <1>5, LabelsGood
<1>11. QED
       BY <1>5, <1>7, <1>8, <1>9, <1>10, OutsideStep

(* A clause of a for, which may be missing.                                *)
LEMMA LeadsOptClause ==
  ASSUME NEW n, IsPath(tree, n), ~IsNull(n), At(n).type # "UNARY_OP",
         NEW m \in States, Ground(m)
  PROVE  Leads(m, OptClause(n), m) /\ IsSequence(OptClause(n))
<1>1. Leads(m, Clause(n), m) /\ IsSequence(Clause(n))
      BY LeadsClause DEF Clause
<1>2. QED
      BY <1>1, LeadsNone, EmptySequence DEF OptClause

(* The clauses of a for.                                                   *)
LEMMA ForClauses ==
  ASSUME NEW n, Plain(tree), IsPath(tree, n), At(n).subtype = "FOR_STMT"
  PROVE  /\ ~IsNull(n) /\ IsPath(tree, Right(n))
         /\ IsPath(tree, Left(n)) /\ ~IsNull(Left(n)) /\ At(Left(n)).type # "UNARY_OP"
         /\ IsPath(tree, Left(Right(Left(n)))) /\ ~IsOperand(Left(Right(Left(n))))
         /\ HasValue(tree, Left(Right(Left(n))))
         /\ IsPath(tree, Right(Right(Left(n)))) /\ ~IsNull(Right(Right(Left(n))))
         /\ At(Right(Right(Left(n)))).type # "UNARY_OP"
<1>1. ~IsNull(n) /\ PlainAt(tree, n)
      BY NotNull, PlainNode
<1>2. /\ ~IsNull(Left(n)) /\ At(Left(n)).type # "UNARY_OP"
      /\ ~IsNull(Right(Left(n))) /\ At(Right(Left(n))).type # "UNARY_OP"
      /\ ~IsNull(Right(Right(Left(n)))) /\ At(Right(Right(Left(n)))).type # "UNARY_OP"
      /\ HasValue(tree, Left(Right(Left(n))))
      BY <1>1 DEF PlainAt, At, IsNull, Missing
<1>3. IsPath(tree, Left(n)) /\ IsPath(tree, Right(n))
      BY <1>1, Children
<1>4. IsPath(tree, Right(Left(n)))
      BY <1>2, <1>3, Children
<1>5. IsPath(tree, Left(Right(Left(n)))) /\ IsPath(tree, Right(Right(Left(n))))
      BY <1>2, <1>4, Children
<1>6. ~IsOperand(Left(Right(Left(n))))
      BY <1>2, <1>4, NoOperandBelow
<1>7. QED
      BY <1>1, <1>2, <1>3, <1>5, <1>6

(* A for: its first clause, and then its test.                             *)
LEMMA SwitchForValue ==
  ASSUME ValueInv, Inv', Plain(tree), SwitchFor
  PROVE  ValueInv'
<1>1. PICK n : n = Next1.n
      OBVIOUS
<1>2. /\ todo # <<>> /\ Next1.do \in Outside /\ UNCHANGED <<tree, vals, irlist, crashed>>
      /\ visited' = visited /\ At(n).subtype = "FOR_STMT"
      /\ Then(OptClause(Left(n)) \o <<ForTest(n)>>)
      BY <1>1 DEF SwitchFor, Doing, Outside, counters
<1>3. IsPath(tree, n)
      BY <1>1, <1>2, OutsideItem
<1>4. InOrder'
      BY <1>2, VisitNone DEF ValueInv
<1>5. ASSUME NEW m \in States, Ground(m)
      PROVE  /\ Leads(m, OptClause(Left(n)) \o <<ForTest(n)>>, m)
             /\ IsSequence(OptClause(Left(n)) \o <<ForTest(n)>>)
      <2>1. Does(ForTest(n), m, m)
            BY <1>2, <1>3, <1>5, DoesOutside DEF Ground
      <2>2. Leads(m, <<ForTest(n)>>, m) /\ IsSequence(<<ForTest(n)>>)
            BY <2>1, LeadsOne, SequenceOne
      <2>3. Leads(m, OptClause(Left(n)), m) /\ IsSequence(OptClause(Left(n)))
            BY <1>2, <1>3, <1>5, ForClauses, LeadsOptClause
      <2>4. QED
            BY <2>2, <2>3, LeadsJoin, Concatenation
<1>6. IsSequence(OptClause(Left(n)) \o <<ForTest(n)>>)
      BY <1>2, <1>5, OutsideItem
<1>7. QED
      BY <1>2, <1>4, <1>5, <1>6, OutsideStep

(* The test of a for, with the body and the last clause.                   *)
LEMMA DoForTestValue ==
  ASSUME ValueInv, Inv', Plain(tree), DoForTest
  PROVE  ValueInv'
<1>1. PICK n : n = Next1.n
      OBVIOUS
<1>2. PICK test : test = new_label("for_test", 0)
      OBVIOUS
<1>3. PICK end : end = new_label("for_end", 1)
      OBVIOUS
<1>4. PICK cond : cond = Left(Right(Left(n)))
      OBVIOUS
<1>5. PICK check : check = IF At(cond).type # "NULL_STMT"
                THEN <<Generate(cond, "R_VALUE"), Branch(n, "BLEZ", end)>>
                ELSE <<Emit(IrNode(n, "BGZ", Reg(REGISTERZERO), Lab(end), NoOperand))>>
      OBVIOUS
<1>6. PICK last : last = <<Emit(JumpNode(n, test)), Emit(LabelNode(n, end))>>
      OBVIOUS
<1>7. PICK new : new = check \o <<Build(Right(n))>> \o OptClause(Right(Right(Left(n)))) \o last
      OBVIOUS
<1>8. /\ todo # <<>> /\ Next1.do = "fortest" /\ UNCHANGED <<tree, vals, crashed>>
      /\ visited' = visited
      /\ Append_ir_nodes(<<LabelNode(n, test)>>)
      BY <1>1, <1>2 DEF DoForTest, Doing
<1>9. Then(new)
      BY <1>1, <1>2, <1>3, <1>4, <1>5, <1>6, <1>7 DEF DoForTest
<1>10. Next1.do \in Outside
       BY <1>8 DEF Outside
<1>11. IsPath(tree, n) /\ At(n).subtype = "FOR_STMT" /\ ~IsNull(n)
       BY <1>1, <1>8, <1>10, OutsideItem, NotNull
<1>12. InOrder'
       BY <1>8, VisitNone DEF ValueInv
<1>13. ASSUME NEW m \in States, Ground(m)
       PROVE  Leads(m, new, m) /\ IsSequence(new)
       <2>1. /\ IsPath(tree, Right(n)) /\ IsPath(tree, cond)
             /\ ~IsOperand(cond) /\ HasValue(tree, cond)
             /\ IsPath(tree, Right(Right(Left(n)))) /\ ~IsNull(Right(Right(Left(n))))
             /\ At(Right(Right(Left(n)))).type # "UNARY_OP"
             BY <1>4, <1>11, ForClauses
       <2>2. PICK g \in States : /\ Does(Generate(cond, "R_VALUE"), m, g)
                                 /\ Does(Branch(n, "BLEZ", end), g, m)
             BY <1>11, <1>13, <2>1, DoesTest
       <2>3. /\ Leads(m, <<Generate(cond, "R_VALUE"), Branch(n, "BLEZ", end)>>, m)
             /\ IsSequence(<<Generate(cond, "R_VALUE"), Branch(n, "BLEZ", end)>>)
             BY <2>2, LeadsTwo
       <2>4. PICK skip : skip = Emit(IrNode(n, "BGZ", Reg(REGISTERZERO), Lab(end), NoOperand))
             OBVIOUS
       <2>5. Leads(m, <<skip>>, m) /\ IsSequence(<<skip>>)
             BY <1>13, <2>4, DoesLabel, LeadsOne, SequenceOne
       <2>6. Leads(m, check, m) /\ IsSequence(check)
             BY <1>5, <2>3, <2>4, <2>5
       <2>7. Does(Build(Right(n)), m, m)
             BY <1>13, <2>1, DoesOutside DEF Ground
       <2>8. Leads(m, <<Build(Right(n))>>, m) /\ IsSequence(<<Build(Right(n))>>)
             BY <2>7, LeadsOne, SequenceOne
       <2>9. /\ Leads(m, OptClause(Right(Right(Left(n)))), m)
             /\ IsSequence(OptClause(Right(Right(Left(n)))))
             BY <1>13, <2>1, LeadsOptClause
       <2>10. Does(Emit(JumpNode(n, test)), m, m) /\ Does(Emit(LabelNode(n, end)), m, m)
              BY <1>13, DoesLabel
       <2>11. Leads(m, last, m) /\ IsSequence(last)
              BY <1>6, <2>10, LeadsTwo
       <2>12. Leads(m, check \o <<Build(Right(n))>>, m) /\ IsSequence(check \o <<Build(Right(n))>>)
              BY <2>6, <2>8, LeadsJoin, Concatenation
       <2>13. /\ Leads(m, check \o <<Build(Right(n))>> \o OptClause(Right(Right(Left(n)))), m)
              /\ IsSequence(check \o <<Build(Right(n))>> \o OptClause(Right(Right(Left(n)))))
              BY <2>9, <2>12, LeadsJoin, Concatenation
       <2>14. QED
              BY <1>7, <2>11, <2>13, LeadsJoin, Concatenation
<1>14. IsSequence(new)
       BY <1>8, <1>10, <1>13, OutsideItem
<1>15. \E irns : Good(irns) /\ Append_ir_nodes(irns)
       BY <1>8, LabelsGood
<1>16. QED
       BY <1>8, <1>9, <1>10, <1>12, <1>13, <1>14, <1>15, OutsideStep

(* The steps that add no work, and leave the state at hand to the rest.    *)
LEMMA LastStep ==
  ASSUME ValueInv, Inv', tree' = tree, UNCHANGED <<crashed, visited>>, todo # <<>>,
         ReadsWritten', EosHasNoRegister(irlist)', Then(<<>>),
         NEW m \in States, NEW e \in States, ~m.fresh, Holds(m)', Leads(m, Tail(todo), e)
  PROVE  ValueInv'
<1>1. InOrder'
      BY VisitNone DEF ValueInv
<1>2. Leads(m, <<>>, m)
      BY LeadsNone
<1>3. QED
      BY <1>1, <1>2, EmptySequence, ValueStep

(* A known node: a label, a jump or an end of statement.                   *)
LEMMA DoEmitValue ==
  ASSUME ValueInv, Inv', DoEmit
  PROVE  ValueInv'
<1>1. /\ todo # <<>> /\ Next1.do = "emit" /\ UNCHANGED <<tree, vals, crashed, visited, registernum>>
      /\ Then(<<>>) /\ Append_ir_nodes(<<Next1.irn>>)
      BY DEF DoEmit, Doing, counters
<1>2. PICK s \in States, m \in States, e \in States :
        Holds(s) /\ Does(Next1, s, m) /\ Leads(m, Tail(todo), e)
      BY <1>1, NextItem
<1>3. PICK irn : irn = Next1.irn
      OBVIOUS
<1>4. /\ ~m.fresh /\ m.height = s.height /\ ~s.lost
      /\ m.recent => s.recent
      /\ \A t : Reader(irn, t) => t \in Special
      /\ irn.opcode = "EOS" => s.height = 0 /\ ~m.recent /\ ~HasRegister(irn)
      BY <1>1, <1>2, <1>3 DEF Does, Fits, Needs, Leaves, Outside, States
<1>5. CASE irn.opcode = "EOS"
      <2>1. ReadsWritten' /\ EosHasNoRegister(irlist)'
            BY <1>1, <1>3, <1>4, <1>5, GrowEnd DEF ValueInv
      <2>2. Holds(m)'
            BY <1>1, <1>2, <1>4, <1>5 DEF Holds
      <2>3. QED
            BY <1>1, <1>2, <1>4, <2>1, <2>2, LastStep
<1>6. CASE irn.opcode # "EOS"
      <2>1. /\ ReadsWritten' /\ EosHasNoRegister(irlist)'
            /\ \A t : Recent(t) => Recent(t)'
            BY <1>1, <1>3, <1>4, <1>6, GrowOne DEF ValueInv, Usable
      <2>2. m.recent => Recent(registernum - 1)'
            BY <1>1, <1>2, <1>4, <2>1 DEF Holds
      <2>3. Holds(m)'
            BY <1>1, <1>2, <1>4, <2>1, <2>2, HoldsSame
      <2>4. QED
            BY <1>1, <1>2, <1>4, <2>1, <2>3, LastStep
<1>7. QED
      BY <1>5, <1>6

(* The value of an expression statement, which is lost or not.             *)
LEMMA DoDropValue ==
  ASSUME ValueInv, Inv', DoDrop
  PROVE  ValueInv'
<1>1. /\ todo # <<>> /\ Next1.do = "drop"
      /\ UNCHANGED <<tree, irlist, crashed, visited, registernum>>
      /\ Then(<<>>) /\ vals' = Drop1
      BY DEF DoDrop, Doing, counters
<1>2. PICK s \in States, m \in States, e \in States :
        Holds(s) /\ Does(Next1, s, m) /\ Leads(m, Tail(todo), e)
      BY <1>1, NextItem
<1>3. /\ ~m.fresh /\ s.height >= 1 /\ m.height = s.height - 1
      /\ m.recent => s.recent
      BY <1>1, <1>2 DEF Does, Fits, Needs, Leaves, Outside, States
<1>4. ReadsWritten' /\ EosHasNoRegister(irlist)' /\ \A t : Recent(t) => Recent(t)'
      BY <1>1, SameList
<1>5. m.recent => Recent(registernum - 1)'
      BY <1>1, <1>2, <1>3, <1>4 DEF Holds
<1>6. Holds(m)'
      BY <1>1, <1>2, <1>3, <1>4, <1>5, HoldsDrop
<1>7. QED
      BY <1>1, <1>2, <1>3, <1>4, <1>6, LastStep

(* The values on top, where they are registers.                            *)
LEMMA TopUsable ==
  ASSUME NEW s \in States, Holds(s), ~s.lost
  PROVE  /\ s.height >= 1 => Usable(Top) /\ Top \in Int
         /\ s.height >= 2 => Usable(Second) /\ Second \in Int
<1>1. /\ s.height \in Nat /\ Len(vals) = s.height /\ vals \in Seq(Int)
      /\ \A i \in 1..s.height : Usable(vals[i]) /\ vals[i] \in Int
      BY DEF Holds, States
<1>2. s.height >= 1 => s.height \in 1..s.height
      BY <1>1
<1>3. s.height >= 2 => s.height - 1 \in 1..s.height
      BY <1>1
<1>4. QED
      BY <1>1, <1>2, <1>3 DEF Top, Second

(* A branch on the value of a test.                                        *)
LEMMA DoBranchValue ==
  ASSUME ValueInv, Inv', DoBranch
  PROVE  ValueInv'
<1>1. PICK irn : irn = IrNode(Next1.n, Next1.op, Reg(Top), Lab(Next1.label), NoOperand)
      OBVIOUS
<1>2. /\ todo # <<>> /\ Next1.do = "branch" /\ UNCHANGED <<tree, crashed, visited, registernum>>
      /\ Then(<<>>) /\ vals' = Drop1 /\ Append_ir_nodes(<<irn>>)
      BY <1>1 DEF DoBranch, Doing, counters
<1>3. PICK s \in States, m \in States, e \in States :
        Holds(s) /\ Does(Next1, s, m) /\ Leads(m, Tail(todo), e)
      BY <1>2, NextItem
<1>4. /\ ~m.fresh /\ s.height >= 1 /\ m.height = s.height - 1 /\ ~s.lost
      /\ m.recent => s.recent
      /\ Next1.op \in {"BLEZ", "BGZ"}
      BY <1>2, <1>3 DEF Does, Fits, Needs, Leaves, Outside, States
<1>5. irn.opcode # "EOS" /\ \A t : Reader(irn, t) => Usable(t)
      <2>1. irn.opcode # "EOS"
            BY <1>1, <1>4 DEF IrNode
      <2>2. Usable(Top)
            BY <1>3, <1>4, TopUsable
      <2>3. \A t : Reader(irn, t) => t = Top
            BY <1>1, ReaderOf, Operands
      <2>4. QED
            BY <2>1, <2>2, <2>3
<1>6. ReadsWritten' /\ EosHasNoRegister(irlist)' /\ \A t : Recent(t) => Recent(t)'
      BY <1>2, <1>5, GrowOne DEF ValueInv
<1>7. m.recent => Recent(registernum - 1)'
      BY <1>2, <1>3, <1>4, <1>6 DEF Holds
<1>8. Holds(m)'
      BY <1>2, <1>3, <1>4, <1>6, <1>7, HoldsDrop
<1>9. QED
      BY <1>2, <1>3, <1>4, <1>6, <1>8, LastStep

-----------------------------------------------------------------------------
(* generate_ir_node, its first part: the work that it leaves.              *)

Task(n, s, m) ==
  /\ ~s.lost /\ ~m.fresh /\ m.height = s.height + 1
  /\ m.lost <=> ~HasValue(tree, n)
  /\ m.recent => s.recent \/ IsOperand(n)

(* What holds before an expression is generated.                           *)
LEMMA GenerateItem ==
  ASSUME ValueInv, todo # <<>>, Next1.do = "generate"
  PROVE  /\ \E s, m, e \in States : Holds(s) /\ Leads(m, Tail(todo), e) /\ Task(Next1.n, s, m)
         /\ IsPath(tree, Next1.n)
         /\ IsOperand(Next1.n) => Next1.n \notin visited /\ Parent(Next1.n) \in visited
<1>1. PICK s \in States, m \in States, e \in States :
        Holds(s) /\ Starts(s) /\ Does(Next1, s, m) /\ Leads(m, Tail(todo), e)
      BY NextItem
<1>2. /\ Task(Next1.n, s, m) /\ IsPath(tree, Next1.n)
      /\ IsOperand(Next1.n) => s.fresh
      BY <1>1 DEF Does, Fits, Needs, Leaves, Outside, States, Task
<1>3. QED
      BY <1>1, <1>2 DEF Starts

(* A node that is generated was reached after its parent.                  *)
LEMMA GeneratingInOrder ==
  ASSUME ValueInv, NEW type, Generating(type), type # "NULL", tree' = tree
  PROVE  /\ InOrder' /\ IsPath(tree, Next1.n) /\ ~IsNull(Next1.n)
         /\ todo # <<>> /\ Next1.do = "generate" /\ At(Next1.n).type = type
         /\ Next1.n \in visited'
<1>1. /\ todo # <<>> /\ Next1.do = "generate" /\ At(Next1.n).type = type
      /\ visited' = visited \cup {Next1.n}
      BY DEF Generating, Doing
<1>2. IsPath(tree, Next1.n) /\ (IsOperand(Next1.n) => Parent(Next1.n) \in visited)
      BY <1>1, GenerateItem
<1>3. QED
      BY <1>1, <1>2, Visit, NotNull DEF ValueInv

(* A node that loads nothing is neither operand nor argument.              *)
LEMMA NotLoaded ==
  ASSUME NEW n, Plain(tree), IsPath(tree, n), ~IsNull(n), ~Loads(tree, n)
  PROVE  ~IsOperand(n) /\ ~IsArgument(n)
BY OperandLoads, PlainNode DEF PlainAt, At, IsNull, Missing, IsArgument

(* An expression that is missing or was generated: it has no value.        *)
LEMMA GenerateVisitedValue ==
  ASSUME ValueInv, Inv', Plain(tree), GenerateVisited
  PROVE  ValueInv'
<1>1. /\ todo # <<>> /\ Next1.do = "generate"
      /\ UNCHANGED <<tree, irlist, crashed, visited, registernum>>
      /\ Then(<<>>) /\ vals' = Append(vals, NOREGISTER)
      /\ IsNull(Next1.n) \/ Next1.n \in visited
      BY DEF GenerateVisited, Doing, counters
<1>2. PICK s \in States, m \in States, e \in States :
        Holds(s) /\ Leads(m, Tail(todo), e) /\ Task(Next1.n, s, m)
      BY <1>1, GenerateItem
<1>3. ~IsOperand(Next1.n)
      BY <1>1, GenerateItem, OperandLoads
<1>4. ReadsWritten' /\ EosHasNoRegister(irlist)' /\ \A t : Recent(t) => Recent(t)'
      BY <1>1, SameList
<1>5. m.recent => Recent(registernum - 1)'
      BY <1>1, <1>2, <1>3, <1>4 DEF Task, Holds
<1>6. NOREGISTER \in Int /\ Usable(NOREGISTER)'
      BY DEF NOREGISTER, Usable, Special
<1>7. Holds(m)'
      BY <1>1, <1>2, <1>4, <1>5, <1>6, HoldsMore DEF Task
<1>8. QED
      BY <1>1, <1>2, <1>4, <1>7, LastStep DEF Task

(* A case that leaves work and appends nothing itself.                     *)
LEMMA WorkStep ==
  ASSUME ValueInv, Inv', todo # <<>>, Next1.do = "generate",
         UNCHANGED <<tree, vals, irlist, registernum, crashed>>, InOrder',
         NEW new, IsSequence(new), Then(new),
         \A s, m \in States : Task(Next1.n, s, m) =>
            \E g \in States :
               /\ g.height = s.height /\ ~g.lost /\ (g.recent => s.recent)
               /\ g.fresh => new # <<>> /\ new[1].n \notin visited' /\ Parent(new[1].n) \in visited'
               /\ Leads(g, new, m)
  PROVE  ValueInv'
<1>1. PICK s \in States, m \in States, e \in States :
        Holds(s) /\ Leads(m, Tail(todo), e) /\ Task(Next1.n, s, m)
      BY GenerateItem
<1>2. PICK g \in States :
        /\ g.height = s.height /\ ~g.lost /\ (g.recent => s.recent)
        /\ g.fresh => new # <<>> /\ new[1].n \notin visited' /\ Parent(new[1].n) \in visited'
        /\ Leads(g, new, m)
      BY <1>1
<1>3. ReadsWritten' /\ EosHasNoRegister(irlist)' /\ \A t : Recent(t) => Recent(t)'
      BY SameList
<1>4. g.recent => Recent(registernum - 1)'
      BY <1>1, <1>2, <1>3 DEF Holds
<1>5. Holds(g)'
      BY <1>1, <1>2, <1>3, <1>4, HoldsSame DEF Task
<1>6. QED
      BY <1>1, <1>2, <1>3, <1>5, ValueStep

(* The states in between.                                                  *)
LEMMA StateHas ==
  ASSUME NEW h \in Nat, NEW l \in BOOLEAN, NEW r \in BOOLEAN
  PROVE  /\ State(h, l, r) \in States /\ State(h, l, r).height = h
         /\ State(h, l, r).lost = l /\ State(h, l, r).recent = r /\ ~State(h, l, r).fresh
BY DEF State, States

(* A state with one value more, as recent as the one before,               *)
LEMMA Keeping ==
  ASSUME NEW s \in States, NEW h \in Nat
  PROVE  \E g \in States : g.height = h /\ ~g.lost /\ (g.recent <=> s.recent) /\ ~g.fresh
<1>1. s.recent \in BOOLEAN
      BY DEF States
<1>2. QED
      BY <1>1, StateHas

(* one whose last value may be no register,                                *)
LEMMA Losing ==
  ASSUME NEW s \in States, NEW h \in Nat
  PROVE  \E g \in States : g.height = h /\ g.lost /\ (g.recent <=> s.recent) /\ ~g.fresh
<1>1. s.recent \in BOOLEAN
      BY DEF States
<1>2. QED
      BY <1>1, StateHas

(* and one where the last temporary was just written.                      *)
LEMMA Making ==
  ASSUME NEW h \in Nat
  PROVE  \E g \in States : g.height = h /\ ~g.lost /\ g.recent /\ ~g.fresh
BY StateHas

(* What is returned: the right child of the statement.                     *)
LEMMA ReturnedChild ==
  ASSUME NEW n, Plain(tree), IsPath(tree, n), At(n).type = "STMT"
  PROVE  /\ IsPath(tree, Right(Parent(n))) /\ ~IsOperand(Right(Parent(n)))
         /\ HasValue(tree, Right(Parent(n)))
<1>1. ~IsNull(n) /\ PlainAt(tree, n)
      BY NotNull, PlainNode
<1>2. IsPath(tree, Parent(n)) /\ ~IsNull(Parent(n))
      BY <1>1, Parents
<1>3. IsPath(tree, Right(Parent(n))) /\ Parent(Right(Parent(n))) = Parent(n)
      BY <1>2, Children
<1>4. At(Parent(n)).type # "UNARY_OP"
      <2>1. SUFFICES ASSUME At(Parent(n)).type = "UNARY_OP" PROVE FALSE
            OBVIOUS
      <2>2. n = Left(Parent(n)) \/ n = Right(Parent(n))
            BY <2>1, Parents
      <2>3. n = Operand(tree, Parent(n))
            <3>1. IsNull(Left(Parent(n))) \/ IsNull(Right(Parent(n)))
                  BY <1>2, <2>1, PlainNode DEF PlainAt, At, IsNull, Missing
            <3>2. QED
                  BY <1>1, <2>2, <3>1 DEF Operand, IsNull, Missing, At
      <2>4. Loads(tree, n)
            BY <1>2, <2>1, <2>3, PlainNode DEF PlainAt, At
      <2>5. QED
            BY <2>4 DEF Loads, At
<1>5. ~IsOperand(Right(Parent(n)))
      BY <1>3, <1>4 DEF IsOperand
<1>6. HasValue(tree, Right(Parent(n)))
      BY <1>1 DEF PlainAt, At
<1>7. QED
      BY <1>3, <1>5, <1>6

(* A return leaves to do what it returns.                                  *)
LEMMA GenerateReturnValue ==
  ASSUME ValueInv, Inv', Plain(tree), GenerateReturn
  PROVE  ValueInv'
<1>1. PICK n : n = Next1.n
      OBVIOUS
<1>2. PICK c : c = Right(Parent(n))
      OBVIOUS
<1>3. /\ Generating("STMT") /\ UNCHANGED <<tree, vals, irlist, registernum, crashed>>
      /\ Then(<<Generate(c, "L_VALUE"), Return(n), Param(n)>>)
      BY <1>1, <1>2 DEF GenerateReturn, counters
<1>4. /\ InOrder' /\ IsPath(tree, n) /\ ~IsNull(n) /\ At(n).type = "STMT"
      /\ todo # <<>> /\ Next1.do = "generate"
      BY <1>1, <1>3, GeneratingInOrder
<1>5. IsPath(tree, c) /\ ~IsOperand(c) /\ HasValue(tree, c)
      BY <1>2, <1>4, ReturnedChild
<1>6. ~IsOperand(n) /\ ~IsArgument(n) /\ HasValue(tree, n)
      BY <1>4, NotLoaded DEF Loads, HasValue, At
<1>7. ASSUME NEW s \in States, NEW m \in States, Task(n, s, m)
      PROVE  \E g \in States :
               /\ g.height = s.height /\ ~g.lost /\ (g.recent => s.recent) /\ ~g.fresh
               /\ Leads(g, <<Generate(c, "L_VALUE"), Return(n), Param(n)>>, m)
               /\ IsSequence(<<Generate(c, "L_VALUE"), Return(n), Param(n)>>)
      <2>1. /\ s.height \in Nat /\ s.height + 1 \in Nat /\ s.recent \in BOOLEAN
            /\ s.height + 1 >= 1
            BY DEF States
      <2>2. PICK g \in States :
              g.height = s.height /\ ~g.lost /\ (g.recent <=> s.recent) /\ ~g.fresh
            BY <2>1, Keeping
      <2>3. PICK k \in States :
              k.height = s.height + 1 /\ ~k.lost /\ (k.recent <=> s.recent) /\ ~k.fresh
            BY <2>1, Keeping
      <2>4. /\ ~m.fresh /\ m.height = s.height + 1 /\ ~m.lost
            /\ m.recent => s.recent
            BY <1>6, <1>7 DEF Task
      <2>5. Does(Generate(c, "L_VALUE"), g, k)
            BY <1>5, <2>2, <2>3, DoesGenerate
      <2>6. Does(Return(n), k, k)
            BY <1>4, <2>1, <2>3, DoesReturn
      <2>7. Does(Param(n), k, m)
            BY <1>4, <1>6, <2>3, <2>4, DoesParam
      <2>8. QED
            BY <2>2, <2>5, <2>6, <2>7, LeadsThree
<1>8. IsSequence(<<Generate(c, "L_VALUE"), Return(n), Param(n)>>)
      BY <1>1, <1>4, <1>7, GenerateItem
<1>9. QED
      BY <1>1, <1>3, <1>4, <1>7, <1>8, WorkStep

(* ++ and -- leave to do their operand, which is reached now.              *)
LEMMA GenerateUnaryValue ==
  ASSUME ValueInv, Inv', Plain(tree), GenerateUnary
  PROVE  ValueInv'
<1>1. PICK n : n = Next1.n
      OBVIOUS
<1>2. PICK c : c = Operand(tree, n)
      OBVIOUS
<1>3. PICK by : by = IF At(n).string_data = "++" THEN 1 ELSE -1
      OBVIOUS
<1>4. PICK new : new = <<Generate(c, "R_VALUE"), Increment(n, by), Param(n)>>
      OBVIOUS
<1>5. /\ Generating("UNARY_OP") /\ UNCHANGED <<tree, vals, irlist, registernum, crashed>>
      /\ Then(new)
      BY <1>1, <1>2, <1>3, <1>4 DEF GenerateUnary, counters, Operand, IsNull, Missing, At
<1>6. /\ InOrder' /\ IsPath(tree, n) /\ ~IsNull(n) /\ At(n).type = "UNARY_OP"
      /\ todo # <<>> /\ Next1.do = "generate"
      /\ visited' = visited \cup {n} /\ n \notin visited
      BY <1>1, <1>5, GeneratingInOrder DEF Generating
<1>7. IsPath(tree, c) /\ IsOperand(c) /\ Parent(c) = n /\ Loads(tree, c)
      BY <1>2, <1>6, OperandOf, OperandLoads
<1>8. HasValue(tree, c) /\ HasValue(tree, n)
      BY <1>6, <1>7 DEF Loads, HasValue, At
<1>9. c \notin visited' /\ Parent(c) \in visited'
      <2>1. c # n
            BY <1>2, <1>6, Children, Parents, ChildIsNew DEF Operand, IsNull, Missing, At
      <2>2. c \notin visited
            BY <1>6, <1>7 DEF ValueInv, InOrder
      <2>3. QED
            BY <1>6, <1>7, <2>1, <2>2
<1>10. ASSUME NEW s \in States, NEW m \in States, Task(n, s, m)
      PROVE  \E g \in States :
               /\ g.height = s.height /\ ~g.lost /\ (g.recent => s.recent)
               /\ new[1].n = c /\ new # <<>>
               /\ Leads(g, new, m) /\ IsSequence(new)
      <2>1. /\ s.height \in Nat /\ s.height + 1 \in Nat /\ s.recent \in BOOLEAN
            /\ s.height + 1 >= 1
            BY DEF States
      <2>2. PICK g : g = [height |-> s.height, lost |-> FALSE, recent |-> s.recent, fresh |-> TRUE]
            OBVIOUS
      <2>3. g \in States /\ g.height = s.height /\ ~g.lost /\ g.recent = s.recent /\ g.fresh
            BY <2>1, <2>2 DEF States
      <2>4. PICK k \in States :
              k.height = s.height + 1 /\ ~k.lost /\ k.recent /\ ~k.fresh
            BY <2>1, Making
      <2>5. ~m.fresh /\ m.height = s.height + 1 /\ ~m.lost
            BY <1>8, <1>10 DEF Task
      <2>6. Does(Generate(c, "R_VALUE"), g, k)
            BY <1>7, <1>8, <2>3, <2>4, DoesGenerate
      <2>7. Does(Increment(n, by), k, k)
            BY <1>6, <2>1, <2>4, DoesIncrement
      <2>8. Does(Param(n), k, m)
            BY <1>6, <2>4, <2>5, DoesParam
      <2>9. /\ Leads(g, new, m) /\ IsSequence(new)
            /\ new[1] = Generate(c, "R_VALUE") /\ new # <<>>
            BY <1>4, <2>3, <2>6, <2>7, <2>8, LeadsThree
      <2>10. QED
            BY <2>3, <2>9 DEF Generate
<1>11. IsSequence(new)
       BY <1>1, <1>6, <1>10, GenerateItem
<1>12. QED
       BY <1>1, <1>5, <1>6, <1>9, <1>10, <1>11, WorkStep

(* The operands of a binary operator.                                      *)
LEMMA BinaryOperands ==
  ASSUME NEW n, Plain(tree), IsPath(tree, n), At(n).type = "BINARY_OP"
  PROVE  /\ ~IsNull(n)
         /\ IsPath(tree, Left(n)) /\ ~IsOperand(Left(n)) /\ HasValue(tree, Left(n))
         /\ IsPath(tree, Right(n)) /\ ~IsOperand(Right(n)) /\ HasValue(tree, Right(n))
<1>1. ~IsNull(n) /\ PlainAt(tree, n)
      BY NotNull, PlainNode
<1>2. QED
      BY <1>1, Children, NoOperandBelow DEF PlainAt, At

(* An assignment leaves to do both sides and the store.                    *)
LEMMA GenerateAssignmentValue ==
  ASSUME ValueInv, Inv', Plain(tree), GenerateAssignment
  PROVE  ValueInv'
<1>1. PICK n : n = Next1.n
      OBVIOUS
<1>2. PICK new : new = <<Generate(Left(n), "L_VALUE"), Generate(Right(n), "R_VALUE"), Store(n),
                         Param(n)>>
      OBVIOUS
<1>3. /\ Generating("BINARY_OP") /\ UNCHANGED <<tree, vals, irlist, registernum, crashed>>
      /\ Then(new) /\ At(n).string_data = "="
      BY <1>1, <1>2 DEF GenerateAssignment, counters
<1>4. /\ InOrder' /\ IsPath(tree, n) /\ ~IsNull(n) /\ At(n).type = "BINARY_OP"
      /\ todo # <<>> /\ Next1.do = "generate"
      BY <1>1, <1>3, GeneratingInOrder
<1>5. /\ IsPath(tree, Left(n)) /\ ~IsOperand(Left(n)) /\ HasValue(tree, Left(n))
      /\ IsPath(tree, Right(n)) /\ ~IsOperand(Right(n)) /\ HasValue(tree, Right(n))
      BY <1>4, BinaryOperands
<1>6. ~HasValue(tree, n)
      BY <1>3, <1>4 DEF HasValue, At
<1>7. ~IsOperand(n) /\ ~IsArgument(n)
      BY <1>4, <1>6, NotLoaded DEF Loads, At
<1>8. ASSUME NEW s \in States, NEW m \in States, Task(n, s, m)
      PROVE  \E g \in States :
               /\ g.height = s.height /\ ~g.lost /\ (g.recent => s.recent) /\ ~g.fresh
               /\ Leads(g, new, m) /\ IsSequence(new)
      <2>1. /\ s.height \in Nat /\ s.height + 1 \in Nat /\ s.height + 2 \in Nat
            /\ s.recent \in BOOLEAN /\ s.height + 1 >= 1
            /\ s.height + 2 = (s.height + 1) + 1
            BY DEF States
      <2>2. PICK g \in States :
              g.height = s.height /\ ~g.lost /\ (g.recent <=> s.recent) /\ ~g.fresh
            BY <2>1, Keeping
      <2>3. PICK k \in States :
              k.height = s.height + 1 /\ ~k.lost /\ (k.recent <=> s.recent) /\ ~k.fresh
            BY <2>1, Keeping
      <2>4. PICK l \in States :
              l.height = s.height + 2 /\ ~l.lost /\ (l.recent <=> s.recent) /\ ~l.fresh
            BY <2>1, Keeping
      <2>5. PICK o \in States :
              o.height = s.height + 1 /\ o.lost /\ (o.recent <=> s.recent) /\ ~o.fresh
            BY <2>1, Losing
      <2>6. /\ ~m.fresh /\ m.height = s.height + 1 /\ m.lost
            /\ m.recent => s.recent
            BY <1>6, <1>7, <1>8 DEF Task
      <2>7. Does(Generate(Left(n), "L_VALUE"), g, k)
            BY <1>5, <2>2, <2>3, DoesGenerate
      <2>8. Does(Generate(Right(n), "R_VALUE"), k, l)
            BY <1>5, <2>1, <2>3, <2>4, DoesGenerate
      <2>9. Does(Store(n), l, o)
            BY <1>4, <2>1, <2>4, <2>5, DoesStore
      <2>10. Does(Param(n), o, m)
             BY <1>4, <1>7, <2>5, <2>6, DoesParam
      <2>11. QED
             BY <1>2, <2>2, <2>7, <2>8, <2>9, <2>10, LeadsFour
<1>9. IsSequence(new)
      BY <1>1, <1>4, <1>8, GenerateItem
<1>10. QED
       BY <1>1, <1>3, <1>4, <1>8, <1>9, WorkStep

(* An operator leaves to do both operands.                                 *)
LEMMA GenerateOperatorValue ==
  ASSUME ValueInv, Inv', Plain(tree), GenerateOperator
  PROVE  ValueInv'
<1>1. PICK n : n = Next1.n
      OBVIOUS
<1>2. PICK op : op = At(n).string_data
      OBVIOUS
<1>3. PICK new : new = <<Generate(Left(n), "R_VALUE"), Generate(Right(n), "R_VALUE"),
                         Operate(n, Opcode(op)), Param(n)>>
      OBVIOUS
<1>4. /\ Generating("BINARY_OP") /\ UNCHANGED <<tree, vals, irlist, registernum, crashed>>
      /\ Then(new) /\ op \in Operators /\ op # "="
      BY <1>1, <1>2, <1>3 DEF GenerateOperator, counters, Operators
<1>5. /\ InOrder' /\ IsPath(tree, n) /\ ~IsNull(n) /\ At(n).type = "BINARY_OP"
      /\ todo # <<>> /\ Next1.do = "generate"
      BY <1>1, <1>4, GeneratingInOrder
<1>6. /\ IsPath(tree, Left(n)) /\ ~IsOperand(Left(n)) /\ HasValue(tree, Left(n))
      /\ IsPath(tree, Right(n)) /\ ~IsOperand(Right(n)) /\ HasValue(tree, Right(n))
      BY <1>5, BinaryOperands
<1>7. HasValue(tree, n)
      BY <1>2, <1>4, <1>5 DEF HasValue, At
<1>8. ASSUME NEW s \in States, NEW m \in States, Task(n, s, m)
      PROVE  \E g \in States :
               /\ g.height = s.height /\ ~g.lost /\ (g.recent => s.recent) /\ ~g.fresh
               /\ Leads(g, new, m) /\ IsSequence(new)
      <2>1. /\ s.height \in Nat /\ s.height + 1 \in Nat /\ s.height + 2 \in Nat
            /\ s.recent \in BOOLEAN /\ s.height + 1 >= 1
            /\ s.height + 2 = (s.height + 1) + 1
            BY DEF States
      <2>2. PICK g \in States :
              g.height = s.height /\ ~g.lost /\ (g.recent <=> s.recent) /\ ~g.fresh
            BY <2>1, Keeping
      <2>3. PICK k \in States :
              k.height = s.height + 1 /\ ~k.lost /\ (k.recent <=> s.recent) /\ ~k.fresh
            BY <2>1, Keeping
      <2>4. PICK l \in States :
              l.height = s.height + 2 /\ ~l.lost /\ (l.recent <=> s.recent) /\ ~l.fresh
            BY <2>1, Keeping
      <2>5. PICK o \in States :
              o.height = s.height + 1 /\ ~o.lost /\ o.recent /\ ~o.fresh
            BY <2>1, Making
      <2>6. ~m.fresh /\ m.height = s.height + 1 /\ ~m.lost
            BY <1>7, <1>8 DEF Task
      <2>7. Does(Generate(Left(n), "R_VALUE"), g, k)
            BY <1>6, <2>2, <2>3, DoesGenerate
      <2>8. Does(Generate(Right(n), "R_VALUE"), k, l)
            BY <1>6, <2>1, <2>3, <2>4, DoesGenerate
      <2>9. Does(Operate(n, Opcode(op)), l, o)
            BY <1>4, <1>5, <2>1, <2>4, <2>5, DoesOperate
      <2>10. Does(Param(n), o, m)
             BY <1>5, <2>5, <2>6, DoesParam
      <2>11. QED
             BY <1>3, <2>2, <2>7, <2>8, <2>9, <2>10, LeadsFour
<1>9. IsSequence(new)
      BY <1>1, <1>5, <1>8, GenerateItem
<1>10. QED
       BY <1>1, <1>4, <1>5, <1>8, <1>9, WorkStep

(* A logical operator leaves to do both operands and its branches.         *)
LEMMA GenerateLogicalValue ==
  ASSUME ValueInv, Inv', Plain(tree), GenerateLogical
  PROVE  ValueInv'
<1>1. PICK n : n = Next1.n
      OBVIOUS
<1>2. PICK isand : isand = (At(n).string_data = "&&")
      OBVIOUS
<1>3. PICK fail : fail = new_label(IF isand THEN "and_fail" ELSE "or_fail", 0)
      OBVIOUS
<1>4. PICK pass : pass = new_label(IF isand THEN "and_pass" ELSE "or_pass", 1)
      OBVIOUS
<1>5. PICK done : done = new_label(IF isand THEN "and_done" ELSE "or_done", 2)
      OBVIOUS
<1>6. PICK lhs : lhs = Generate(Left(n), "R_VALUE")
      OBVIOUS
<1>7. PICK rhs : rhs = Generate(Right(n), "R_VALUE")
      OBVIOUS
<1>8. PICK work : work = IF isand
              THEN <<lhs, Branch(n, "BLEZ", fail), rhs, Branch(n, "BGZ", pass),
                     Truth(n, fail, 0, pass, done)>>
              ELSE <<lhs, Branch(n, "BGZ", pass), rhs, Branch(n, "BLEZ", fail),
                     Truth(n, pass, 1, fail, done)>>
      OBVIOUS
<1>9. /\ Generating("BINARY_OP") /\ UNCHANGED <<tree, vals, irlist, registernum, crashed>>
      /\ At(n).string_data # "="
      BY <1>1 DEF GenerateLogical
<1>10. Then(work \o <<Param(n)>>)
       BY <1>1, <1>2, <1>3, <1>4, <1>5, <1>6, <1>7, <1>8 DEF GenerateLogical
<1>11. /\ InOrder' /\ IsPath(tree, n) /\ ~IsNull(n) /\ At(n).type = "BINARY_OP"
       /\ todo # <<>> /\ Next1.do = "generate"
       BY <1>1, <1>9, GeneratingInOrder
<1>12. /\ IsPath(tree, Left(n)) /\ ~IsOperand(Left(n)) /\ HasValue(tree, Left(n))
       /\ IsPath(tree, Right(n)) /\ ~IsOperand(Right(n)) /\ HasValue(tree, Right(n))
       BY <1>11, BinaryOperands
<1>13. HasValue(tree, n)
       BY <1>9, <1>11 DEF HasValue, At
<1>14. ASSUME NEW s \in States, NEW m \in States, Task(n, s, m)
       PROVE  \E g \in States :
                /\ g.height = s.height /\ ~g.lost /\ (g.recent => s.recent) /\ ~g.fresh
                /\ Leads(g, work \o <<Param(n)>>, m) /\ IsSequence(work \o <<Param(n)>>)
       <2>1. s.height \in Nat /\ s.height + 1 \in Nat /\ s.recent \in BOOLEAN
             BY DEF States
       <2>2. PICK g \in States :
               g.height = s.height /\ ~g.lost /\ (g.recent <=> s.recent) /\ ~g.fresh
             BY <2>1, Keeping
       <2>3. PICK k \in States :
               k.height = s.height + 1 /\ ~k.lost /\ (k.recent <=> s.recent) /\ ~k.fresh
             BY <2>1, Keeping
       <2>4. PICK o \in States :
               o.height = s.height + 1 /\ ~o.lost /\ o.recent /\ ~o.fresh
             BY <2>1, Making
       <2>5. ~m.fresh /\ m.height = s.height + 1 /\ ~m.lost
             BY <1>13, <1>14 DEF Task
       <2>6. Does(lhs, g, k) /\ Does(rhs, g, k)
             BY <1>6, <1>7, <1>12, <2>2, <2>3, DoesGenerate
       <2>7. /\ Does(Branch(n, "BLEZ", fail), k, g) /\ Does(Branch(n, "BGZ", pass), k, g)
             /\ Does(Branch(n, "BGZ", pass), k, g) /\ Does(Branch(n, "BLEZ", fail), k, g)
             BY <1>11, <2>2, <2>3, DoesBranch
       <2>8. Does(Truth(n, fail, 0, pass, done), g, o) /\ Does(Truth(n, pass, 1, fail, done), g, o)
             BY <1>11, <2>2, <2>4, DoesTruth
       <2>9. Does(Param(n), o, m)
             BY <1>11, <2>4, <2>5, DoesParam
       <2>10. Leads(g, work, o) /\ IsSequence(work)
              <3>1. PICK and : and = <<lhs, Branch(n, "BLEZ", fail), rhs, Branch(n, "BGZ", pass),
                                       Truth(n, fail, 0, pass, done)>>
                    OBVIOUS
              <3>2. PICK or : or = <<lhs, Branch(n, "BGZ", pass), rhs, Branch(n, "BLEZ", fail),
                                     Truth(n, pass, 1, fail, done)>>
                    OBVIOUS
              <3>3. Leads(g, and, o) /\ IsSequence(and)
                    BY <2>6, <2>7, <2>8, <3>1, LeadsFive
              <3>4. Leads(g, or, o) /\ IsSequence(or)
                    BY <2>6, <2>7, <2>8, <3>2, LeadsFive
              <3>5. work = IF isand THEN and ELSE or
                    BY <1>8, <3>1, <3>2
              <3>6. QED
                    BY <3>3, <3>4, <3>5
       <2>11. Leads(o, <<Param(n)>>, m) /\ IsSequence(<<Param(n)>>)
              BY <2>9, LeadsOne, SequenceOne
       <2>12. Leads(g, work \o <<Param(n)>>, m) /\ IsSequence(work \o <<Param(n)>>)
              BY <2>10, <2>11, LeadsJoin, Concatenation
       <2>13. QED
              BY <2>2, <2>12
<1>15. IsSequence(work \o <<Param(n)>>)
       BY <1>1, <1>11, <1>14, GenerateItem
<1>16. QED
       BY <1>1, <1>9, <1>10, <1>11, <1>14, <1>15, WorkStep

-----------------------------------------------------------------------------
(* generate_ir_node, the values that it returns.                           *)

(* A case that appends nodes, and leaves only the end of the call to do.   *)
LEMMA MadeStep ==
  ASSUME ValueInv, Inv', todo # <<>>, Next1.do = "generate", UNCHANGED <<tree, crashed>>, InOrder',
         NEW n, n = Next1.n, IsPath(tree, n), ~IsNull(n), Then(<<Param(n)>>),
         ReadsWritten', EosHasNoRegister(irlist)', \A t : Recent(t) => Recent(t)',
         NEW v \in Int, vals' = Append(vals, v), Usable(v)' \/ ~HasValue(tree, n),
         \/ Recent(registernum - 1)'
         \/ ~IsOperand(n) /\ ~IsArgument(n) /\ registernum' = registernum
  PROVE  ValueInv'
<1>1. PICK s \in States, m \in States, e \in States :
        Holds(s) /\ Leads(m, Tail(todo), e) /\ Task(n, s, m)
      BY GenerateItem
<1>2. s.height \in Nat /\ s.height + 1 \in Nat /\ s.recent \in BOOLEAN
      BY DEF States
<1>3. PICK g \in States :
        /\ g.height = s.height + 1 /\ (g.lost <=> ~HasValue(tree, n)) /\ ~g.fresh
        /\ g.recent => Recent(registernum - 1)'
        /\ IsArgument(n) => g.recent
        /\ m.recent => g.recent
      <2>1. CASE Recent(registernum - 1)'
            <3>1. PICK l \in BOOLEAN : l <=> ~HasValue(tree, n)
                  OBVIOUS
            <3>2. PICK g : g = State(s.height + 1, l, TRUE)
                  OBVIOUS
            <3>3. /\ g \in States /\ g.height = s.height + 1 /\ (g.lost <=> ~HasValue(tree, n))
                  /\ g.recent = TRUE /\ ~g.fresh
                  BY <1>2, <3>1, <3>2, StateHas
            <3>4. QED
                  BY <2>1, <3>3
      <2>2. CASE ~IsOperand(n) /\ ~IsArgument(n) /\ registernum' = registernum
            <3>1. PICK l \in BOOLEAN : l <=> ~HasValue(tree, n)
                  OBVIOUS
            <3>2. PICK g : g = State(s.height + 1, l, s.recent)
                  OBVIOUS
            <3>3. /\ g \in States /\ g.height = s.height + 1 /\ (g.lost <=> ~HasValue(tree, n))
                  /\ g.recent = s.recent /\ ~g.fresh
                  BY <1>2, <3>1, <3>2, StateHas
            <3>4. s.recent => Recent(registernum - 1)'
                  BY <1>1, <2>2 DEF Holds
            <3>5. QED
                  BY <1>1, <2>2, <3>3, <3>4 DEF Task
      <2>3. QED
            BY <2>1, <2>2
<1>4. Does(Param(n), g, m)
      BY <1>1, <1>3, DoesParam DEF Task
<1>5. Leads(g, <<Param(n)>>, m) /\ IsSequence(<<Param(n)>>)
      BY <1>4, LeadsOne, SequenceOne
<1>6. Holds(g)'
      BY <1>1, <1>3, HoldsMore DEF Task
<1>7. QED
      BY <1>1, <1>3, <1>5, <1>6, ValueStep

(* The nodes that are appended hold what Grow says.                        *)
LEMMA GoodGrows ==
  ASSUME ValueInv, NEW irns, Good(irns), Append_ir_nodes(irns)
  PROVE  /\ ReadsWritten' /\ EosHasNoRegister(irlist)'
         /\ \A t : Recent(t) => Recent(t)'
         /\ \A j \in 1..Len(irns) : \A t : Sets(irns[j], t) => Recent(t)'
BY Grow DEF ValueInv, Grown

(* A call has the value $v0.                                               *)
LEMMA GenerateCallValue ==
  ASSUME ValueInv, Inv', Plain(tree), GenerateCall
  PROVE  ValueInv'
<1>1. PICK n : n = Next1.n
      OBVIOUS
<1>2. PICK call : call = IrNode(Left(n), "FUNCTIONCALL", Ptr(At(n).left.string_data),
                                NoOperand, NoOperand)
      OBVIOUS
<1>3. /\ Generating("LIST") /\ UNCHANGED <<tree, registernum, crashed>>
      /\ Then(<<Param(n)>>) /\ At(n).subtype = "FUNCTION_CALL"
      /\ vals' = Append(vals, REGISTERV0) /\ Append_ir_nodes(<<call>>)
      BY <1>1, <1>2 DEF GenerateCall, counters
<1>4. /\ InOrder' /\ IsPath(tree, n) /\ ~IsNull(n) /\ At(n).type = "LIST"
      /\ todo # <<>> /\ Next1.do = "generate"
      BY <1>1, <1>3, GeneratingInOrder
<1>5. ~IsOperand(n) /\ ~IsArgument(n)
      BY <1>4, NotLoaded DEF Loads, At
<1>6. Good(<<call>>)
      <2>1. call.opcode # "EOS" /\ \A t : ~Reader(call, t)
            BY <1>2, ReaderOf, Operands DEF IrNode
      <2>2. QED
            BY <2>1, GoodOne
<1>7. REGISTERV0 \in Int /\ Usable(REGISTERV0)'
      BY DEF REGISTERV0, Usable, Special
<1>8. QED
      BY <1>1, <1>3, <1>4, <1>5, <1>6, <1>7, GoodGrows, MadeStep

(* Any other list has none.                                                *)
LEMMA GenerateListValue ==
  ASSUME ValueInv, Inv', Plain(tree), GenerateList
  PROVE  ValueInv'
<1>1. PICK n : n = Next1.n
      OBVIOUS
<1>2. /\ Generating("LIST") /\ UNCHANGED <<tree, irlist, registernum, crashed>>
      /\ Then(<<Param(n)>>) /\ At(n).subtype # "FUNCTION_CALL"
      /\ \E r \in Uninitialised : vals' = Append(vals, r)
      BY <1>1 DEF GenerateList, counters
<1>3. /\ InOrder' /\ IsPath(tree, n) /\ ~IsNull(n) /\ At(n).type = "LIST"
      /\ todo # <<>> /\ Next1.do = "generate"
      BY <1>1, <1>2, GeneratingInOrder
<1>4. ~IsOperand(n) /\ ~IsArgument(n)
      BY <1>3, NotLoaded DEF Loads, At
<1>5. ~HasValue(tree, n)
      BY <1>2, <1>3 DEF HasValue, At
<1>6. PICK v \in Int : vals' = Append(vals, v)
      BY <1>2 DEF Uninitialised, NOREGISTER
<1>7. QED
      BY <1>1, <1>2, <1>3, <1>4, <1>5, <1>6, SameList, MadeStep

(* A constant is loaded to a new temporary.                                *)
LEMMA GenerateNumberValue ==
  ASSUME ValueInv, Inv', Plain(tree), GenerateNumber
  PROVE  ValueInv'
<1>1. PICK n : n = Next1.n
      OBVIOUS
<1>2. PICK li : li = LoadNode(n, registernum, At(n).const_value)
      OBVIOUS
<1>3. /\ Generating("NUMBER") /\ UNCHANGED <<tree, crashed>>
      /\ Then(<<Param(n)>>) /\ registernum' = registernum + 1
      /\ vals' = Append(vals, registernum) /\ Append_ir_nodes(<<li>>)
      BY <1>1, <1>2 DEF GenerateNumber
<1>4. /\ InOrder' /\ IsPath(tree, n) /\ ~IsNull(n)
      /\ todo # <<>> /\ Next1.do = "generate"
      BY <1>1, <1>3, GeneratingInOrder
<1>5. Good(<<li>>)
      BY <1>2, KnownNodes, GoodOne
<1>6. PICK r \in Int : r = registernum
      BY DEF ValueInv, Inv
<1>7. Recent(r)'
      <2>1. Sets(li, r)
            BY <1>2, <1>6 DEF Sets, LoadNode, IrNode, Writing
      <2>2. 1 \in 1..Len(<<li>>) /\ <<li>>[1] = li
            OBVIOUS
      <2>3. QED
            BY <1>3, <1>5, <2>1, <2>2, GoodGrows
<1>8. registernum' - 1 = r /\ vals' = Append(vals, r)
      BY <1>3, <1>6
<1>9. Usable(r)' /\ Recent(registernum - 1)'
      BY <1>7, <1>8 DEF Usable
<1>10. QED
       BY <1>1, <1>3, <1>4, <1>5, <1>8, <1>9, GoodGrows, MadeStep

(* The address of a variable, and for its value the word there.            *)
LEMMA GenerateIdentifierValue ==
  ASSUME ValueInv, Inv', Plain(tree), GenerateIdentifier
  PROVE  ValueInv'
<1>1. PICK n : n = Next1.n
      OBVIOUS
<1>2. PICK r \in Int : r = registernum
      BY DEF ValueInv, Inv
<1>3. PICK la : la = IrNode(n, "LA", Reg(r), Ptr(At(n).string_data), NoOperand)
      OBVIOUS
<1>4. PICK liw : liw = IrNode(n, "LIW", Reg(r + 1), Reg(r), NoOperand)
      OBVIOUS
<1>5. PICK made : made = IF Next1.v = "R_VALUE" THEN <<la, liw>> ELSE <<la>>
      OBVIOUS
<1>6. /\ Generating("IDENTIFIER") /\ UNCHANGED <<tree, crashed>>
      /\ Then(<<Param(n)>>) /\ registernum' = r + Len(made)
      /\ vals' = Append(vals, r + Len(made) - 1) /\ Append_ir_nodes(made)
      BY <1>1, <1>2, <1>3, <1>4, <1>5 DEF GenerateIdentifier
<1>7. /\ InOrder' /\ IsPath(tree, n) /\ ~IsNull(n)
      /\ todo # <<>> /\ Next1.do = "generate"
      BY <1>1, <1>6, GeneratingInOrder
<1>8. /\ la.opcode # "EOS" /\ liw.opcode # "EOS"
      /\ \A t : ~Reader(la, t)
      /\ \A t : Reader(liw, t) => t = r
      /\ Sets(la, r) /\ Sets(liw, r + 1)
      <2>1. "LA" \in Writing /\ "LIW" \in Writing
            BY DEF Writing
      <2>2. QED
            BY <1>3, <1>4, <2>1, ReaderOf, Operands DEF Sets, IrNode
<1>9. /\ Good(made) /\ Len(made) \in {1, 2}
      /\ \E j \in 1..Len(made) : Sets(made[j], r + Len(made) - 1)
      <2>1. CASE made = <<la>>
            <3>1. Len(<<la>>) = 1 /\ <<la>>[1] = la /\ r + 1 - 1 = r /\ 1 \in 1..1
                  OBVIOUS
            <3>2. QED
                  BY <1>8, <2>1, <3>1, GoodOne
      <2>2. CASE made = <<la, liw>>
            <3>1. Len(<<la, liw>>) = 2 /\ <<la, liw>>[2] = liw /\ r + 2 - 1 = r + 1 /\ 2 \in 1..2
                  OBVIOUS
            <3>2. QED
                  BY <1>8, <2>2, <3>1, GoodTwo
      <2>3. QED
            BY <1>5, <2>1, <2>2
<1>10. PICK v \in Int : v = r + Len(made) - 1
       BY <1>9
<1>11. Recent(v)'
       BY <1>6, <1>9, <1>10, GoodGrows
<1>12. registernum' - 1 = v /\ vals' = Append(vals, v)
       BY <1>6, <1>10
<1>13. Usable(v)' /\ Recent(registernum - 1)'
       BY <1>11, <1>12 DEF Usable
<1>14. QED
       BY <1>1, <1>6, <1>7, <1>9, <1>12, <1>13, GoodGrows, MadeStep

-----------------------------------------------------------------------------
(* generate_ir_node, the nodes that use values.                            *)

(* The addition of ++ reads the value it changes.                          *)
LEMMA DoIncrementValue ==
  ASSUME ValueInv, Inv', DoIncrement
  PROVE  ValueInv'
<1>1. PICK irn : irn = IrNode(Next1.n, "ADDI", Reg(Top), Reg(Top), Imm(Next1.by))
      OBVIOUS
<1>2. /\ todo # <<>> /\ Next1.do = "increment" /\ UNCHANGED <<tree, crashed, visited, registernum>>
      /\ Then(<<>>) /\ vals' = Append(Drop1, registernum - 1) /\ Append_ir_nodes(<<irn>>)
      BY <1>1 DEF DoIncrement, Doing, counters
<1>3. PICK s \in States, m \in States, e \in States :
        Holds(s) /\ Does(Next1, s, m) /\ Leads(m, Tail(todo), e)
      BY <1>2, NextItem
<1>4. /\ ~m.fresh /\ s.height >= 1 /\ m.height = (s.height - 1) + 1 /\ ~s.lost /\ s.recent
      /\ s.height \in Nat
      BY <1>2, <1>3 DEF Does, Fits, Needs, Leaves, Outside, States
<1>5. irn.opcode # "EOS" /\ \A t : Reader(irn, t) => Usable(t)
      <2>1. Usable(Top)
            BY <1>3, <1>4, TopUsable
      <2>2. \A t : Reader(irn, t) => t = Top
            BY <1>1, ReaderOf, Operands
      <2>3. QED
            BY <1>1, <2>1, <2>2 DEF IrNode
<1>6. ReadsWritten' /\ EosHasNoRegister(irlist)' /\ \A t : Recent(t) => Recent(t)'
      BY <1>2, <1>5, GoodOne, GoodGrows
<1>7. PICK v \in Int : v = registernum - 1
      BY DEF ValueInv, Inv
<1>8. Recent(v)' /\ Usable(v)' /\ Recent(registernum - 1)'
      BY <1>2, <1>3, <1>4, <1>6, <1>7 DEF Holds, Usable
<1>9. /\ 1 \in 0..s.height
      /\ vals' = Append(SubSeq(vals, 1, Len(vals) - 1), v)
      BY <1>2, <1>4, <1>7 DEF Drop1
<1>10. Holds(m)'
       BY <1>3, <1>4, <1>6, <1>8, <1>9, HoldsPush
<1>11. QED
       BY <1>2, <1>3, <1>4, <1>6, <1>10, LastStep

(* A store reads both values, and 0 is returned for it.                    *)
LEMMA DoStoreValue ==
  ASSUME ValueInv, Inv', DoStore
  PROVE  ValueInv'
<1>1. PICK irn : irn = IrNode(Next1.n, "SIW", Reg(Top), Reg(Second), NoOperand)
      OBVIOUS
<1>2. /\ todo # <<>> /\ Next1.do = "store" /\ UNCHANGED <<tree, crashed, visited, registernum>>
      /\ Then(<<>>) /\ vals' = Append(Drop2, 0) /\ Append_ir_nodes(<<irn>>)
      BY <1>1 DEF DoStore, Doing, counters
<1>3. PICK s \in States, m \in States, e \in States :
        Holds(s) /\ Does(Next1, s, m) /\ Leads(m, Tail(todo), e)
      BY <1>2, NextItem
<1>4. /\ ~m.fresh /\ s.height >= 2 /\ m.height = (s.height - 2) + 1 /\ ~s.lost /\ m.lost
      /\ m.recent => s.recent
      /\ s.height \in Nat
      BY <1>2, <1>3 DEF Does, Fits, Needs, Leaves, Outside, States
<1>5. irn.opcode # "EOS" /\ \A t : Reader(irn, t) => Usable(t)
      <2>1. Usable(Top) /\ Usable(Second)
            BY <1>3, <1>4, TopUsable
      <2>2. \A t : Reader(irn, t) => t = Top \/ t = Second
            BY <1>1, ReaderOf, Operands
      <2>3. QED
            BY <1>1, <2>1, <2>2 DEF IrNode
<1>6. ReadsWritten' /\ EosHasNoRegister(irlist)' /\ \A t : Recent(t) => Recent(t)'
      BY <1>2, <1>5, GoodOne, GoodGrows
<1>7. m.recent => Recent(registernum - 1)'
      BY <1>2, <1>3, <1>4, <1>6 DEF Holds
<1>8. /\ 2 \in 0..s.height /\ 0 \in Int
      /\ vals' = Append(SubSeq(vals, 1, Len(vals) - 2), 0)
      BY <1>2, <1>4 DEF Drop2
<1>9. Holds(m)'
      BY <1>3, <1>4, <1>6, <1>7, <1>8, HoldsPush
<1>10. QED
       BY <1>2, <1>3, <1>4, <1>6, <1>9, LastStep

(* An operation reads both values and writes a new temporary.              *)
LEMMA DoOperateValue ==
  ASSUME ValueInv, Inv', DoOperate
  PROVE  ValueInv'
<1>1. PICK v \in Int : v = registernum
      BY DEF ValueInv, Inv
<1>2. PICK irn : irn = IrNode(Next1.n, Next1.op, Reg(v), Reg(Second), Reg(Top))
      OBVIOUS
<1>3. /\ todo # <<>> /\ Next1.do = "operate" /\ UNCHANGED <<tree, crashed, visited>>
      /\ registernum' = v + 1
      /\ Then(<<>>) /\ vals' = Append(Drop2, v) /\ Append_ir_nodes(<<irn>>)
      BY <1>1, <1>2 DEF DoOperate, Doing
<1>4. PICK s \in States, m \in States, e \in States :
        Holds(s) /\ Does(Next1, s, m) /\ Leads(m, Tail(todo), e)
      BY <1>3, NextItem
<1>5. /\ ~m.fresh /\ s.height >= 2 /\ m.height = (s.height - 2) + 1 /\ ~s.lost
      /\ s.height \in Nat
      /\ \E op \in Operators : Next1.op = Opcode(op)
      BY <1>3, <1>4 DEF Does, Fits, Needs, Leaves, Outside, States
<1>6. Next1.op \in Writing /\ Next1.op # "EOS"
      <2>1. Next1.op \in Writing
            BY <1>5 DEF Writing
      <2>2. "EOS" \notin Writing
            BY NotWritten
      <2>3. QED
            BY <2>1, <2>2
<1>7. irn.opcode # "EOS" /\ \A t : Reader(irn, t) => Usable(t)
      <2>1. Usable(Top) /\ Usable(Second)
            BY <1>4, <1>5, TopUsable
      <2>2. \A t : Reader(irn, t) => t = Top \/ t = Second
            BY <1>2, <1>6, ReaderOf, Operands
      <2>3. QED
            BY <1>2, <1>6, <2>1, <2>2 DEF IrNode
<1>8. /\ ReadsWritten' /\ EosHasNoRegister(irlist)' /\ \A t : Recent(t) => Recent(t)'
      /\ Recent(v)'
      <2>1. Sets(irn, v)
            BY <1>2, <1>6 DEF Sets, IrNode
      <2>2. QED
            BY <1>3, <1>7, <2>1, GrowOne DEF ValueInv
<1>9. registernum' - 1 = v
      BY <1>3
<1>10. Usable(v)' /\ Recent(registernum - 1)'
       BY <1>8, <1>9 DEF Usable
<1>11. /\ 2 \in 0..s.height
       /\ vals' = Append(SubSeq(vals, 1, Len(vals) - 2), v)
       BY <1>3, <1>5 DEF Drop2
<1>12. Holds(m)'
       BY <1>4, <1>5, <1>8, <1>10, <1>11, HoldsPush
<1>13. QED
       BY <1>3, <1>4, <1>5, <1>8, <1>12, LastStep

(* Both ends of a logical operator write the temporary of its value.       *)
LEMMA DoTruthValue ==
  ASSUME ValueInv, Inv', DoTruth
  PROVE  ValueInv'
<1>1. PICK v \in Int : v = registernum
      BY DEF ValueInv, Inv
<1>2. PICK a : a = LabelNode(Next1.n, Next1.first)
      OBVIOUS
<1>3. PICK b : b = LoadNode(Next1.n, v, Next1.v)
      OBVIOUS
<1>4. PICK c : c = JumpNode(Next1.n, Next1.done)
      OBVIOUS
<1>5. PICK d : d = LabelNode(Next1.n, Next1.second)
      OBVIOUS
<1>6. PICK f : f = LoadNode(Next1.n, v, 1 - Next1.v)
      OBVIOUS
<1>7. PICK g : g = LabelNode(Next1.n, Next1.done)
      OBVIOUS
<1>8. PICK irns : irns = <<a, b, c, d, f, g>>
      OBVIOUS
<1>9. /\ todo # <<>> /\ Next1.do = "truth" /\ UNCHANGED <<tree, crashed, visited>>
      /\ registernum' = v + 1
      /\ Then(<<>>) /\ vals' = Append(vals, v) /\ Append_ir_nodes(irns)
      BY <1>1, <1>2, <1>3, <1>4, <1>5, <1>6, <1>7, <1>8 DEF DoTruth, Doing
<1>10. PICK s \in States, m \in States, e \in States :
         Holds(s) /\ Does(Next1, s, m) /\ Leads(m, Tail(todo), e)
       BY <1>9, NextItem
<1>11. ~m.fresh /\ m.height = s.height + 1 /\ ~s.lost
       BY <1>9, <1>10 DEF Does, Fits, Needs, Leaves, Outside, States
<1>12. \A irn \in {a, b, c, d, f, g} : irn.opcode # "EOS" /\ \A t : ~Reader(irn, t)
       <2>1. a.opcode # "EOS" /\ \A t : ~Reader(a, t)
             BY <1>2, KnownNodes
       <2>2. b.opcode # "EOS" /\ \A t : ~Reader(b, t)
             BY <1>3, KnownNodes
       <2>3. c.opcode # "EOS" /\ \A t : ~Reader(c, t)
             BY <1>4, KnownNodes
       <2>4. d.opcode # "EOS" /\ \A t : ~Reader(d, t)
             BY <1>5, KnownNodes
       <2>5. f.opcode # "EOS" /\ \A t : ~Reader(f, t)
             BY <1>6, KnownNodes
       <2>6. g.opcode # "EOS" /\ \A t : ~Reader(g, t)
             BY <1>7, KnownNodes
       <2>7. QED
             BY <2>1, <2>2, <2>3, <2>4, <2>5, <2>6
<1>13. Good(irns)
       <2>1. irns \in Seq({a, b, c, d, f, g})
             BY <1>8
       <2>2. IsSequence(irns)
             BY <2>1, Zenon DEF IsSequence
       <2>3. \A i \in 1..Len(irns) : irns[i] \in {a, b, c, d, f, g}
             BY <1>8
       <2>4. QED
             BY <1>12, <2>2, <2>3 DEF Good
<1>14. /\ ReadsWritten' /\ EosHasNoRegister(irlist)' /\ \A t : Recent(t) => Recent(t)'
       /\ Recent(v)'
       <2>1. Sets(b, v)
             BY <1>3 DEF Sets, LoadNode, IrNode, Writing
       <2>2. 2 \in 1..Len(irns) /\ irns[2] = b
             BY <1>8
       <2>3. QED
             BY <1>9, <1>13, <2>1, <2>2, GoodGrows
<1>15. registernum' - 1 = v
       BY <1>9
<1>16. Usable(v)' /\ Recent(registernum - 1)'
       BY <1>14, <1>15 DEF Usable
<1>17. Holds(m)'
       BY <1>9, <1>10, <1>11, <1>14, <1>16, HoldsMore
<1>18. QED
       BY <1>9, <1>10, <1>11, <1>14, <1>17, LastStep

(* The value to return is read.                                            *)
LEMMA DoReturnValue ==
  ASSUME ValueInv, Inv', DoReturn
  PROVE  ValueInv'
<1>1. /\ todo # <<>> /\ Next1.do = "return" /\ UNCHANGED <<tree, crashed, visited, registernum>>
      /\ Then(<<>>) /\ vals' = Append(Drop1, NOREGISTER)
      /\ Append_ir_nodes(ReturnNodes(Next1.n, Top))
      BY DEF DoReturn, Doing, counters
<1>2. PICK s \in States, m \in States, e \in States :
        Holds(s) /\ Does(Next1, s, m) /\ Leads(m, Tail(todo), e)
      BY <1>1, NextItem
<1>3. /\ ~m.fresh /\ s.height >= 1 /\ m.height = (s.height - 1) + 1 /\ ~s.lost
      /\ m.recent => s.recent
      /\ s.height \in Nat
      BY <1>1, <1>2 DEF Does, Fits, Needs, Leaves, Outside, States
<1>4. PICK jr : jr = IrNode(Next1.n, "JR", Reg(REGISTERRA), NoOperand, NoOperand)
      OBVIOUS
<1>5. PICK op : op = IF find_ir_node(Top).operand[2].type = "IMMEDIATE" THEN "MOVE" ELSE "LIW"
      OBVIOUS
<1>6. PICK v0 : v0 = IrNode(Next1.n, op, Reg(REGISTERV0), Reg(Top), NoOperand)
      OBVIOUS
<1>7. ReturnNodes(Next1.n, Top) = IF Top < 0 THEN <<jr>> ELSE <<v0, jr>>
      <2>1. ReturnNodes(Next1.n, Top) = IF Top < 0 THEN <<jr>> ELSE <<v0>> \o <<jr>>
            BY <1>4, <1>5, <1>6 DEF ReturnNodes
      <2>2. <<v0, jr>> = <<v0>> \o <<jr>>
            BY Pair
      <2>3. QED
            BY <2>1, <2>2, Zenon
<1>8. jr.opcode # "EOS" /\ \A t : Reader(jr, t) => Usable(t)
      <2>1. \A t : Reader(jr, t) => t = REGISTERRA
            BY <1>4, ReaderOf, Operands
      <2>2. Usable(REGISTERRA)
            BY DEF Usable, Special
      <2>3. QED
            BY <1>4, <2>1, <2>2 DEF IrNode
<1>9. v0.opcode # "EOS" /\ \A t : Reader(v0, t) => Usable(t)
      <2>1. op \in Writing /\ op # "EOS"
            BY <1>5 DEF Writing
      <2>2. \A t : Reader(v0, t) => t = Top
            BY <1>6, <2>1, ReaderOf, Operands
      <2>3. Usable(Top)
            BY <1>2, <1>3, TopUsable
      <2>4. QED
            BY <1>6, <2>1, <2>2, <2>3 DEF IrNode
<1>10. Good(ReturnNodes(Next1.n, Top))
       <2>1. Good(<<jr>>) /\ Good(<<v0, jr>>)
             BY <1>8, <1>9, GoodOne, GoodTwo
       <2>2. QED
             BY <1>7, <2>1, Zenon
<1>11. ReadsWritten' /\ EosHasNoRegister(irlist)' /\ \A t : Recent(t) => Recent(t)'
       BY <1>1, <1>10, GoodGrows
<1>12. m.recent => Recent(registernum - 1)'
       BY <1>1, <1>2, <1>3, <1>11 DEF Holds
<1>13. /\ 1 \in 0..s.height /\ NOREGISTER \in Int /\ Usable(NOREGISTER)'
       /\ vals' = Append(SubSeq(vals, 1, Len(vals) - 1), NOREGISTER)
       BY <1>1, <1>3 DEF Drop1, NOREGISTER, Usable, Special
<1>14. Holds(m)'
       BY <1>2, <1>3, <1>11, <1>12, <1>13, HoldsPush
<1>15. QED
       BY <1>1, <1>2, <1>3, <1>11, <1>14, LastStep

(* The compiler stops.                                                     *)
LEMMA CrashInReturnValue ==
  ASSUME ValueInv, Inv', CrashInReturn
  PROVE  ValueInv'
<1>1. UNCHANGED <<tree, visited, irlist>> /\ crashed' /\ todo' = <<>>
      BY DEF CrashInReturn
<1>2. ReadsWritten' /\ EosHasNoRegister(irlist)'
      BY <1>1, SameList
<1>3. InOrder'
      BY <1>1, VisitNone DEF ValueInv
<1>4. QED
      BY <1>1, <1>2, <1>3 DEF ValueInv

(* An argument that loads something is pushed.                             *)
LEMMA DoParamValue ==
  ASSUME ValueInv, Inv', DoParam
  PROVE  ValueInv'
<1>1. PICK push : push = IrNode(Next1.n, "PARAM", Reg(registernum - 1), NoOperand, NoOperand)
      OBVIOUS
<1>2. /\ todo # <<>> /\ Next1.do = "param"
      /\ UNCHANGED <<tree, vals, crashed, visited, registernum>>
      /\ Then(<<>>)
      /\ Append_ir_nodes(IF IsArgument(Next1.n) THEN <<push>> ELSE <<>>)
      BY <1>1 DEF DoParam, Doing, counters
<1>3. PICK s \in States, m \in States, e \in States :
        Holds(s) /\ Does(Next1, s, m) /\ Leads(m, Tail(todo), e)
      BY <1>2, NextItem
<1>4. /\ ~m.fresh /\ m.height = s.height
      /\ s.lost => m.lost
      /\ m.recent => s.recent
      /\ IsArgument(Next1.n) => s.recent
      BY <1>2, <1>3 DEF Does, Fits, Needs, Leaves, Outside, States
<1>5. ReadsWritten' /\ EosHasNoRegister(irlist)' /\ \A t : Recent(t) => Recent(t)'
      <2>1. CASE IsArgument(Next1.n)
            <3>1. push.opcode # "EOS" /\ \A t : Reader(push, t) => Usable(t)
                  <4>1. \A t : Reader(push, t) => t = registernum - 1
                        BY <1>1, ReaderOf, Operands
                  <4>2. Usable(registernum - 1)
                        BY <1>3, <1>4, <2>1 DEF Holds, Usable
                  <4>3. QED
                        BY <1>1, <4>1, <4>2 DEF IrNode
            <3>2. QED
                  BY <1>2, <2>1, <3>1, GoodOne, GoodGrows
      <2>2. CASE ~IsArgument(Next1.n)
            <3>1. PICK S : irlist \in Seq(S)
                  BY DEF ValueInv, Inv, IsSequence
            <3>2. irlist' = irlist
                  BY <1>2, <2>2, <3>1 DEF Append_ir_nodes
            <3>3. QED
                  BY <3>2, SameList
      <2>3. QED
            BY <2>1, <2>2
<1>6. m.recent => Recent(registernum - 1)'
      BY <1>2, <1>3, <1>4, <1>5 DEF Holds
<1>7. Holds(m)'
      BY <1>2, <1>3, <1>4, <1>5, <1>6, HoldsSame
<1>8. QED
      BY <1>2, <1>3, <1>4, <1>5, <1>7, LastStep
-----------------------------------------------------------------------------
(* The whole.                                                              *)

(* The recursion starts at the root, with nothing made.                    *)
LEMMA InitValue ==
  ASSUME Init
  PROVE  ValueInv
<1>1. /\ todo = <<Build(<<>>)>> /\ vals = <<>> /\ visited = {} /\ irlist = <<>> /\ ~crashed
      BY DEF Init, Start
<1>2. Inv
      BY InitInv
<1>3. Nodes = {}
      BY <1>1 DEF Nodes
<1>4. ReadsWritten /\ EosHasNoRegister(irlist) /\ InOrder
      BY <1>1, <1>3 DEF ReadsWritten, EosHasNoRegister, InOrder, Nodes
<1>5. PICK s : s = State(0, FALSE, FALSE)
      OBVIOUS
<1>6. s \in States /\ Ground(s) /\ s.height = 0 /\ ~s.lost /\ ~s.fresh /\ ~s.recent
      BY <1>5 DEF State, States, Ground
<1>7. IsPath(tree, <<>>)
      <2>1. <<>> \in Seq({"L", "R"}) /\ Len(<<>>) = 0
            OBVIOUS
      <2>2. 0..(0 - 1) = {}
            OBVIOUS
      <2>3. QED
            BY <2>1, <2>2 DEF IsPath, IsNull, Missing, At
<1>8. Leads(s, todo, s)
      BY <1>1, <1>6, <1>7, DoesOutside, LeadsOne
<1>9. Holds(s)
      <2>1. vals \in Seq(Int) /\ Len(vals) = 0 /\ 1..0 = {}
            BY <1>1
      <2>2. QED
            BY <1>6, <2>1 DEF Holds
<1>10. QED
       BY <1>1, <1>2, <1>4, <1>6, <1>8, <1>9 DEF ValueInv, Starts

(* A step that changes nothing.                                            *)
LEMMA StutterValue ==
  ASSUME ValueInv, UNCHANGED vars
  PROVE  ValueInv'
<1>1. /\ tree' = tree /\ todo' = todo /\ vals' = vals /\ visited' = visited /\ crashed' = crashed
      /\ irlist' = irlist /\ registernum' = registernum
      BY DEF vars
<1>2. Inv'
      BY StepInv DEF ValueInv
<1>3. ReadsWritten' /\ EosHasNoRegister(irlist)'
      BY <1>1 DEF ValueInv, ReadsWritten, Nodes, IsEos, Writes
<1>4. InOrder'
      BY <1>1, VisitNone DEF ValueInv
<1>5. \A t : Recent(t)' <=> Recent(t)
      BY <1>1 DEF Recent, Nodes, Writes, IsEos
<1>6. ASSUME NEW s \in States, NEW e \in States, Holds(s), Starts(s), Leads(s, todo, e)
      PROVE  Holds(s)' /\ Starts(s)' /\ Leads(s, todo, e)'
      <2>1. Holds(s)'
            BY <1>1, <1>5, <1>6 DEF Holds, Usable
      <2>2. Starts(s)'
            BY <1>1, <1>6 DEF Starts, Next1
      <2>3. Leads(s, todo, e)'
            BY <1>1, <1>6, SameTree
      <2>4. QED
            BY <2>1, <2>2, <2>3
<1>7. QED
      BY <1>1, <1>2, <1>3, <1>4, <1>6 DEF ValueInv

(* Every step finds and leaves what its items need.                        *)
LEMMA StepValue ==
  ASSUME ValueInv, Plain(tree), [Next]_vars
  PROVE  ValueInv'
<1>1. Inv'
      BY StepInv DEF ValueInv
<1>2. CASE UNCHANGED vars
      BY <1>2, StutterValue
<1>3. CASE build_ir
      BY <1>1, <1>3, BuildNullValue, BuildNodeValue, SwitchFunctionSpecValue, SwitchIfValue,
         ElseValue, SwitchElseValue, SwitchWhileValue, SwitchForValue, DoForTestValue,
         DoEmitValue, DoDropValue, DoBranchValue DEF build_ir
<1>4. CASE generate_ir_node
      BY <1>1, <1>4, GenerateVisitedValue, GenerateReturnValue, DoReturnValue,
         CrashInReturnValue, GenerateCallValue, GenerateListValue, GenerateNumberValue,
         GenerateIdentifierValue, GenerateUnaryValue, DoIncrementValue,
         GenerateAssignmentValue, DoStoreValue, GenerateLogicalValue, DoTruthValue,
         GenerateOperatorValue, DoOperateValue, DoParamValue DEF generate_ir_node
<1>5. QED
      BY <1>2, <1>3, <1>4 DEF Next

(* The program stays what it is.                                           *)
LEMMA StepPlain ==
  ASSUME [Next]_vars
  PROVE  (Plain(tree))' <=> Plain(tree)
<1>1. tree' = tree
      BY DEF Next, vars, build_ir, generate_ir_node, BuildNull, BuildNode, SwitchFunctionSpec,
         SwitchIf, DoElseJump, SwitchElse, DoElseEnd, SwitchWhile, SwitchFor, DoForTest,
         SwitchOther, DoEmit, DoDrop, DoBranch, GenerateVisited, GenerateReturn, DoReturn,
         CrashInReturn, GenerateCall, GenerateList, GenerateNumber, GenerateIdentifier,
         GenerateUnary, DoIncrement, GenerateAssignment, DoStore, GenerateLogical, DoTruth,
         GenerateOperator, DoOperate, DoParam
<1>2. QED
      BY <1>1

(***************************************************************************)
(* In a program in plain style, a node of the list that reads a temporary  *)
(* follows a node of the same statement that writes it, whatever is called *)
(* or nested in it, and wherever the recursion took the number             *)
(* (irnode.c:637, 656).                                                    *)
(***************************************************************************)
THEOREM EachWrittenBefore == Spec => [](Plain(tree) => WrittenBeforeRead)
<1>1. Init => (Plain(tree) => ValueInv)
      BY InitValue
<1>2. (Plain(tree) => ValueInv) /\ [Next]_vars => (Plain(tree) => ValueInv)'
      BY StepValue, StepPlain
<1>3. ValueInv => WrittenBeforeRead
      <2>1. \A i, t : Reads(i, t) => Reader(irlist[i], t)
            BY DEF Reads, Reader, IsRegister, Reg
      <2>2. \A t \in Temps(irlist) : t \notin Special
            BY DEF Temps
      <2>3. QED
            BY <2>1, <2>2 DEF ValueInv, ReadsWritten, WrittenBeforeRead
<1>4. QED
      BY <1>1, <1>2, <1>3, PTL DEF Spec

(* A node of which t is an operand follows one of the same statement that  *)
(* writes t, or is that node.                                              *)
LEMMA Origin ==
  ASSUME ValueInv, NEW t, t \notin Special, NEW a \in Occurrences(irlist, t)
  PROVE  \E w \in 1..a : /\ w \in Nodes /\ Writer(irlist[w], t)
                         /\ \A e \in w..a : ~IsEos(irlist, e)
<1>1. a \in Nodes /\ a \in Nat /\ 1 <= a /\ Len(irlist) \in Nat /\ a <= Len(irlist)
      <2>1. PICK S : irlist \in Seq(S)
            BY DEF ValueInv, Inv, IsSequence
      <2>2. Len(irlist) \in Nat
            BY <2>1
      <2>3. a \in 1..Len(irlist)
            BY DEF Occurrences
      <2>4. QED
            BY <2>2, <2>3 DEF Nodes
<1>2. PICK k \in 1..3 : IsRegister(irlist[a].operand[k], t)
      BY DEF Occurrences, OccursAt, IsReg, RegAt, IsRegister
<1>3. CASE k = 1 /\ irlist[a].opcode \in Writing
      <2>1. Writer(irlist[a], t)
            BY <1>2, <1>3 DEF Writer
      <2>2. ~IsEos(irlist, a)
            BY <1>3, NotWritten DEF IsEos
      <2>3. a \in 1..a /\ \A e \in a..a : e = a
            BY <1>1
      <2>4. QED
            BY <1>1, <2>1, <2>2, <2>3
<1>4. CASE ~(k = 1 /\ irlist[a].opcode \in Writing)
      <2>1. Reader(irlist[a], t)
            BY <1>2, <1>4 DEF Reader
      <2>2. PICK w \in 1..(a - 1) : Writes(w, t) /\ \A e \in w..a : ~IsEos(irlist, e)
            BY <1>1, <2>1 DEF ValueInv, ReadsWritten
      <2>3. w \in 1..a /\ w \in 1..Len(irlist)
            BY <1>1
      <2>4. Writer(irlist[w], t)
            BY <2>2 DEF Writes, Writer, IsRegister, Reg
      <2>5. QED
            BY <2>2, <2>3, <2>4 DEF Nodes
<1>5. QED
      BY <1>3, <1>4

(***************************************************************************)
(* What register allocation assumes of the list holds of every program in  *)
(* plain style: a temporary is used in one statement only, and an end of   *)
(* statement uses none.                                                    *)
(***************************************************************************)
THEOREM EachReadyToAllocate == Spec => [](Plain(tree) => ReadyToAllocate)
<1>1. Init => (Plain(tree) => ValueInv)
      BY InitValue
<1>2. (Plain(tree) => ValueInv) /\ [Next]_vars => (Plain(tree) => ValueInv)'
      BY StepValue, StepPlain
<1>3. ASSUME ValueInv PROVE ReadyToAllocate
      <2>1. SUFFICES ASSUME NEW t \in Temps(irlist), NEW a \in Occurrences(irlist, t),
                            NEW b \in Occurrences(irlist, t), NEW e \in a..b
                     PROVE  ~IsEos(irlist, e)
            BY <1>3 DEF ReadyToAllocate, Confined, ValueInv
      <2>2. t \notin Special /\ t # REGISTERV0
            BY DEF Temps, Special
      <2>3. PICK v \in 1..a : /\ v \in Nodes /\ Writer(irlist[v], t)
                              /\ \A d \in v..a : ~IsEos(irlist, d)
            BY <1>3, <2>2, Origin
      <2>4. PICK w \in 1..b : /\ w \in Nodes /\ Writer(irlist[w], t)
                              /\ \A d \in w..b : ~IsEos(irlist, d)
            BY <1>3, <2>2, Origin
      <2>5. CASE e >= w
            <3>1. e \in w..b
                  BY <2>5
            <3>2. QED
                  BY <2>4, <3>1
      <2>6. CASE ~(e >= w)
            <3>0. PICK x, y, z, u \in Int : x = a /\ y = v /\ z = w /\ u = e
                  <4>1. PICK S : irlist \in Seq(S)
                        BY <1>3 DEF ValueInv, Inv, IsSequence
                  <4>2. Len(irlist) \in Nat /\ a \in 1..Len(irlist)
                        BY <4>1 DEF Occurrences
                  <4>3. QED
                        BY <4>2, <2>3, <2>4 DEF Nodes
            <3>1. e \in v..w /\ v # w
                  <4>1. y <= x /\ x <= u /\ ~(u >= z)
                        BY <2>1, <2>3, <2>6, <3>0
                  <4>2. u \in y..z /\ y # z
                        BY <4>1
                  <4>3. QED
                        BY <3>0, <4>2
            <3>2. Twins(irlist, v, w)
                  BY <1>3, <2>2, <2>3, <2>4, <3>1 DEF ValueInv, Inv
            <3>3. QED
                  BY <3>1, <3>2 DEF Twins
      <2>7. QED
            BY <2>5, <2>6
<1>4. QED
      BY <1>1, <1>2, <1>3, PTL DEF Spec

-----------------------------------------------------------------------------
(***************************************************************************)
(* A return of a constant is a MOVE and that of a variable a LIW, in any   *)
(* program in plain style that is as the grammar makes it.  The code does  *)
(* not look at what it returns: it asks find_ir_node for the last node     *)
(* whose first operand has the number of the value.  So the argument is    *)
(* about what the list ends with when a return comes to hand, and about    *)
(* the work left: before each return in it stands what gives it its value. *)
(***************************************************************************)
-----------------------------------------------------------------------------
(* What is returned.                                                       *)

(* A first operand is empty, names a label or a function, or is a register *)
(* that is not empty: find_ir_node finds no immediate there.               *)
FirstOperand(o) ==
  o = NoOperand \/ o.type \in {"LABEL", "POINTER"} \/ \E t \in Int : o = Reg(t)

(* A node that no return writes.                                           *)
Neutral(irn) ==
  /\ FirstOperand(irn.operand[1])
  /\ irn.opcode \in Writing => At(irn.opnode).type # "STMT"

IsReturnNode(n) ==
  IsPath(tree, n) /\ At(n).type = "STMT" /\ At(n).string_data = "return"
ReturnedBy(n)   == Right(Parent(n))

(* What an item of the work left tells of its node.                        *)
Fine(item) ==
  /\ item.do = "emit" => Neutral(item.irn)
  /\ item.do \in {"operate", "truth"} => At(item.n).type = "BINARY_OP"
  /\ item.do = "store" => At(item.n).type = "BINARY_OP" /\ At(item.n).string_data = "="
  /\ item.do = "increment" => At(item.n).type = "UNARY_OP"
  /\ item.do = "return" => IsReturnNode(item.n)

(* The items that give an expression its value, after its operands.        *)
Makers == {"store", "operate", "increment", "truth"}
Makes(item, m) == item.do \in Makers /\ item.n = m
Ends(item, m)  == item.do = "param" /\ item.n = m

(* What a return waits for: the expression that it returns, the end of it, *)
(* or the item before that which makes its value.                          *)
Waits(work, i) ==
  work[i].do = "return" =>
     \/ i = 1
     \/ i = 2 /\ work[1] = Generate(ReturnedBy(work[2].n), "L_VALUE")
     \/ /\ i >= 2 /\ Ends(work[i - 1], ReturnedBy(work[i].n))
        /\ i >= 3 => Makes(work[i - 2], ReturnedBy(work[i].n))

Waiting(work) == IsSequence(work) /\ \A i \in 1..Len(work) : Fine(work[i]) /\ Waits(work, i)

(* The value on top of vals is that of m, and what find_ir_node finds.     *)
Latest == irlist[Len(irlist)]
Loaded(m) ==
  \/ /\ At(m).type = "NUMBER"
     /\ Latest.operand[1] = Reg(Top) /\ Latest.operand[2].type = "IMMEDIATE"
  \/ /\ At(m).type = "IDENTIFIER"
     /\ Latest.operand[1] = Reg(Top) /\ Latest.operand[2].type = "POINTER"
Called(m) ==
  /\ At(m).type = "LIST" /\ Top = REGISTERV0
  /\ Latest.opcode = "FUNCTIONCALL" /\ Latest.opnode = Left(m)
Computed(m) == At(m).type \in {"UNARY_OP", "BINARY_OP"} /\ Finds(Top) # {}
Answered(m) == Top < 0 \/ (irlist # <<>> /\ (Loaded(m) \/ Called(m))) \/ Computed(m)

(* A return at hand, or that comes after the end of what it returns.       *)
Answers ==
  \A i \in 1..Len(todo) : \A m :
     /\ todo[i].do = "return" /\ m = ReturnedBy(todo[i].n)
     /\ i = 1 \/ (i = 2 /\ todo[1].do = "param")
     => Answered(m)

ToldApart(i) ==
  /\ Returned(i).type = "NUMBER"     => irlist[i].opcode = "MOVE"
  /\ Returned(i).type = "IDENTIFIER" => irlist[i].opcode = "LIW"
  /\ Returned(i).type = "LIST"       => \E j \in OnV0 : j < i

CallReturned == \E c \in Nodes : irlist[c].opcode = "FUNCTIONCALL" /\ IsReturned(irlist[c].opnode)

ListInv ==
  /\ \A i \in Nodes : FirstOperand(irlist[i].operand[1])
  /\ \A i \in ReturnValues : ToldApart(i)

ReturnInv ==
  /\ ValueInv
  /\ ListInv
  /\ Waiting(todo)
  /\ Answers
  /\ crashed => OnV0 = {} /\ CallReturned

(* The nodes that a step appends follow those that were in the list.       *)
Lengthened(irns, m) ==
  /\ m \in Nat /\ Len(irns) \in Nat /\ Len(irlist') = m + Len(irns)
  /\ \A i \in 1..m : irlist'[i] = irlist[i]
  /\ \A i \in 1..Len(irns) : irlist'[m + i] = irns[i]

(* Append_ir_nodes appends.                                                *)
LEMMA ListLengthens ==
  ASSUME Inv, NEW irns, IsSequence(irns), Append_ir_nodes(irns), NEW m, m = Len(irlist)
  PROVE  Lengthened(irns, m)
<1>1. IsSequence(irlist) /\ irlist' = irlist \o irns
      BY DEF Inv, Append_ir_nodes
<1>2. QED
      BY <1>1, Concatenation DEF Lengthened

(* The list after a step that is no return.                                *)
LEMMA ListStep ==
  ASSUME Inv, ListInv, tree' = tree, NEW irns, IsSequence(irns), Append_ir_nodes(irns),
         NEW m, m = Len(irlist),
         \A j \in 1..Len(irns) :
            Neutral(irns[j]) \/ (FirstOperand(irns[j].operand[1]) /\ ToldApart(m + j)')
  PROVE  ListInv'
<1>1. m = Len(irlist)
      OBVIOUS
<1>2. PICK k : k = Len(irns)
      OBVIOUS
<1>3. /\ m \in Nat /\ k \in Nat /\ Len(irlist') = m + k
      /\ \A i \in 1..m : irlist'[i] = irlist[i]
      /\ \A i \in 1..k : irlist'[m + i] = irns[i]
      <2>1. Lengthened(irns, m)
            BY <1>1, ListLengthens
      <2>2. QED
            BY <1>2, <2>1 DEF Lengthened
<1>4. \A i \in 1..(m + k) : i \in 1..m \/ \E j \in 1..k : i = m + j
      BY <1>3, Split
<1>5. 1..m \subseteq 1..(m + k)
      BY <1>3
<1>6. \A n : At(n)' = At(n)
      BY DEF At
<1>7. \A i \in Nodes' : FirstOperand(irlist'[i].operand[1])
      <2>1. \A i \in 1..m : FirstOperand(irlist'[i].operand[1])
            BY <1>1, <1>3 DEF ListInv, Nodes
      <2>2. \A j \in 1..k : FirstOperand(irlist'[m + j].operand[1])
            BY <1>2, <1>3 DEF Neutral
      <2>3. QED
            BY <1>3, <1>4, <2>1, <2>2 DEF Nodes
<1>8. ASSUME NEW i \in ReturnValues' PROVE i \in ReturnValues \/ ToldApart(i)'
      <2>1. /\ i \in 1..(m + k) /\ irlist'[i].opcode \in Writing
            /\ irlist'[i].operand[1] = Reg(REGISTERV0) /\ At(irlist'[i].opnode).type = "STMT"
            BY <1>3, <1>6 DEF ReturnValues, Nodes, Writes
      <2>2. CASE i \in 1..m
            BY <1>1, <1>3, <2>1, <2>2 DEF ReturnValues, Nodes, Writes
      <2>3. ASSUME NEW j \in 1..k, i = m + j PROVE ToldApart(i)'
            <3>1. ~Neutral(irns[j])
                  BY <1>3, <2>1, <2>3 DEF Neutral
            <3>2. QED
                  BY <1>2, <2>3, <3>1
      <2>4. QED
            BY <1>4, <2>1, <2>2, <2>3
<1>9. ASSUME NEW i \in ReturnValues PROVE ToldApart(i)'
      <2>1. i \in 1..m
            BY <1>1 DEF ReturnValues, Nodes
      <2>2. irlist'[i] = irlist[i] /\ Returned(i)' = Returned(i)
            BY <1>3, <1>6, <2>1 DEF Returned
      <2>3. OnV0 \subseteq OnV0'
            BY <1>1, <1>3, <1>5 DEF OnV0, Nodes
      <2>4. ToldApart(i)
            BY DEF ListInv
      <2>5. QED
            BY <2>2, <2>3, <2>4 DEF ToldApart
<1>10. QED
       BY <1>7, <1>8, <1>9 DEF ListInv

(* The list is as it was.                                                  *)
LEMMA ListSame ==
  ASSUME ListInv, UNCHANGED <<tree, irlist>>
  PROVE  ListInv'
<1>1. \A n : At(n)' = At(n)
      BY DEF At
<1>2. Nodes' = Nodes /\ OnV0' = OnV0 /\ ReturnValues' = ReturnValues
      BY <1>1 DEF Nodes, OnV0, ReturnValues, Writes
<1>3. \A i : ToldApart(i)' <=> ToldApart(i)
      BY <1>1, <1>2 DEF ToldApart, Returned
<1>4. QED
      BY <1>2, <1>3 DEF ListInv

(* The new work of a step has no return but behind what it returns.        *)
Starting(work) ==
  /\ IsSequence(work)
  /\ \A k \in 1..Len(work) :
       /\ Fine(work[k])
       /\ work[k].do = "return" =>
            k = 2 /\ work[1] = Generate(ReturnedBy(work[2].n), "L_VALUE")

(* The item at hand is about the expression m, which a return waits for,   *)
(* and its value is there when the expression comes to its end.            *)
Valuing(m) ==
  /\ Next1.do \in Makers \cup {"generate", "param"} /\ Next1.n = m
  /\ \E n : IsReturnNode(n) /\ m = ReturnedBy(n)
  /\ Next1.do = "generate" => Next1.v = "L_VALUE"
  /\ Next1.do = "param" => Answered(m)

(* Its new work: none and the value is there, or the end of the expression *)
(* and the value is there, or the end and before it what makes the value.  *)
Leaving(work, m) ==
  \/ work = <<>> /\ Answered(m)'
  \/ /\ Next1.do = "generate" /\ Len(work) = 1
     /\ Ends(work[1], m) /\ Answered(m)'
  \/ /\ Next1.do = "generate" /\ Len(work) >= 2
     /\ Ends(work[Len(work)], m) /\ Makes(work[Len(work) - 1], m)

(* The work left, position by position.                                    *)
LEMMA Shifted ==
  ASSUME IsSequence(todo), todo # <<>>, NEW new, IsSequence(new), Then(new)
  PROVE  \E k, q \in Nat :
           /\ k = Len(new) /\ Len(todo) = q + 1 /\ Len(todo') = k + q /\ IsSequence(todo')
           /\ \A i \in 1..k : todo'[i] = new[i]
           /\ \A j \in 1..q : todo'[k + j] = todo[j + 1]
           /\ Next1 = todo[1]
<1>1. PICK S : todo \in Seq(S)
      BY DEF IsSequence
<1>2. /\ Tail(todo) \in Seq(S) /\ Len(Tail(todo)) + 1 = Len(todo) /\ Len(Tail(todo)) \in Nat
      /\ \A j \in 1..Len(Tail(todo)) : Tail(todo)[j] = todo[j + 1]
      /\ Next1 = todo[1]
      BY <1>1 DEF Next1
<1>3. IsSequence(Tail(todo))
      BY <1>2 DEF IsSequence
<1>4. todo' = new \o Tail(todo)
      BY DEF Then
<1>5. \A tl : IsSequence(tl) =>
        /\ IsSequence(new \o tl) /\ Len(new) \in Nat /\ Len(new \o tl) = Len(new) + Len(tl)
        /\ \A i \in 1..Len(new) : (new \o tl)[i] = new[i]
        /\ \A j \in 1..Len(tl) : (new \o tl)[Len(new) + j] = tl[j]
      BY Concatenation
<1>6. /\ IsSequence(todo') /\ Len(new) \in Nat /\ Len(todo') = Len(new) + Len(Tail(todo))
      /\ \A i \in 1..Len(new) : todo'[i] = new[i]
      /\ \A j \in 1..Len(Tail(todo)) : todo'[Len(new) + j] = Tail(todo)[j]
      BY <1>3, <1>4, <1>5, Zenon
<1>7. QED
      BY <1>2, <1>6

(* What is said of work is said of the tree, which does not change.        *)
LEMMA SameWork ==
  ASSUME tree' = tree
  PROVE  \A item : Fine(item)' <=> Fine(item)
<1>1. \A n : At(n)' = At(n)
      BY DEF At
<1>2. \A n : IsPath(tree, n)' = IsPath(tree, n)
      BY SameTree
<1>3. \A irn : Neutral(irn)' <=> Neutral(irn)
      BY <1>1 DEF Neutral
<1>4. \A n : IsReturnNode(n)' <=> IsReturnNode(n)
      BY <1>1, <1>2 DEF IsReturnNode
<1>5. QED
      BY <1>1, <1>3, <1>4 DEF Fine

(* The argument of all steps.                                              *)
LEMMA WorkShifts ==
  ASSUME Waiting(todo), Answers, todo # <<>>, tree' = tree,
         NEW new, Starting(new), Then(new),
         \A m : Valuing(m) => Leaving(new, m)
  PROVE  Waiting(todo)' /\ Answers'
<1>1. PICK k \in Nat, q \in Nat :
           /\ k = Len(new) /\ Len(todo) = q + 1 /\ Len(todo') = k + q /\ IsSequence(todo')
           /\ \A i \in 1..k : todo'[i] = new[i]
           /\ \A j \in 1..q : todo'[k + j] = todo[j + 1]
           /\ Next1 = todo[1]
      BY Shifted DEF Waiting, Starting
<1>2. \A i \in 1..(k + q) : i \in 1..k \/ \E j \in 1..q : i = k + j
      BY <1>1, Split
<1>3. \A j \in 1..q : j + 1 \in 1..(q + 1)
      BY <1>1
<1>4. ASSUME NEW i \in 1..k
      PROVE  /\ Fine(todo'[i]) /\ Waits(todo', i)
             /\ ~(todo'[i].do = "return" /\ (i = 1 \/ todo'[1].do = "param"))
      <2>1. /\ todo'[i] = new[i] /\ Fine(new[i])
            /\ new[i].do = "return" =>
                 i = 2 /\ new[1] = Generate(ReturnedBy(new[2].n), "L_VALUE")
            BY <1>1 DEF Starting
      <2>2. i = 2 => todo'[1] = new[1] /\ todo'[2] = new[2]
            BY <1>1
      <2>3. \A n : Generate(n, "L_VALUE").do # "param"
            BY DEF Generate
      <2>4. QED
            BY <2>1, <2>2, <2>3 DEF Waits
<1>5. ASSUME NEW j \in 1..q, todo[j + 1].do = "return", NEW m, m = ReturnedBy(todo[j + 1].n)
      PROVE  /\ Waits(todo', k + j)
             /\ k + j = 1 \/ (k + j = 2 /\ todo'[1].do = "param") => Answered(m)'
      <2>1. m = ReturnedBy(todo[j + 1].n)
            BY <1>5
      <2>2. /\ IsReturnNode(todo[j + 1].n)
            /\ \/ j = 1 /\ todo[1] = Generate(m, "L_VALUE")
               \/ Ends(todo[j], m) /\ (j >= 2 => Makes(todo[j - 1], m))
            <3>1. Fine(todo[j + 1]) /\ Waits(todo, j + 1)
                  BY <1>1, <1>3 DEF Waiting
            <3>2. j + 1 # 1 /\ (j + 1) - 1 = j /\ (j + 1) - 2 = j - 1 /\ (j + 1 = 2 <=> j = 1)
                  /\ (j + 1 >= 3 <=> j >= 2)
                  OBVIOUS
            <3>3. QED
                  BY <1>5, <2>1, <3>1, <3>2 DEF Fine, Waits
      <2>3. todo'[k + j] = todo[j + 1]
            BY <1>1
      <2>4. CASE j = 1
            <3>1. Valuing(m)
                  <4>1. todo[1] = Generate(m, "L_VALUE") \/ Ends(todo[1], m)
                        BY <2>2, <2>4
                  <4>2. CASE todo[1] = Generate(m, "L_VALUE")
                        BY <1>1, <2>1, <2>2, <4>2 DEF Valuing, Generate
                  <4>3. CASE Ends(todo[1], m)
                        <5>1. Answered(m)
                              <6>1. 2 \in 1..Len(todo) /\ todo[2].do = "return" /\ todo[1].do = "param"
                                    BY <1>1, <1>3, <1>5, <2>4, <4>3 DEF Ends
                              <6>2. QED
                                    BY <2>1, <2>4, <6>1 DEF Answers
                        <5>2. QED
                              BY <1>1, <2>1, <2>2, <4>3, <5>1 DEF Valuing, Ends
                  <4>4. QED
                        BY <4>1, <4>2, <4>3
            <3>2. Leaving(new, m)
                  BY <3>1
            <3>3. CASE k = 0
                  <4>1. k + j = 1 /\ Answered(m)'
                        BY <1>1, <2>4, <3>2, <3>3 DEF Leaving
                  <4>2. QED
                        BY <2>1, <4>1 DEF Waits
            <3>4. CASE k = 1
                  <4>1. k + j = 2 /\ Answered(m)' /\ Ends(todo'[1], m)
                        <5>1. new # <<>>
                              <6>1. Len(new) = 1 /\ Len(<<>>) = 0
                                    BY <1>1, <3>4
                              <6>2. QED
                                    BY <6>1
                        <5>2. 1 \in 1..k /\ ~(1 >= 2)
                              BY <3>4
                        <5>3. QED
                              BY <1>1, <2>4, <3>2, <3>4, <5>1, <5>2 DEF Leaving
                  <4>2. QED
                        BY <2>1, <2>3, <4>1 DEF Waits
            <3>5. CASE k >= 2
                  <4>1. /\ k \in 1..k /\ k - 1 \in 1..k /\ k + j = k + 1
                        /\ (k + j) - 1 = k /\ (k + j) - 2 = k - 1 /\ k + j >= 3
                        BY <2>4, <3>5
                  <4>2. Ends(new[k], m) /\ Makes(new[k - 1], m)
                        <5>1. new # <<>> /\ k # 1
                              BY <1>1, <3>5
                        <5>2. QED
                              BY <1>1, <3>2, <5>1 DEF Leaving
                  <4>3. Ends(todo'[k], m) /\ Makes(todo'[k - 1], m)
                        BY <1>1, <4>1, <4>2
                  <4>4. QED
                        BY <2>1, <2>3, <4>1, <4>3 DEF Waits
            <3>6. QED
                  BY <1>1, <3>3, <3>4, <3>5
      <2>5. CASE j = 2
            <3>1. Ends(todo[2], m) /\ Makes(todo[1], m)
                  BY <2>2, <2>5
            <3>2. Valuing(m)
                  BY <1>1, <2>1, <2>2, <3>1 DEF Valuing, Makes, Makers
            <3>3. new = <<>> /\ Answered(m)'
                  BY <1>1, <3>1, <3>2 DEF Leaving, Makes, Makers
            <3>4. k = 0 /\ k + j = 2 /\ 1 \in 1..q /\ todo'[k + 1] = todo[1 + 1]
                  BY <1>1, <2>5, <3>3
            <3>5. Ends(todo'[1], m)
                  BY <3>1, <3>4
            <3>6. QED
                  BY <2>1, <2>3, <3>3, <3>4, <3>5 DEF Waits
      <2>6. CASE j >= 3
            <3>1. Ends(todo[j], m) /\ Makes(todo[j - 1], m)
                  BY <2>2, <2>6
            <3>2. /\ j - 1 \in 1..q /\ j - 2 \in 1..q /\ (j - 1) + 1 = j /\ (j - 2) + 1 = j - 1
                  /\ (k + j) - 1 = k + (j - 1) /\ (k + j) - 2 = k + (j - 2) /\ k + j >= 3
                  BY <2>6
            <3>3. todo'[k + (j - 1)] = todo[j] /\ todo'[k + (j - 2)] = todo[j - 1]
                  BY <1>1, <3>2
            <3>4. QED
                  BY <2>1, <2>3, <3>1, <3>2, <3>3 DEF Waits
      <2>7. QED
            BY <2>4, <2>5, <2>6
<1>6. \A j \in 1..q : Fine(todo'[k + j])
      BY <1>1, <1>3 DEF Waiting
<1>7. \A i \in 1..Len(todo') : Fine(todo'[i]) /\ Waits(todo', i)
      <2>1. \A j \in 1..q : Waits(todo', k + j)
            BY <1>1, <1>5 DEF Waits
      <2>2. QED
            BY <1>1, <1>2, <1>4, <1>6, <2>1
<1>8. Waiting(todo)'
      BY <1>1, <1>7, SameWork DEF Waiting, Waits
<1>9. Answers'
      <2>1. SUFFICES ASSUME NEW i \in 1..Len(todo'), todo'[i].do = "return",
                            i = 1 \/ (i = 2 /\ todo'[1].do = "param"),
                            NEW m, m = ReturnedBy(todo'[i].n)
                     PROVE  Answered(m)'
            BY DEF Answers
      <2>2. i \notin 1..k
            BY <1>4, <2>1
      <2>3. PICK j \in 1..q : i = k + j
            BY <1>1, <1>2, <2>1, <2>2
      <2>4. QED
            BY <1>1, <1>5, <2>1, <2>3
<1>10. QED
       BY <1>8, <1>9

(* Work without a return.                                                  *)
Routine(work) ==
  IsSequence(work) /\ \A k \in 1..Len(work) : Fine(work[k]) /\ work[k].do # "return"

(* It is work that a step may leave.                                       *)
LEMMA RoutineStarts ==
  ASSUME NEW w, Routine(w)
  PROVE  Starting(w)
BY DEF Routine, Starting

(* Such work, and more of it.                                              *)
LEMMA RoutineJoin ==
  ASSUME NEW v, Routine(v), NEW w, Routine(w)
  PROVE  Routine(v \o w)
<1>1. PICK p : p = Len(v)
      OBVIOUS
<1>2. PICK q : q = Len(w)
      OBVIOUS
<1>3. /\ IsSequence(v \o w) /\ p \in Nat /\ q \in Nat /\ Len(v \o w) = p + q
      /\ \A i \in 1..p : (v \o w)[i] = v[i]
      /\ \A i \in 1..q : (v \o w)[p + i] = w[i]
      BY <1>1, <1>2, Concatenation DEF Routine
<1>4. \A i \in 1..(p + q) : i \in 1..p \/ \E j \in 1..q : i = p + j
      BY <1>3, Split
<1>5. \A i \in 1..p : Fine((v \o w)[i]) /\ (v \o w)[i].do # "return"
      BY <1>1, <1>3 DEF Routine
<1>6. \A j \in 1..q : Fine((v \o w)[p + j]) /\ (v \o w)[p + j].do # "return"
      BY <1>2, <1>3 DEF Routine
<1>7. \A i \in 1..(p + q) : Fine((v \o w)[i]) /\ (v \o w)[i].do # "return"
      BY <1>4, <1>5, <1>6
<1>8. QED
      BY <1>3, <1>7 DEF Routine

(* No work is such work.                                                   *)
LEMMA RoutineNone == Routine(<<>>)
BY EmptySequence DEF Routine

(* And so is one item that fits its node.                                  *)
LEMMA RoutineOne ==
  ASSUME NEW a, Fine(a), a.do # "return"
  PROVE  Routine(<<a>>)
BY SequenceOne DEF Routine

(* Items that are fine whatever they are about.                            *)
Free(item) == item.do \notin {"emit", "operate", "truth", "store", "increment", "return"}

(* One of the other items fits any node.                                   *)
LEMMA RoutineFree ==
  ASSUME NEW a, Free(a)
  PROVE  Routine(<<a>>)
BY RoutineOne DEF Free, Fine

(* The items that build_ir leaves to do.                                   *)
LEMMA FreeItems ==
  ASSUME NEW n
  PROVE  /\ Free(Build(n)) /\ Free(Switch(n)) /\ Free(Drop) /\ Free(ForTest(n))
         /\ Free(ElseJump(n)) /\ Free(ElseEnd(n)) /\ Free(Param(n))
         /\ \A v : Free(Generate(n, v))
         /\ \A op, l : Free(Branch(n, op, l))
BY DEF Free, Build, Switch, Drop, ForTest, ElseJump, ElseEnd, Param, Generate, Branch

(* Nodes that write no register.                                           *)
LEMMA NeutralNode ==
  ASSUME NEW n, NEW op, op \notin Writing, NEW a, NEW b, NEW c, FirstOperand(a)
  PROVE  Neutral(IrNode(n, op, a, b, c))
BY DEF Neutral, IrNode

(* The first operands that generate_ir_node sets.                          *)
LEMMA FirstOperands ==
  /\ FirstOperand(NoOperand)
  /\ \A l : FirstOperand(Lab(l)) /\ FirstOperand(Ptr(l))
  /\ \A t \in Int : FirstOperand(Reg(t))
BY DEF FirstOperand, Lab, Ptr

(* A node that no return writes is left to append.                         *)
LEMMA RoutineEmit ==
  ASSUME NEW n, NEW l
  PROVE  /\ Neutral(LabelNode(n, l)) /\ Neutral(JumpNode(n, l)) /\ Neutral(EosNode(n))
         /\ Routine(<<Emit(LabelNode(n, l))>>) /\ Routine(<<Emit(JumpNode(n, l))>>)
         /\ Routine(<<Emit(EosNode(n))>>)
         /\ Routine(<<Emit(IrNode(n, "BGZ", Reg(REGISTERZERO), Lab(l), NoOperand))>>)
<1>1. REGISTERZERO \in Int
      BY DEF REGISTERZERO
<1>2. /\ Neutral(LabelNode(n, l)) /\ Neutral(JumpNode(n, l)) /\ Neutral(EosNode(n))
      /\ Neutral(IrNode(n, "BGZ", Reg(REGISTERZERO), Lab(l), NoOperand))
      BY <1>1, NotWritten, NeutralNode, FirstOperands DEF LabelNode, JumpNode, EosNode
<1>3. \A irn : Neutral(irn) => Fine(Emit(irn)) /\ Emit(irn).do # "return"
      BY DEF Fine, Emit
<1>4. QED
      BY <1>2, <1>3, RoutineOne

(* Lists of such nodes.                                                    *)
AllNeutral(irns) == IsSequence(irns) /\ \A j \in 1..Len(irns) : Neutral(irns[j])

(* One node.                                                               *)
LEMMA NeutralOne ==
  ASSUME NEW a, Neutral(a)
  PROVE  AllNeutral(<<a>>)
BY SequenceOne DEF AllNeutral

(* No node.                                                                *)
LEMMA NeutralNone == AllNeutral(<<>>)
BY EmptySequence DEF AllNeutral

(* Two lists of such nodes.                                                *)
LEMMA NeutralJoin ==
  ASSUME NEW v, AllNeutral(v), NEW w, AllNeutral(w)
  PROVE  AllNeutral(v \o w)
<1>1. PICK p : p = Len(v)
      OBVIOUS
<1>2. PICK q : q = Len(w)
      OBVIOUS
<1>3. /\ IsSequence(v \o w) /\ p \in Nat /\ q \in Nat /\ Len(v \o w) = p + q
      /\ \A i \in 1..p : (v \o w)[i] = v[i]
      /\ \A i \in 1..q : (v \o w)[p + i] = w[i]
      BY <1>1, <1>2, Concatenation DEF AllNeutral
<1>4. \A i \in 1..(p + q) : i \in 1..p \/ \E j \in 1..q : i = p + j
      BY <1>3, Split
<1>5. \A i \in 1..p : Neutral((v \o w)[i])
      BY <1>1, <1>3 DEF AllNeutral
<1>6. \A j \in 1..q : Neutral((v \o w)[p + j])
      BY <1>2, <1>3 DEF AllNeutral
<1>7. \A i \in 1..(p + q) : Neutral((v \o w)[i])
      BY <1>4, <1>5, <1>6
<1>8. QED
      BY <1>3, <1>7 DEF AllNeutral

(* What a step leaves of the invariant.                                    *)
LEMMA ReturnStep ==
  ASSUME ReturnInv, ValueInv', todo # <<>>, UNCHANGED <<tree, crashed>>,
         \/ UNCHANGED irlist
         \/ \E irns : AllNeutral(irns) /\ Append_ir_nodes(irns),
         NEW new, Starting(new), Then(new), \A m : Valuing(m) => Leaving(new, m)
  PROVE  ReturnInv'
<1>1. ~crashed
      BY NextItem DEF ReturnInv
<1>2. ListInv'
      <2>1. CASE UNCHANGED irlist
            BY <2>1, ListSame DEF ReturnInv
      <2>2. CASE \E irns : AllNeutral(irns) /\ Append_ir_nodes(irns)
            BY <2>2, ListStep DEF ReturnInv, ValueInv, AllNeutral
      <2>3. QED
            BY <2>1, <2>2
<1>3. Waiting(todo)' /\ Answers'
      BY WorkShifts DEF ReturnInv
<1>4. QED
      BY <1>1, <1>2, <1>3 DEF ReturnInv

(* The same of an item that gives no expression its value.                 *)
LEMMA RoutineStep ==
  ASSUME ReturnInv, ValueInv', todo # <<>>, UNCHANGED <<tree, crashed>>,
         Next1.do \notin Makers \cup {"generate", "param", "return"},
         \/ UNCHANGED irlist
         \/ \E irns : AllNeutral(irns) /\ Append_ir_nodes(irns),
         NEW new, Routine(new), Then(new)
  PROVE  ReturnInv'
<1>1. \A m : ~Valuing(m)
      BY DEF Valuing
<1>2. QED
      BY <1>1, RoutineStarts, ReturnStep

(* The item at hand.                                                       *)
LEMMA NextFine ==
  ASSUME ReturnInv, todo # <<>>
  PROVE  Fine(Next1) /\ Clean(Next1)
<1>1. PICK S : todo \in Seq(S)
      BY DEF ReturnInv, Waiting, IsSequence
<1>2. 1 \in 1..Len(todo) /\ Next1 = todo[1]
      BY <1>1 DEF Next1
<1>3. QED
      BY <1>2 DEF ReturnInv, Waiting, ValueInv, Inv, AllClean

(* Steps between statements that append nothing.                           *)
LEMMA BuildReturns ==
  ASSUME ReturnInv, ValueInv', BuildNull \/ BuildNode \/ SwitchOther \/ DoDrop \/ SwitchElse
  PROVE  ReturnInv'
<1>1. CASE BuildNull \/ SwitchOther \/ DoDrop
      <2>1. /\ todo # <<>> /\ UNCHANGED <<tree, crashed, irlist>> /\ Then(<<>>)
            /\ Next1.do \in {"build", "switch", "drop"}
            BY <1>1 DEF BuildNull, SwitchOther, DoDrop, Doing
      <2>2. QED
            BY <2>1, RoutineNone, RoutineStep DEF Makers
<1>2. CASE BuildNode
      <2>1. PICK n : n = Next1.n
            OBVIOUS
      <2>2. PICK expr : expr = IF At(n).type = "EXPR_STMT" \/ At(n).subtype = "EXPR_ITEM"
                               THEN <<Generate(Left(n), "R_VALUE"), Drop>> ELSE <<>>
            OBVIOUS
      <2>3. PICK eos : eos = IF At(n).type = "EXPR_STMT" THEN <<Emit(EosNode(n))>> ELSE <<>>
            OBVIOUS
      <2>4. /\ todo # <<>> /\ UNCHANGED <<tree, crashed, irlist>> /\ Next1.do = "build"
            /\ Then(<<Build(Left(n)), Switch(n)>> \o expr \o <<Build(Right(n))>> \o eos)
            BY <1>2, <2>1, <2>2, <2>3 DEF BuildNode, Doing
      <2>5. Routine(expr)
            <3>1. Routine(<<Generate(Left(n), "R_VALUE"), Drop>>)
                  BY Pair, FreeItems, RoutineFree, RoutineJoin
            <3>2. QED
                  BY <2>2, <3>1, RoutineNone
      <2>6. Routine(eos)
            BY <2>3, RoutineNone, RoutineEmit
      <2>7. Routine(<<Build(Left(n)), Switch(n)>>) /\ Routine(<<Build(Right(n))>>)
            BY Pair, FreeItems, RoutineFree, RoutineJoin
      <2>8. Routine(<<Build(Left(n)), Switch(n)>> \o expr)
            BY <2>5, <2>7, RoutineJoin
      <2>9. Routine(<<Build(Left(n)), Switch(n)>> \o expr \o <<Build(Right(n))>>)
            BY <2>7, <2>8, RoutineJoin
      <2>10. Routine(<<Build(Left(n)), Switch(n)>> \o expr \o <<Build(Right(n))>> \o eos)
            BY <2>6, <2>9, RoutineJoin
      <2>11. QED
            BY <2>4, <2>10, RoutineStep DEF Makers
<1>3. CASE SwitchElse
      <2>1. PICK n : n = Next1.n
            OBVIOUS
      <2>2. /\ todo # <<>> /\ UNCHANGED <<tree, crashed, irlist>> /\ Next1.do = "switch"
            /\ Then(<<Build(Left(n)), ElseEnd(n)>>)
            BY <1>3, <2>1 DEF SwitchElse, Doing
      <2>3. Routine(<<Build(Left(n)), ElseEnd(n)>>)
            BY Pair, FreeItems, RoutineFree, RoutineJoin
      <2>4. QED
            BY <2>2, <2>3, RoutineStep DEF Makers
<1>4. QED
      BY <1>1, <1>2, <1>3

(* Steps that append labels, a jump or a known node, and leave no work.    *)
LEMMA NodeReturns ==
  ASSUME ReturnInv, ValueInv',
         SwitchFunctionSpec \/ DoElseJump \/ DoElseEnd \/ DoEmit \/ DoBranch
  PROVE  ReturnInv'
<1>1. CASE SwitchFunctionSpec
      <2>1. PICK n : n = Next1.n
            OBVIOUS
      <2>2. PICK f : f = At(n).right.left.string_data
            OBVIOUS
      <2>3. PICK a : a = LabelNode(n, func_label(f))
            OBVIOUS
      <2>4. PICK b : b = IrNode(n, "FUNCTIONSTART", Ptr(f), NoOperand, NoOperand)
            OBVIOUS
      <2>5. /\ todo # <<>> /\ UNCHANGED <<tree, crashed>> /\ Next1.do = "switch" /\ Then(<<>>)
            /\ Append_ir_nodes(<<a, b>>)
            BY <1>1, <2>1, <2>2, <2>3, <2>4 DEF SwitchFunctionSpec, Doing
      <2>6. Neutral(a) /\ Neutral(b)
            BY <2>3, <2>4, RoutineEmit, NeutralNode, FirstOperands, NotWritten
      <2>7. AllNeutral(<<a, b>>)
            BY <2>6, Pair, NeutralOne, NeutralJoin
      <2>8. QED
            BY <2>5, <2>7, RoutineNone, RoutineStep DEF Makers
<1>2. CASE DoElseJump
      <2>1. PICK a : a = JumpNode(Next1.n, new_label("endelse", 0))
            OBVIOUS
      <2>2. /\ todo # <<>> /\ UNCHANGED <<tree, crashed>> /\ Next1.do = "elsejump" /\ Then(<<>>)
            /\ Append_ir_nodes(<<a>>)
            BY <1>2, <2>1 DEF DoElseJump, Doing
      <2>3. AllNeutral(<<a>>)
            BY <2>1, RoutineEmit, NeutralOne
      <2>4. QED
            BY <2>2, <2>3, RoutineNone, RoutineStep DEF Makers
<1>3. CASE DoElseEnd
      <2>1. PICK a : a = LabelNode(Next1.n, else_label[Next1.n])
            OBVIOUS
      <2>2. /\ todo # <<>> /\ UNCHANGED <<tree, crashed>> /\ Next1.do = "elseend" /\ Then(<<>>)
            /\ Append_ir_nodes(<<a>>)
            BY <1>3, <2>1 DEF DoElseEnd, Doing
      <2>3. AllNeutral(<<a>>)
            BY <2>1, RoutineEmit, NeutralOne
      <2>4. QED
            BY <2>2, <2>3, RoutineNone, RoutineStep DEF Makers
<1>4. CASE DoEmit
      <2>1. PICK a : a = Next1.irn
            OBVIOUS
      <2>2. /\ todo # <<>> /\ UNCHANGED <<tree, crashed>> /\ Next1.do = "emit" /\ Then(<<>>)
            /\ Append_ir_nodes(<<a>>)
            BY <1>4, <2>1 DEF DoEmit, Doing
      <2>3. AllNeutral(<<a>>)
            BY <2>1, <2>2, NextFine, NeutralOne DEF Fine
      <2>4. QED
            BY <2>2, <2>3, RoutineNone, RoutineStep DEF Makers
<1>5. CASE DoBranch
      <2>1. PICK a : a = IrNode(Next1.n, Next1.op, Reg(Top), Lab(Next1.label), NoOperand)
            OBVIOUS
      <2>2. /\ todo # <<>> /\ UNCHANGED <<tree, crashed>> /\ Next1.do = "branch" /\ Then(<<>>)
            /\ Append_ir_nodes(<<a>>)
            BY <1>5, <2>1 DEF DoBranch, Doing
      <2>3. Top \in Int
            <3>1. PICK s \in States, m \in States : Holds(s) /\ Does(Next1, s, m)
                  BY <2>2, NextItem DEF ReturnInv
            <3>2. s.height >= 1 /\ ~s.lost
                  BY <2>2, <3>1 DEF Does, Fits, Needs
            <3>3. QED
                  BY <3>1, <3>2, TopUsable
      <2>4. Neutral(a)
            BY <2>1, <2>2, <2>3, NextFine, NeutralNode, FirstOperands DEF Clean
      <2>5. AllNeutral(<<a>>)
            BY <2>4, NeutralOne
      <2>6. QED
            BY <2>2, <2>5, RoutineNone, RoutineStep DEF Makers
<1>6. QED
      BY <1>1, <1>2, <1>3, <1>4, <1>5

(* Three items.                                                            *)
LEMMA RoutineTest ==
  ASSUME NEW n, NEW m, NEW op, NEW l, NEW p
  PROVE  Routine(<<Generate(m, "R_VALUE"), Branch(n, op, l), Build(p)>>)
<1>1. Routine(<<Generate(m, "R_VALUE"), Branch(n, op, l)>>) /\ Routine(<<Build(p)>>)
      BY Pair, FreeItems, RoutineFree, RoutineJoin
<1>2. <<Generate(m, "R_VALUE"), Branch(n, op, l), Build(p)>>
        = <<Generate(m, "R_VALUE"), Branch(n, op, l)>> \o <<Build(p)>>
      OBVIOUS
<1>3. QED
      BY <1>1, <1>2, RoutineJoin

(* An if, and a loop.                                                      *)
LEMMA StatementReturns ==
  ASSUME ReturnInv, ValueInv', SwitchIf \/ SwitchWhile
  PROVE  ReturnInv'
<1>1. PICK n : n = Next1.n
      OBVIOUS
<1>2. CASE SwitchIf
      <2>1. PICK end : end = new_label("endif", 0)
            OBVIOUS
      <2>2. PICK els : els = IF At(Parent(n)).subtype = "IF_ELSE_STMT" THEN <<ElseJump(n)>> ELSE <<>>
            OBVIOUS
      <2>3. /\ todo # <<>> /\ UNCHANGED <<tree, crashed, irlist>> /\ Next1.do = "switch"
            /\ Then(<<Generate(Left(n), "R_VALUE"), Branch(n, "BLEZ", end), Build(Right(n))>>
                    \o els \o <<Emit(LabelNode(n, end))>>)
            BY <1>1, <1>2, <2>1, <2>2 DEF SwitchIf, Doing
      <2>4. Routine(els)
            BY <2>2, RoutineNone, FreeItems, RoutineFree
      <2>5. Routine(<<Generate(Left(n), "R_VALUE"), Branch(n, "BLEZ", end), Build(Right(n))>> \o els)
            BY <2>4, RoutineTest, RoutineJoin
      <2>6. Routine(<<Generate(Left(n), "R_VALUE"), Branch(n, "BLEZ", end), Build(Right(n))>>
                    \o els \o <<Emit(LabelNode(n, end))>>)
            BY <2>5, RoutineEmit, RoutineJoin
      <2>7. QED
            BY <2>3, <2>6, RoutineStep DEF Makers
<1>3. CASE SwitchWhile
      <2>1. PICK test : test = new_label("while_test", 0)
            OBVIOUS
      <2>2. PICK end : end = new_label("while_end", 1)
            OBVIOUS
      <2>3. PICK a, b, c, d, e : /\ a = Generate(Left(n), "R_VALUE") /\ b = Branch(n, "BLEZ", end)
                                 /\ c = Build(Right(n)) /\ d = Emit(JumpNode(n, test))
                                 /\ e = Emit(LabelNode(n, end))
            OBVIOUS
      <2>4. /\ todo # <<>> /\ UNCHANGED <<tree, crashed>> /\ Next1.do = "switch"
            /\ Then(<<a, b, c, d, e>>)
            /\ Append_ir_nodes(<<LabelNode(n, test)>>)
            BY <1>1, <1>3, <2>1, <2>2, <2>3 DEF SwitchWhile, Doing
      <2>5. Routine(<<a, b, c>>) /\ Routine(<<d>>) /\ Routine(<<e>>)
            BY <2>3, RoutineTest, RoutineEmit
      <2>6. <<a, b, c, d, e>> = <<a, b, c, d>> \o <<e>> /\ <<a, b, c, d>> = <<a, b, c>> \o <<d>>
            OBVIOUS
      <2>7. Routine(<<a, b, c, d, e>>)
            BY <2>5, <2>6, RoutineJoin, Zenon
      <2>8. AllNeutral(<<LabelNode(n, test)>>)
            BY RoutineEmit, NeutralOne
      <2>9. QED
            BY <2>4, <2>7, <2>8, RoutineStep DEF Makers
<1>4. QED
      BY <1>2, <1>3

(* A clause of a for.                                                      *)
LEMMA RoutineClause ==
  ASSUME NEW n
  PROVE  Routine(OptClause(n))
<1>1. Routine(<<Generate(Left(n), "R_VALUE"), Drop>>)
      BY Pair, FreeItems, RoutineFree, RoutineJoin
<1>2. QED
      BY <1>1, RoutineNone DEF OptClause, Clause

(* A for.                                                                  *)
LEMMA ForReturns ==
  ASSUME ReturnInv, ValueInv', SwitchFor \/ DoForTest
  PROVE  ReturnInv'
<1>1. PICK n : n = Next1.n
      OBVIOUS
<1>2. CASE SwitchFor
      <2>1. /\ todo # <<>> /\ UNCHANGED <<tree, crashed, irlist>> /\ Next1.do = "switch"
            /\ Then(OptClause(Left(n)) \o <<ForTest(n)>>)
            BY <1>1, <1>2 DEF SwitchFor, Doing
      <2>2. Routine(OptClause(Left(n)) \o <<ForTest(n)>>)
            BY RoutineClause, FreeItems, RoutineFree, RoutineJoin
      <2>3. QED
            BY <2>1, <2>2, RoutineStep DEF Makers
<1>3. CASE DoForTest
      <2>1. PICK test : test = new_label("for_test", 0)
            OBVIOUS
      <2>2. PICK end : end = new_label("for_end", 1)
            OBVIOUS
      <2>3. PICK cond : cond = Left(Right(Left(n)))
            OBVIOUS
      <2>4. PICK check : check = IF At(cond).type # "NULL_STMT"
                  THEN <<Generate(cond, "R_VALUE"), Branch(n, "BLEZ", end)>>
                  ELSE <<Emit(IrNode(n, "BGZ", Reg(REGISTERZERO), Lab(end), NoOperand))>>
            OBVIOUS
      <2>5. PICK last : last = <<Emit(JumpNode(n, test)), Emit(LabelNode(n, end))>>
            OBVIOUS
      <2>6. PICK step : step = OptClause(Right(Right(Left(n))))
            OBVIOUS
      <2>7. /\ todo # <<>> /\ UNCHANGED <<tree, crashed>> /\ Next1.do = "fortest"
            /\ Then(check \o <<Build(Right(n))>> \o step \o last)
            /\ Append_ir_nodes(<<LabelNode(n, test)>>)
            BY <1>1, <1>3, <2>1, <2>2, <2>3, <2>4, <2>5, <2>6 DEF DoForTest, Doing
      <2>8. Routine(check)
            <3>1. Routine(<<Generate(cond, "R_VALUE"), Branch(n, "BLEZ", end)>>)
                  BY Pair, FreeItems, RoutineFree, RoutineJoin
            <3>2. QED
                  BY <2>4, <3>1, RoutineEmit
      <2>9. Routine(last) /\ Routine(step) /\ Routine(<<Build(Right(n))>>)
            BY <2>5, <2>6, Pair, RoutineEmit, RoutineClause, FreeItems, RoutineFree, RoutineJoin
      <2>10. Routine(check \o <<Build(Right(n))>>)
            BY <2>8, <2>9, RoutineJoin
      <2>11. Routine(check \o <<Build(Right(n))>> \o step)
            BY <2>9, <2>10, RoutineJoin
      <2>12. Routine(check \o <<Build(Right(n))>> \o step \o last)
            BY <2>9, <2>11, RoutineJoin
      <2>13. AllNeutral(<<LabelNode(n, test)>>)
            BY RoutineEmit, NeutralOne
      <2>14. QED
            BY <2>7, <2>12, <2>13, RoutineStep DEF Makers
<1>4. QED
      BY <1>2, <1>3

(* What a return of a formed program in plain style returns has a value,   *)
(* is no return and no argument.                                           *)
LEMMA ReturnedNode ==
  ASSUME Plain(tree), WellFormed(tree), NEW n, IsReturnNode(n), NEW m, m = ReturnedBy(n)
  PROVE  /\ IsPath(tree, n) /\ ~IsNull(n) /\ n = Left(Parent(n)) /\ Parent(m) = Parent(n)
         /\ IsPath(tree, Parent(n)) /\ ~IsNull(Parent(n)) /\ At(Parent(n)).type = "EXPR_STMT"
         /\ HasValue(tree, m) /\ ~IsReturnNode(m) /\ ~IsArgument(m)
<1>1. IsPath(tree, n) /\ ~IsNull(n) /\ At(n).type = "STMT" /\ At(n).string_data = "return"
      BY NotNull DEF IsReturnNode
<1>2. FormedAt(tree, n)
      BY <1>1 DEF WellFormed, IsPath, IsNull, Missing, At
<1>3. /\ n = Left(Parent(n))
      /\ At(Parent(n)).type = "EXPR_STMT" /\ At(Parent(n)).subtype = "NONE"
      BY <1>1, <1>2 DEF FormedAt, At
<1>4. IsPath(tree, Parent(n)) /\ ~IsNull(Parent(n))
      BY <1>1, <1>3, Parents, NotNull
<1>5. Parent(m) = Parent(n) /\ m # Left(Parent(n))
      BY <1>4, Children DEF ReturnedBy
<1>6. ~IsReturnNode(m)
      <2>1. SUFFICES ASSUME IsReturnNode(m) PROVE FALSE
            OBVIOUS
      <2>2. IsPath(tree, m) /\ ~IsNull(m) /\ At(m).type = "STMT" /\ At(m).string_data = "return"
            BY <2>1, NotNull DEF IsReturnNode
      <2>3. FormedAt(tree, m)
            BY <2>2 DEF WellFormed, IsPath, IsNull, Missing, At
      <2>4. QED
            BY <1>5, <2>2, <2>3 DEF FormedAt, At
<1>7. HasValue(tree, m)
      BY <1>1, ReturnedChild DEF ReturnedBy
<1>8. ~IsArgument(m)
      BY <1>3, <1>5 DEF IsArgument
<1>9. QED
      BY <1>1, <1>3, <1>4, <1>5, <1>6, <1>7, <1>8

(* The values that were returned and not used yet are numbers.             *)
LEMMA ValuesAre ==
  ASSUME ReturnInv, todo # <<>>
  PROVE  vals \in Seq(Int) /\ registernum \in Nat
<1>1. PICK s \in States : Holds(s)
      BY NextItem DEF ReturnInv
<1>2. QED
      BY <1>1 DEF Holds, ReturnInv, ValueInv, Inv

(* A value is put on top.                                                  *)
LEMMA Pushed ==
  ASSUME NEW b, b \in Seq(Int), NEW v \in Int, vals' = Append(b, v)
  PROVE  Top' = v
<1>1. Len(Append(b, v)) = Len(b) + 1 /\ Append(b, v)[Len(b) + 1] = v
      BY AppendProperties
<1>2. QED
      BY <1>1 DEF Top

(* Values are taken off.                                                   *)
LEMMA Taken ==
  ASSUME ReturnInv, todo # <<>>, NEW k \in Nat, Needs(Next1) = k
  PROVE  SubSeq(vals, 1, Len(vals) - k) \in Seq(Int)
<1>1. PICK s \in States, m \in States : Holds(s) /\ Does(Next1, s, m)
      BY NextItem DEF ReturnInv
<1>2. s.height \in Nat /\ s.height >= k
      BY <1>1 DEF Does, Fits, States
<1>3. k \in 0..s.height
      BY <1>2
<1>4. QED
      BY <1>1, <1>3, Drops

(* A node that is appended, and the last of those.                         *)
LEMMA Appended ==
  ASSUME Inv, NEW irns, IsSequence(irns), Append_ir_nodes(irns), NEW j \in 1..Len(irns)
  PROVE  /\ irlist' # <<>>
         /\ j = Len(irns) => Latest' = irns[j]
         /\ \A t : irns[j].operand[1] = Reg(t) => Finds(t)' # {}
<1>1. PICK m : m = Len(irlist)
      OBVIOUS
<1>2. PICK k : k = Len(irns)
      OBVIOUS
<1>3. /\ m \in Nat /\ k \in Nat /\ Len(irlist') = m + k
      /\ \A i \in 1..k : irlist'[m + i] = irns[i]
      <2>1. Lengthened(irns, m)
            BY <1>1, ListLengthens
      <2>2. QED
            BY <1>2, <2>1 DEF Lengthened
<1>4. j \in 1..k /\ m + j \in 1..(m + k) /\ m + k # 0 /\ irlist'[m + j] = irns[j]
      BY <1>2, <1>3
<1>5. irlist' # <<>>
      <2>1. Len(<<>>) = 0
            OBVIOUS
      <2>2. QED
            BY <1>3, <1>4, <2>1
<1>6. ASSUME j = Len(irns) PROVE Latest' = irns[j]
      BY <1>2, <1>3, <1>4, <1>6 DEF Latest
<1>7. ASSUME NEW t, irns[j].operand[1] = Reg(t) PROVE Finds(t)' # {}
      <2>1. m + j \in Finds(t)'
            BY <1>3, <1>4, <1>7 DEF Finds, Reg, Numeric
      <2>2. QED
            BY <2>1
<1>8. QED
      BY <1>5, <1>6, <1>7

-----------------------------------------------------------------------------
(* generate_ir_node, and what is returned.                                 *)

(* An expression that is missing or was generated: nothing is returned.    *)
LEMMA GenerateVisitedReturns ==
  ASSUME ReturnInv, ValueInv', GenerateVisited
  PROVE  ReturnInv'
<1>1. /\ todo # <<>> /\ Next1.do = "generate" /\ UNCHANGED <<tree, irlist, crashed>>
      /\ Then(<<>>) /\ vals' = Append(vals, NOREGISTER)
      BY DEF GenerateVisited, Doing
<1>2. Top' = NOREGISTER
      BY <1>1, ValuesAre, Pushed DEF NOREGISTER
<1>3. \A m : Leaving(<<>>, m)
      BY <1>2 DEF Leaving, Answered, NOREGISTER
<1>4. QED
      BY <1>1, <1>3, RoutineNone, RoutineStarts, ReturnStep

(* The node of an expression that is generated.                            *)
LEMMA GeneratingIt ==
  ASSUME ReturnInv, NEW type, Generating(type), type # "NULL"
  PROVE  /\ todo # <<>> /\ Next1.do = "generate" /\ At(Next1.n).type = type
         /\ IsPath(tree, Next1.n) /\ ~IsNull(Next1.n)
         /\ vals \in Seq(Int) /\ registernum \in Nat
<1>1. todo # <<>> /\ Next1.do = "generate" /\ At(Next1.n).type = type
      BY DEF Generating, Doing
<1>2. QED
      BY <1>1, GenerateItem, NotNull, ValuesAre DEF ReturnInv

(* A return waits for what it returns; it is itself not returned.          *)
LEMMA GenerateReturnReturns ==
  ASSUME ReturnInv, ValueInv', Plain(tree), WellFormed(tree), GenerateReturn
  PROVE  ReturnInv'
<1>1. PICK n : n = Next1.n
      OBVIOUS
<1>2. PICK a, b, c : /\ a = Generate(ReturnedBy(n), "L_VALUE") /\ b = Return(n) /\ c = Param(n)
      OBVIOUS
<1>3. /\ Generating("STMT") /\ UNCHANGED <<tree, irlist, crashed>> /\ Then(<<a, b, c>>)
      /\ At(n).string_data = "return"
      BY <1>1, <1>2 DEF GenerateReturn, ReturnedBy
<1>4. todo # <<>> /\ Next1.do = "generate" /\ IsReturnNode(n)
      BY <1>1, <1>3, GeneratingIt DEF IsReturnNode
<1>5. Starting(<<a, b, c>>)
      <2>1. IsSequence(<<a, b, c>>)
            <3>1. Clean(a) /\ Clean(b) /\ Clean(c)
                  BY <1>2, CleanItems
            <3>2. QED
                  BY <3>1, CleanThree DEF AllClean
      <2>2. /\ Len(<<a, b, c>>) = 3 /\ <<a, b, c>>[1] = a /\ <<a, b, c>>[2] = b
            /\ <<a, b, c>>[3] = c
            OBVIOUS
      <2>3. \A k \in 1..3 : k = 1 \/ k = 2 \/ k = 3
            OBVIOUS
      <2>4. /\ Fine(a) /\ a.do # "return" /\ Fine(c) /\ c.do # "return"
            /\ Fine(b) /\ b.n = n
            BY <1>2, <1>4 DEF Fine, Generate, Return, Param
      <2>5. QED
            BY <1>2, <2>1, <2>2, <2>3, <2>4 DEF Starting
<1>6. \A m : ~Valuing(m)
      BY <1>1, <1>4, ReturnedNode DEF Valuing
<1>7. QED
      BY <1>3, <1>4, <1>5, <1>6, ReturnStep

(* An expression whose value is made at once.                              *)
LEMMA AtOnce ==
  ASSUME ReturnInv, ValueInv', todo # <<>>, Next1.do = "generate", UNCHANGED <<tree, crashed>>,
         NEW irns, AllNeutral(irns), Append_ir_nodes(irns) \/ UNCHANGED irlist,
         NEW n, n = Next1.n, Then(<<Param(n)>>), Valuing(n) => Answered(n)'
  PROVE  ReturnInv'
<1>1. Starting(<<Param(n)>>)
      BY FreeItems, RoutineFree, RoutineStarts
<1>2. ASSUME NEW m, Valuing(m) PROVE Leaving(<<Param(n)>>, m)
      <2>1. m = n
            BY <1>2 DEF Valuing
      <2>2. Len(<<Param(n)>>) = 1 /\ <<Param(n)>>[1] = Param(n)
            OBVIOUS
      <2>3. QED
            BY <1>2, <2>1, <2>2 DEF Leaving, Ends, Param
<1>3. QED
      BY <1>1, <1>2, ReturnStep

(* A call: its value is $v0 whatever it returns.                           *)
LEMMA GenerateCallReturns ==
  ASSUME ReturnInv, ValueInv', GenerateCall
  PROVE  ReturnInv'
<1>1. PICK n : n = Next1.n
      OBVIOUS
<1>2. PICK call : call = IrNode(Left(n), "FUNCTIONCALL", Ptr(At(n).left.string_data),
                                NoOperand, NoOperand)
      OBVIOUS
<1>3. /\ Generating("LIST") /\ UNCHANGED <<tree, crashed>>
      /\ Then(<<Param(n)>>) /\ vals' = Append(vals, REGISTERV0) /\ Append_ir_nodes(<<call>>)
      BY <1>1, <1>2 DEF GenerateCall
<1>4. todo # <<>> /\ Next1.do = "generate" /\ At(n).type = "LIST" /\ vals \in Seq(Int)
      BY <1>1, <1>3, GeneratingIt
<1>5. AllNeutral(<<call>>)
      BY <1>2, NotWritten, FirstOperands, NeutralNode, NeutralOne
<1>6. irlist' # <<>> /\ Latest' = call
      <2>1. IsSequence(<<call>>) /\ 1 \in 1..Len(<<call>>) /\ 1 = Len(<<call>>) /\ <<call>>[1] = call
            BY SequenceOne
      <2>2. QED
            BY <1>3, <2>1, Appended DEF ReturnInv, ValueInv
<1>7. Top' = REGISTERV0
      BY <1>3, <1>4, Pushed DEF REGISTERV0
<1>8. Answered(n)'
      <2>1. At(n)'.type = "LIST"
            BY <1>3, <1>4 DEF At
      <2>2. call.opcode = "FUNCTIONCALL" /\ call.opnode = Left(n)
            BY <1>2 DEF IrNode
      <2>3. Called(n)'
            BY <1>6, <1>7, <2>1, <2>2 DEF Called
      <2>4. QED
            BY <1>6, <2>3 DEF Answered
<1>9. QED
      BY <1>1, <1>3, <1>4, <1>5, <1>8, AtOnce

(* Any other list is not returned.                                         *)
LEMMA GenerateListReturns ==
  ASSUME ReturnInv, ValueInv', Plain(tree), WellFormed(tree), GenerateList
  PROVE  ReturnInv'
<1>1. PICK n : n = Next1.n
      OBVIOUS
<1>2. /\ Generating("LIST") /\ UNCHANGED <<tree, irlist, crashed>>
      /\ Then(<<Param(n)>>) /\ At(n).subtype # "FUNCTION_CALL"
      BY <1>1 DEF GenerateList
<1>3. todo # <<>> /\ Next1.do = "generate" /\ At(n).type = "LIST"
      BY <1>1, <1>2, GeneratingIt
<1>4. ~HasValue(tree, n)
      BY <1>2, <1>3 DEF HasValue, At
<1>5. ~Valuing(n)
      BY <1>4, ReturnedNode DEF Valuing
<1>6. QED
      BY <1>1, <1>2, <1>3, <1>5, NeutralNone, AtOnce

(* A constant.                                                             *)
LEMMA GenerateNumberReturns ==
  ASSUME ReturnInv, ValueInv', GenerateNumber
  PROVE  ReturnInv'
<1>1. PICK n : n = Next1.n
      OBVIOUS
<1>2. PICK li : li = LoadNode(n, registernum, At(n).const_value)
      OBVIOUS
<1>3. /\ Generating("NUMBER") /\ UNCHANGED <<tree, crashed>>
      /\ Then(<<Param(n)>>) /\ vals' = Append(vals, registernum) /\ Append_ir_nodes(<<li>>)
      BY <1>1, <1>2 DEF GenerateNumber
<1>4. /\ todo # <<>> /\ Next1.do = "generate" /\ At(n).type = "NUMBER" /\ vals \in Seq(Int)
      /\ registernum \in Nat /\ registernum \in Int
      BY <1>1, <1>3, GeneratingIt
<1>5. /\ li.opnode = n /\ li.operand[1] = Reg(registernum) /\ li.operand[2].type = "IMMEDIATE"
      BY <1>2 DEF LoadNode, IrNode, Imm
<1>6. AllNeutral(<<li>>)
      <2>1. Neutral(li)
            BY <1>4, <1>5, FirstOperands DEF Neutral
      <2>2. QED
            BY <2>1, NeutralOne
<1>7. irlist' # <<>> /\ Latest' = li
      <2>1. IsSequence(<<li>>) /\ 1 \in 1..Len(<<li>>) /\ 1 = Len(<<li>>) /\ <<li>>[1] = li
            BY SequenceOne
      <2>2. QED
            BY <1>3, <2>1, Appended DEF ReturnInv, ValueInv
<1>8. Top' = registernum
      BY <1>3, <1>4, Pushed
<1>9. Answered(n)'
      <2>1. At(n)'.type = "NUMBER"
            BY <1>3, <1>4 DEF At
      <2>2. Loaded(n)'
            BY <1>5, <1>7, <1>8, <2>1 DEF Loaded
      <2>3. QED
            BY <1>7, <2>2 DEF Answered
<1>10. QED
       BY <1>1, <1>3, <1>4, <1>6, <1>9, AtOnce

(* A variable, of which a return asks for the address.                     *)
LEMMA GenerateIdentifierReturns ==
  ASSUME ReturnInv, ValueInv', GenerateIdentifier
  PROVE  ReturnInv'
<1>1. PICK n : n = Next1.n
      OBVIOUS
<1>2. PICK r : r = registernum
      OBVIOUS
<1>3. PICK la : la = IrNode(n, "LA", Reg(r), Ptr(At(n).string_data), NoOperand)
      OBVIOUS
<1>4. PICK liw : liw = IrNode(n, "LIW", Reg(r + 1), Reg(r), NoOperand)
      OBVIOUS
<1>5. PICK made : made = IF Next1.v = "R_VALUE" THEN <<la, liw>> ELSE <<la>>
      OBVIOUS
<1>6. /\ Generating("IDENTIFIER") /\ UNCHANGED <<tree, crashed>> /\ Then(<<Param(n)>>)
      /\ vals' = Append(vals, r + Len(made) - 1) /\ Append_ir_nodes(made)
      BY <1>1, <1>2, <1>3, <1>4, <1>5 DEF GenerateIdentifier
<1>7. /\ todo # <<>> /\ Next1.do = "generate" /\ At(n).type = "IDENTIFIER" /\ vals \in Seq(Int)
      /\ r \in Nat /\ r \in Int /\ r + 1 \in Int
      BY <1>1, <1>2, <1>6, GeneratingIt
<1>8. /\ la.opnode = n /\ la.operand[1] = Reg(r) /\ la.operand[2].type = "POINTER"
      /\ liw.opnode = n /\ liw.operand[1] = Reg(r + 1)
      BY <1>3, <1>4 DEF IrNode, Ptr
<1>9. AllNeutral(made)
      <2>1. Neutral(la) /\ Neutral(liw)
            BY <1>7, <1>8, FirstOperands DEF Neutral
      <2>2. AllNeutral(<<la>>) /\ AllNeutral(<<la, liw>>)
            BY <2>1, Pair, NeutralOne, NeutralJoin
      <2>3. QED
            BY <1>5, <2>2
<1>10. ASSUME Valuing(n) PROVE Answered(n)'
       <2>1. made = <<la>>
             BY <1>5, <1>7, <1>10 DEF Valuing
       <2>2. IsSequence(<<la>>) /\ 1 \in 1..Len(<<la>>) /\ 1 = Len(<<la>>) /\ <<la>>[1] = la
             BY SequenceOne
       <2>3. irlist' # <<>> /\ Latest' = la
             BY <1>6, <2>1, <2>2, Appended DEF ReturnInv, ValueInv
       <2>4. vals' = Append(vals, r)
             BY <1>6, <1>7, <2>1, <2>2
       <2>5. Top' = r
             BY <1>7, <2>4, Pushed
       <2>6. At(n)'.type = "IDENTIFIER"
             BY <1>6, <1>7 DEF At
       <2>7. Loaded(n)'
             BY <1>8, <2>3, <2>5, <2>6 DEF Loaded
       <2>8. QED
             BY <2>3, <2>7 DEF Answered
<1>11. QED
       BY <1>1, <1>6, <1>7, <1>9, <1>10, AtOnce

(* A list and one more element, and two.                                   *)
LEMMA LastOne ==
  ASSUME NEW w, IsSequence(w), NEW v, IsSequence(v), 1 = Len(v), NEW p, p = Len(w)
  PROVE  p \in Nat /\ IsSequence(w \o v) /\ p + 1 = Len(w \o v) /\ (w \o v)[p + 1] = v[1]
         /\ \A i \in 1..p : (w \o v)[i] = w[i]
<1>1. /\ p \in Nat /\ IsSequence(w \o v) /\ Len(w \o v) = p + Len(v)
      /\ \A i \in 1..p : (w \o v)[i] = w[i]
      /\ \A i \in 1..Len(v) : (w \o v)[p + i] = v[i]
      BY Concatenation
<1>2. 1 \in 1..Len(v)
      OBVIOUS
<1>3. QED
      BY <1>1, <1>2

(* The same with two.                                                      *)
LEMMA LastTwo ==
  ASSUME NEW w, IsSequence(w), NEW a, NEW b, NEW p, p = Len(w)
  PROVE  /\ p \in Nat /\ p + 2 = Len((w \o <<a>>) \o <<b>>)
         /\ ((w \o <<a>>) \o <<b>>)[p + 1] = a /\ ((w \o <<a>>) \o <<b>>)[p + 2] = b
<1>1. PICK v : v = <<a>>
      OBVIOUS
<1>2. PICK u : u = <<b>>
      OBVIOUS
<1>3. IsSequence(v) /\ 1 = Len(v) /\ v[1] = a
      BY <1>1, SequenceOne, Zenon
<1>4. IsSequence(u) /\ 1 = Len(u) /\ u[1] = b
      BY <1>2, SequenceOne, Zenon
<1>5. PICK x : x = w \o v
      OBVIOUS
<1>6. p \in Nat /\ IsSequence(x) /\ p + 1 = Len(x) /\ x[p + 1] = a
      BY <1>3, <1>5, LastOne
<1>7. PICK q : q = Len(x)
      OBVIOUS
<1>8. q + 1 = Len(x \o u)
      BY <1>4, <1>6, <1>7, LastOne
<1>9. (x \o u)[q + 1] = b
      BY <1>4, <1>6, <1>7, LastOne
<1>10. p + 2 = Len(x \o u) /\ (x \o u)[p + 1] = a /\ (x \o u)[p + 2] = b
       <2>1. \A i \in 1..q : (x \o u)[i] = x[i]
             BY <1>4, <1>6, <1>7, LastOne
       <2>2. p + 1 = q
             BY <1>6, <1>7
       <2>3. q \in 1..q /\ q + 1 = p + 2
             BY <1>6, <2>2
       <2>4. QED
             BY <1>6, <1>8, <1>9, <2>1, <2>2, <2>3
<1>11. x \o u = (w \o <<a>>) \o <<b>>
       BY <1>1, <1>2, <1>5, Zenon
<1>12. QED
       BY <1>6, <1>10, <1>11, Zenon

(* An expression whose value is made later, of what its work leaves.       *)
LEMMA MadeLater ==
  ASSUME ReturnInv, ValueInv', todo # <<>>, Next1.do = "generate",
         UNCHANGED <<tree, crashed, irlist>>, NEW n, n = Next1.n,
         NEW w, Routine(w), NEW a, Fine(a), Makes(a, n), Then((w \o <<a>>) \o <<Param(n)>>)
  PROVE  ReturnInv'
<1>1. Routine(<<a>>)
      BY RoutineOne DEF Makes, Makers
<1>2. Routine(w \o <<a>>) /\ Routine(<<Param(n)>>)
      BY <1>1, FreeItems, RoutineFree, RoutineJoin
<1>3. PICK u : u = w \o <<a>>
      OBVIOUS
<1>4. PICK p : p = Len(w)
      OBVIOUS
<1>5. PICK new : new = u \o <<Param(n)>>
      OBVIOUS
<1>6. p \in Nat /\ p + 2 = Len(new) /\ new[p + 1] = a /\ new[p + 2] = Param(n)
      BY <1>3, <1>4, <1>5, LastTwo DEF Routine
<1>7. Then(new)
      BY <1>3, <1>5
<1>8. Starting(new)
      <2>1. Routine(u \o <<Param(n)>>)
            BY <1>2, <1>3, RoutineJoin
      <2>2. QED
            BY <1>5, <2>1, RoutineStarts
<1>9. ASSUME NEW m, Valuing(m) PROVE Leaving(new, m)
      <2>1. m = n
            BY <1>9 DEF Valuing
      <2>2. p + 2 >= 2 /\ (p + 2) - 1 = p + 1
            BY <1>6
      <2>3. QED
            BY <1>6, <2>1, <2>2 DEF Leaving, Ends, Param
<1>10. QED
       BY <1>7, <1>8, <1>9, ReturnStep

(* The operators: ++ and --, an assignment, arithmetic and comparison.     *)
LEMMA OperatorReturns ==
  ASSUME ReturnInv, ValueInv', GenerateUnary \/ GenerateAssignment \/ GenerateOperator
  PROVE  ReturnInv'
<1>1. PICK n : n = Next1.n
      OBVIOUS
<1>2. CASE GenerateUnary
      <2>1. PICK c : c = IF IsNull(Left(n)) THEN Right(n) ELSE Left(n)
            OBVIOUS
      <2>2. PICK by : by = IF At(n).string_data = "++" THEN 1 ELSE -1
            OBVIOUS
      <2>3. PICK g, a : g = Generate(c, "R_VALUE") /\ a = Increment(n, by)
            OBVIOUS
      <2>4. /\ Generating("UNARY_OP") /\ UNCHANGED <<tree, crashed, irlist>>
            /\ Then(<<g, a, Param(n)>>)
            BY <1>1, <1>2, <2>1, <2>2, <2>3 DEF GenerateUnary
      <2>5. todo # <<>> /\ Next1.do = "generate" /\ At(n).type = "UNARY_OP"
            BY <1>1, <2>4, GeneratingIt
      <2>6. Fine(a) /\ Makes(a, n)
            BY <2>3, <2>5 DEF Fine, Makes, Makers, Increment
      <2>7. Routine(<<g>>)
            BY <2>3, FreeItems, RoutineFree
      <2>8. <<g, a, Param(n)>> = <<g, a>> \o <<Param(n)>>
            OBVIOUS
      <2>9. Then((<<g>> \o <<a>>) \o <<Param(n)>>)
            BY <2>4, <2>8, Pair, Zenon
      <2>10. QED
            BY <1>1, <2>4, <2>5, <2>6, <2>7, <2>9, MadeLater
<1>3. CASE GenerateAssignment
      <2>1. PICK g, h, a : /\ g = Generate(Left(n), "L_VALUE") /\ h = Generate(Right(n), "R_VALUE")
                           /\ a = Store(n)
            OBVIOUS
      <2>2. /\ Generating("BINARY_OP") /\ UNCHANGED <<tree, crashed, irlist>>
            /\ Then(<<g, h, a, Param(n)>>) /\ At(n).string_data = "="
            BY <1>1, <1>3, <2>1 DEF GenerateAssignment
      <2>3. todo # <<>> /\ Next1.do = "generate" /\ At(n).type = "BINARY_OP"
            BY <1>1, <2>2, GeneratingIt
      <2>4. Fine(a) /\ Makes(a, n)
            BY <2>1, <2>2, <2>3 DEF Fine, Makes, Makers, Store
      <2>5. Routine(<<g, h>>)
            BY <2>1, Pair, FreeItems, RoutineFree, RoutineJoin
      <2>6. /\ <<g, h, a, Param(n)>> = <<g, h, a>> \o <<Param(n)>>
            /\ <<g, h, a>> = <<g, h>> \o <<a>>
            OBVIOUS
      <2>7. Then((<<g, h>> \o <<a>>) \o <<Param(n)>>)
            BY <2>2, <2>6, Zenon
      <2>8. QED
            BY <1>1, <2>2, <2>3, <2>4, <2>5, <2>7, MadeLater
<1>4. CASE GenerateOperator
      <2>1. PICK g, h, a : /\ g = Generate(Left(n), "R_VALUE") /\ h = Generate(Right(n), "R_VALUE")
                           /\ a = Operate(n, Opcode(At(n).string_data))
            OBVIOUS
      <2>2. /\ Generating("BINARY_OP") /\ UNCHANGED <<tree, crashed, irlist>>
            /\ Then(<<g, h, a, Param(n)>>)
            BY <1>1, <1>4, <2>1 DEF GenerateOperator
      <2>3. todo # <<>> /\ Next1.do = "generate" /\ At(n).type = "BINARY_OP"
            BY <1>1, <2>2, GeneratingIt
      <2>4. Fine(a) /\ Makes(a, n)
            BY <2>1, <2>3 DEF Fine, Makes, Makers, Operate
      <2>5. Routine(<<g, h>>)
            BY <2>1, Pair, FreeItems, RoutineFree, RoutineJoin
      <2>6. /\ <<g, h, a, Param(n)>> = <<g, h, a>> \o <<Param(n)>>
            /\ <<g, h, a>> = <<g, h>> \o <<a>>
            OBVIOUS
      <2>7. Then((<<g, h>> \o <<a>>) \o <<Param(n)>>)
            BY <2>2, <2>6, Zenon
      <2>8. QED
            BY <1>1, <2>2, <2>3, <2>4, <2>5, <2>7, MadeLater
<1>5. QED
      BY <1>2, <1>3, <1>4

(* && and ||.                                                              *)
LEMMA LogicalReturns ==
  ASSUME ReturnInv, ValueInv', GenerateLogical
  PROVE  ReturnInv'
<1>1. PICK n : n = Next1.n
      OBVIOUS
<1>2. PICK isand : isand = (At(n).string_data = "&&")
      OBVIOUS
<1>3. PICK fail : fail = new_label(IF isand THEN "and_fail" ELSE "or_fail", 0)
      OBVIOUS
<1>4. PICK pass : pass = new_label(IF isand THEN "and_pass" ELSE "or_pass", 1)
      OBVIOUS
<1>5. PICK done : done = new_label(IF isand THEN "and_done" ELSE "or_done", 2)
      OBVIOUS
<1>6. PICK g, h : g = Generate(Left(n), "R_VALUE") /\ h = Generate(Right(n), "R_VALUE")
      OBVIOUS
<1>7. PICK b : b = IF isand THEN Branch(n, "BLEZ", fail) ELSE Branch(n, "BGZ", pass)
      OBVIOUS
<1>8. PICK c : c = IF isand THEN Branch(n, "BGZ", pass) ELSE Branch(n, "BLEZ", fail)
      OBVIOUS
<1>9. PICK a : a = IF isand THEN Truth(n, fail, 0, pass, done) ELSE Truth(n, pass, 1, fail, done)
      OBVIOUS
<1>10. /\ Generating("BINARY_OP") /\ UNCHANGED <<tree, crashed, irlist>>
       /\ Then(<<g, b, h, c, a>> \o <<Param(n)>>)
       <2>1. /\ Generating("BINARY_OP") /\ UNCHANGED <<tree, crashed, irlist>>
             /\ Then((IF isand
                      THEN <<g, Branch(n, "BLEZ", fail), h, Branch(n, "BGZ", pass),
                             Truth(n, fail, 0, pass, done)>>
                      ELSE <<g, Branch(n, "BGZ", pass), h, Branch(n, "BLEZ", fail),
                             Truth(n, pass, 1, fail, done)>>) \o <<Param(n)>>)
             BY <1>1, <1>2, <1>3, <1>4, <1>5, <1>6 DEF GenerateLogical
       <2>2. <<g, b, h, c, a>>
               = IF isand
                 THEN <<g, Branch(n, "BLEZ", fail), h, Branch(n, "BGZ", pass),
                        Truth(n, fail, 0, pass, done)>>
                 ELSE <<g, Branch(n, "BGZ", pass), h, Branch(n, "BLEZ", fail),
                        Truth(n, pass, 1, fail, done)>>
             BY <1>7, <1>8, <1>9, Zenon
       <2>3. QED
             BY <2>1, <2>2, Zenon
<1>11. todo # <<>> /\ Next1.do = "generate" /\ At(n).type = "BINARY_OP"
       BY <1>1, <1>10, GeneratingIt
<1>12. Fine(a) /\ Makes(a, n)
       <2>1. \A x, v, y, z : Fine(Truth(n, x, v, y, z)) /\ Makes(Truth(n, x, v, y, z), n)
             BY <1>11 DEF Fine, Makes, Makers, Truth
       <2>2. QED
             BY <1>9, <2>1
<1>13. Routine(<<g, b, h, c>>)
       <2>1. Free(g) /\ Free(h) /\ Free(b) /\ Free(c)
             BY <1>6, <1>7, <1>8, FreeItems
       <2>2. Routine(<<g, b>>) /\ Routine(<<h>>) /\ Routine(<<c>>)
             BY <2>1, Pair, RoutineFree, RoutineJoin
       <2>3. <<g, b, h, c>> = <<g, b, h>> \o <<c>> /\ <<g, b, h>> = <<g, b>> \o <<h>>
             OBVIOUS
       <2>4. QED
             BY <2>2, <2>3, RoutineJoin, Zenon
<1>14. <<g, b, h, c, a>> = <<g, b, h, c>> \o <<a>>
       OBVIOUS
<1>15. Then((<<g, b, h, c>> \o <<a>>) \o <<Param(n)>>)
       BY <1>10, <1>14, Zenon
<1>16. QED
       BY <1>1, <1>10, <1>11, <1>12, <1>13, <1>15, MadeLater

-----------------------------------------------------------------------------
(* The values that are made.                                               *)

(* An item that makes the value of an expression, and leaves no work.      *)
LEMMA MakerStep ==
  ASSUME ReturnInv, ValueInv', todo # <<>>, Next1.do \in Makers, UNCHANGED <<tree, crashed>>,
         Then(<<>>), NEW irns, AllNeutral(irns), Append_ir_nodes(irns),
         NEW n, n = Next1.n, Valuing(n) => Answered(n)'
  PROVE  ReturnInv'
<1>1. ASSUME NEW m, Valuing(m) PROVE Leaving(<<>>, m)
      <2>1. m = n
            BY <1>1 DEF Valuing
      <2>2. QED
            BY <1>1, <2>1 DEF Leaving
<1>2. QED
      BY <1>1, RoutineNone, RoutineStarts, ReturnStep

(* What was written since the end of the last statement is still found.    *)
LEMMA FoundStill ==
  ASSUME Inv, NEW irns, IsSequence(irns), Append_ir_nodes(irns), NEW t, Recent(t)
  PROVE  Finds(t)' # {}
<1>1. PICK m : m = Len(irlist)
      OBVIOUS
<1>2. PICK k : k = Len(irns)
      OBVIOUS
<1>3. /\ m \in Nat /\ k \in Nat /\ Len(irlist') = m + k
      /\ \A i \in 1..m : irlist'[i] = irlist[i]
      <2>1. Lengthened(irns, m)
            BY <1>1, ListLengthens
      <2>2. QED
            BY <1>2, <2>1 DEF Lengthened
<1>4. PICK w \in 1..m : irlist[w].operand[1] = Reg(t)
      BY <1>1 DEF Recent, Nodes, Writes
<1>5. w \in 1..(m + k)
      BY <1>3
<1>6. w \in Finds(t)'
      BY <1>3, <1>4, <1>5 DEF Finds, Reg, Numeric
<1>7. QED
      BY <1>6

(* ++ and --: the value is the last temporary, which was written.          *)
LEMMA DoIncrementReturns ==
  ASSUME ReturnInv, ValueInv', DoIncrement
  PROVE  ReturnInv'
<1>1. PICK n : n = Next1.n
      OBVIOUS
<1>2. PICK irn : irn = IrNode(n, "ADDI", Reg(Top), Reg(Top), Imm(Next1.by))
      OBVIOUS
<1>3. PICK v : v = registernum - 1
      OBVIOUS
<1>4. /\ todo # <<>> /\ Next1.do = "increment" /\ UNCHANGED <<tree, crashed>>
      /\ Then(<<>>) /\ vals' = Append(SubSeq(vals, 1, Len(vals) - 1), v)
      /\ Append_ir_nodes(<<irn>>)
      BY <1>1, <1>2, <1>3 DEF DoIncrement, Doing, Drop1
<1>5. PICK s \in States, m \in States : Holds(s) /\ Does(Next1, s, m)
      BY <1>4, NextItem DEF ReturnInv
<1>6. s.height >= 1 /\ ~s.lost /\ s.recent
      BY <1>4, <1>5 DEF Does, Fits, Needs
<1>7. Top \in Int /\ v \in Int /\ Recent(v)
      BY <1>3, <1>4, <1>5, <1>6, TopUsable, ValuesAre DEF Holds
<1>8. AllNeutral(<<irn>>)
      BY <1>2, <1>7, NotWritten, FirstOperands, NeutralNode, NeutralOne
<1>9. Top' = v
      <2>1. Needs(Next1) = 1
            BY <1>4 DEF Needs
      <2>2. SubSeq(vals, 1, Len(vals) - 1) \in Seq(Int)
            BY <1>4, <2>1, Taken
      <2>3. QED
            BY <1>4, <1>7, <2>2, Pushed
<1>10. Finds(v)' # {}
       BY <1>4, <1>7, <1>8, FoundStill DEF AllNeutral, ReturnInv, ValueInv
<1>11. Answered(n)'
       <2>1. At(n)'.type = "UNARY_OP"
             BY <1>1, <1>4, NextFine DEF Fine, At
       <2>2. Computed(n)'
             BY <1>9, <1>10, <2>1 DEF Computed
       <2>3. QED
             BY <2>2 DEF Answered
<1>12. QED
       BY <1>1, <1>4, <1>8, <1>11, MakerStep DEF Makers

(* An assignment is not returned.                                          *)
LEMMA DoStoreReturns ==
  ASSUME ReturnInv, ValueInv', Plain(tree), WellFormed(tree), DoStore
  PROVE  ReturnInv'
<1>1. PICK n : n = Next1.n
      OBVIOUS
<1>2. PICK irn : irn = IrNode(n, "SIW", Reg(Top), Reg(Second), NoOperand)
      OBVIOUS
<1>3. /\ todo # <<>> /\ Next1.do = "store" /\ UNCHANGED <<tree, crashed>>
      /\ Then(<<>>) /\ Append_ir_nodes(<<irn>>)
      BY <1>1, <1>2 DEF DoStore, Doing
<1>4. PICK s \in States, m \in States : Holds(s) /\ Does(Next1, s, m)
      BY <1>3, NextItem DEF ReturnInv
<1>5. s.height >= 2 /\ s.height >= 1 /\ ~s.lost
      <2>1. s.height \in Nat /\ s.height >= 2 /\ ~s.lost
            BY <1>3, <1>4 DEF Does, Fits, Needs, States
      <2>2. QED
            BY <2>1
<1>6. Top \in Int
      BY <1>4, <1>5, TopUsable
<1>7. AllNeutral(<<irn>>)
      BY <1>2, <1>6, NotWritten, FirstOperands, NeutralNode, NeutralOne
<1>8. ~HasValue(tree, n)
      BY <1>1, <1>3, NextFine DEF Fine, HasValue, At
<1>9. ~Valuing(n)
      BY <1>8, ReturnedNode DEF Valuing
<1>10. QED
       BY <1>1, <1>3, <1>7, <1>9, MakerStep DEF Makers

(* Arithmetic and comparison: the value is in a new temporary.             *)
LEMMA DoOperateReturns ==
  ASSUME ReturnInv, ValueInv', DoOperate
  PROVE  ReturnInv'
<1>1. PICK n : n = Next1.n
      OBVIOUS
<1>2. PICK r : r = registernum
      OBVIOUS
<1>3. PICK irn : irn = IrNode(n, Next1.op, Reg(r), Reg(Second), Reg(Top))
      OBVIOUS
<1>4. /\ todo # <<>> /\ Next1.do = "operate" /\ UNCHANGED <<tree, crashed>>
      /\ Then(<<>>) /\ vals' = Append(SubSeq(vals, 1, Len(vals) - 2), r)
      /\ Append_ir_nodes(<<irn>>)
      BY <1>1, <1>2, <1>3 DEF DoOperate, Doing, Drop2
<1>5. r \in Nat /\ r \in Int
      BY <1>2, <1>4, ValuesAre
<1>6. irn.opnode = n /\ irn.operand[1] = Reg(r)
      BY <1>3 DEF IrNode
<1>7. At(n).type = "BINARY_OP"
      BY <1>1, <1>4, NextFine DEF Fine
<1>8. AllNeutral(<<irn>>)
      <2>1. Neutral(irn)
            BY <1>5, <1>6, <1>7, FirstOperands DEF Neutral
      <2>2. QED
            BY <2>1, NeutralOne
<1>9. Top' = r
      <2>1. Needs(Next1) = 2
            BY <1>4 DEF Needs
      <2>2. SubSeq(vals, 1, Len(vals) - 2) \in Seq(Int)
            BY <1>4, <2>1, Taken
      <2>3. QED
            BY <1>4, <1>5, <2>2, Pushed
<1>10. Finds(r)' # {}
       <2>1. IsSequence(<<irn>>) /\ 1 \in 1..Len(<<irn>>) /\ <<irn>>[1] = irn
             BY SequenceOne
       <2>2. QED
             BY <1>4, <1>6, <2>1, Appended DEF ReturnInv, ValueInv
<1>11. Answered(n)'
       <2>1. At(n)'.type = "BINARY_OP"
             BY <1>4, <1>7 DEF At
       <2>2. Computed(n)'
             BY <1>9, <1>10, <2>1 DEF Computed
       <2>3. QED
             BY <2>2 DEF Answered
<1>12. QED
       BY <1>1, <1>4, <1>8, <1>11, MakerStep DEF Makers

(* && and ||: so is theirs.                                                *)
LEMMA DoTruthReturns ==
  ASSUME ReturnInv, ValueInv', DoTruth
  PROVE  ReturnInv'
<1>1. PICK n : n = Next1.n
      OBVIOUS
<1>2. PICK r : r = registernum
      OBVIOUS
<1>3. PICK w : w = Next1.v
      OBVIOUS
<1>4. PICK a, b, c : /\ a = LabelNode(n, Next1.first) /\ b = LoadNode(n, r, w)
                     /\ c = JumpNode(n, Next1.done)
      OBVIOUS
<1>5. PICK d, e, f : /\ d = LabelNode(n, Next1.second) /\ e = LoadNode(n, r, 1 - w)
                     /\ f = LabelNode(n, Next1.done)
      OBVIOUS
<1>6. /\ todo # <<>> /\ Next1.do = "truth" /\ UNCHANGED <<tree, crashed>>
      /\ Then(<<>>) /\ vals' = Append(vals, r)
      /\ Append_ir_nodes(<<a, b, c, d, e, f>>)
      BY <1>1, <1>2, <1>3, <1>4, <1>5 DEF DoTruth, Doing
<1>7. r \in Nat /\ r \in Int /\ vals \in Seq(Int)
      BY <1>2, <1>6, ValuesAre
<1>8. At(n).type = "BINARY_OP"
      BY <1>1, <1>6, NextFine DEF Fine
<1>9. \A x : LoadNode(n, r, x).opnode = n /\ LoadNode(n, r, x).operand[1] = Reg(r)
      BY DEF LoadNode, IrNode
<1>10. Neutral(a) /\ Neutral(b) /\ Neutral(c) /\ Neutral(d) /\ Neutral(e) /\ Neutral(f)
       <2>1. \A x : Neutral(LoadNode(n, r, x))
             BY <1>7, <1>8, <1>9, FirstOperands DEF Neutral
       <2>2. QED
             BY <1>4, <1>5, <2>1, RoutineEmit
<1>11. AllNeutral(<<a, b>>) /\ AllNeutral(<<a, b, c, d, e, f>>)
       <2>1. AllNeutral(<<a, b>>)
             BY <1>10, Pair, NeutralOne, NeutralJoin
       <2>2. AllNeutral(<<c>>) /\ AllNeutral(<<d>>) /\ AllNeutral(<<e>>) /\ AllNeutral(<<f>>)
             BY <1>10, NeutralOne
       <2>3. AllNeutral(<<a, b, c>>)
             <3>1. <<a, b, c>> = <<a, b>> \o <<c>>
                   OBVIOUS
             <3>2. QED
                   BY <2>2, <2>1, <3>1, NeutralJoin, Zenon
       <2>4. AllNeutral(<<a, b, c, d>>)
             <3>1. <<a, b, c, d>> = <<a, b, c>> \o <<d>>
                   OBVIOUS
             <3>2. QED
                   BY <2>2, <2>3, <3>1, NeutralJoin, Zenon
       <2>5. AllNeutral(<<a, b, c, d, e>>)
             <3>1. <<a, b, c, d, e>> = <<a, b, c, d>> \o <<e>>
                   OBVIOUS
             <3>2. QED
                   BY <2>2, <2>4, <3>1, NeutralJoin, Zenon
       <2>6. AllNeutral(<<a, b, c, d, e, f>>)
             <3>1. <<a, b, c, d, e, f>> = <<a, b, c, d, e>> \o <<f>>
                   OBVIOUS
             <3>2. QED
                   BY <2>2, <2>5, <3>1, NeutralJoin, Zenon
       <2>7. QED
             BY <2>1, <2>6
<1>12. Top' = r
       BY <1>6, <1>7, Pushed
<1>13. Finds(r)' # {}
       <2>1. PICK irns : irns = <<a, b, c, d, e, f>>
             OBVIOUS
       <2>2. IsSequence(irns)
             BY <1>11, <2>1 DEF AllNeutral
       <2>3. 2 \in 1..Len(irns) /\ irns[2] = b
             BY <2>1
       <2>4. irns[2].operand[1] = Reg(r)
             BY <1>4, <1>9, <2>3
       <2>5. Append_ir_nodes(irns)
             BY <1>6, <2>1
       <2>6. QED
             BY <2>2, <2>3, <2>4, <2>5, Appended DEF ReturnInv, ValueInv
<1>14. Answered(n)'
       <2>1. At(n)'.type = "BINARY_OP"
             BY <1>6, <1>8 DEF At
       <2>2. Computed(n)'
             BY <1>12, <1>13, <2>1 DEF Computed
       <2>3. QED
             BY <2>2 DEF Answered
<1>15. QED
       BY <1>1, <1>6, <1>11, <1>14, MakerStep DEF Makers

(* The end of an expression: what is returned is no argument.              *)
LEMMA DoParamReturns ==
  ASSUME ReturnInv, ValueInv', Plain(tree), WellFormed(tree), DoParam
  PROVE  ReturnInv'
<1>1. PICK n : n = Next1.n
      OBVIOUS
<1>2. PICK push : push = IrNode(n, "PARAM", Reg(registernum - 1), NoOperand, NoOperand)
      OBVIOUS
<1>3. /\ todo # <<>> /\ Next1.do = "param" /\ UNCHANGED <<tree, vals, crashed>> /\ Then(<<>>)
      /\ Append_ir_nodes(IF IsArgument(n) THEN <<push>> ELSE <<>>)
      BY <1>1, <1>2 DEF DoParam, Doing
<1>4. registernum - 1 \in Int
      BY <1>3, ValuesAre
<1>5. AllNeutral(<<push>>)
      BY <1>2, <1>4, NotWritten, FirstOperands, NeutralNode, NeutralOne
<1>6. \E irns : AllNeutral(irns) /\ Append_ir_nodes(irns)
      BY <1>3, <1>5, NeutralNone
<1>7. ASSUME NEW m, Valuing(m) PROVE Leaving(<<>>, m)
      <2>1. m = n /\ Answered(m) /\ ~IsArgument(n)
            BY <1>1, <1>3, <1>7, ReturnedNode DEF Valuing
      <2>2. PICK S : irlist \in Seq(S)
            BY DEF ReturnInv, ValueInv, Inv, IsSequence
      <2>3. irlist' = irlist
            BY <1>3, <2>1, <2>2 DEF Append_ir_nodes
      <2>4. Answered(m)'
            BY <1>3, <2>1, <2>3 DEF Answered, Loaded, Called, Computed, Latest, Top, Finds, At
      <2>5. QED
            BY <2>4 DEF Leaving
<1>8. QED
      BY <1>3, <1>6, <1>7, RoutineNone, RoutineStarts, ReturnStep

-----------------------------------------------------------------------------
(* The return.                                                             *)

(* The return at hand, and the value that it waited for.                   *)
LEMMA ReturnAtHand ==
  ASSUME ReturnInv, todo # <<>>, Next1.do = "return", NEW n, n = Next1.n
  PROVE  IsReturnNode(n) /\ Answered(ReturnedBy(n))
<1>1. PICK S : todo \in Seq(S)
      BY DEF ReturnInv, Waiting, IsSequence
<1>2. 1 \in 1..Len(todo) /\ todo[1] = Next1
      BY <1>1 DEF Next1
<1>3. Answered(ReturnedBy(n))
      BY <1>2 DEF ReturnInv, Answers
<1>4. QED
      BY <1>3, NextFine DEF Fine

(* The last node of the list is the one that find_ir_node finds.           *)
LEMMA FindsLatest ==
  ASSUME Inv, irlist # <<>>, NEW t, Latest.operand[1] = Reg(t)
  PROVE  find_ir_node(t) = Latest /\ Finds(t) # {}
<1>1. PICK S : irlist \in Seq(S)
      BY DEF Inv, IsSequence
<1>2. PICK m : m = Len(irlist)
      OBVIOUS
<1>3. m \in Nat /\ m \in 1..m
      BY <1>1, <1>2
<1>4. m \in Finds(t) /\ \A j \in Finds(t) : j <= m
      <2>1. irlist[m].operand[1] = Reg(t)
            BY <1>2 DEF Latest
      <2>2. m \in Finds(t)
            BY <1>2, <1>3, <2>1 DEF Finds, Reg, Numeric
      <2>3. Finds(t) \subseteq 1..m
            BY <1>2 DEF Finds
      <2>4. QED
            BY <1>3, <2>2, <2>3
<1>5. \A i \in Finds(t) : (\A j \in Finds(t) : j <= i) => i = m
      <2>1. \A i \in Finds(t) : i \in Nat /\ i <= m
            BY <1>2, <1>3, <1>4 DEF Finds
      <2>2. QED
            BY <1>3, <1>4, <2>1
<1>6. (CHOOSE i \in Finds(t) : \A j \in Finds(t) : j <= i) = m
      BY <1>4, <1>5
<1>7. QED
      BY <1>2, <1>4, <1>6 DEF find_ir_node, Latest

(* What is found under the number of $v0 is $v0.                           *)
LEMMA FindsV0 ==
  ASSUME ListInv
  PROVE  Finds(REGISTERV0) = OnV0
<1>1. ASSUME NEW i \in Finds(REGISTERV0) PROVE i \in OnV0
      <2>1. /\ i \in Nodes /\ irlist[i].operand[1].type \in Numeric
            /\ irlist[i].operand[1].data = REGISTERV0
            BY DEF Finds, Nodes
      <2>2. FirstOperand(irlist[i].operand[1])
            BY <2>1 DEF ListInv
      <2>3. irlist[i].operand[1] # NoOperand
            BY <2>1 DEF NoOperand, REGISTERV0
      <2>4. irlist[i].operand[1].type \notin {"LABEL", "POINTER"}
            BY <2>1 DEF Numeric
      <2>5. PICK t \in Int : irlist[i].operand[1] = Reg(t)
            BY <2>2, <2>3, <2>4 DEF FirstOperand
      <2>6. t = REGISTERV0
            BY <2>1, <2>5 DEF Reg
      <2>7. QED
            BY <2>1, <2>5, <2>6 DEF OnV0
<1>2. ASSUME NEW i \in OnV0 PROVE i \in Finds(REGISTERV0)
      BY DEF OnV0, Finds, Nodes, Reg, Numeric
<1>3. QED
      BY <1>1, <1>2

(* A return writes the value to $v0, as its kind asks.                     *)
LEMMA DoReturnReturns ==
  ASSUME ReturnInv, ValueInv', DoReturn
  PROVE  ReturnInv'
<1>1. PICK n : n = Next1.n
      OBVIOUS
<1>2. PICK jr : jr = IrNode(n, "JR", Reg(REGISTERRA), NoOperand, NoOperand)
      OBVIOUS
<1>3. PICK op : op = IF find_ir_node(Top).operand[2].type = "IMMEDIATE" THEN "MOVE" ELSE "LIW"
      OBVIOUS
<1>4. PICK v0 : v0 = IrNode(n, op, Reg(REGISTERV0), Reg(Top), NoOperand)
      OBVIOUS
<1>5. PICK m : m = Len(irlist)
      OBVIOUS
<1>6. /\ todo # <<>> /\ Next1.do = "return" /\ UNCHANGED <<tree, crashed>> /\ Then(<<>>)
      /\ Append_ir_nodes(ReturnNodes(n, Top)) /\ (Top >= 0 => Finds(Top) # {})
      BY <1>1 DEF DoReturn, Doing
<1>7. IsReturnNode(n) /\ Answered(ReturnedBy(n)) /\ ~crashed
      BY <1>1, <1>6, ReturnAtHand, NextItem DEF ReturnInv
<1>8. ReturnNodes(n, Top) = IF Top < 0 THEN <<jr>> ELSE <<v0, jr>>
      <2>1. ReturnNodes(n, Top) = IF Top < 0 THEN <<jr>> ELSE <<v0>> \o <<jr>>
            BY <1>2, <1>3, <1>4 DEF ReturnNodes
      <2>2. <<v0, jr>> = <<v0>> \o <<jr>>
            BY Pair
      <2>3. QED
            BY <2>1, <2>2, Zenon
<1>9. Neutral(jr)
      <2>1. REGISTERRA \in Int
            BY DEF REGISTERRA
      <2>2. QED
            BY <1>2, <2>1, NotWritten, FirstOperands, NeutralNode
<1>10. CASE Top < 0
       <2>1. Append_ir_nodes(<<jr>>)
             BY <1>6, <1>8, <1>10
       <2>2. AllNeutral(<<jr>>)
             BY <1>9, NeutralOne
       <2>3. \A x : ~Valuing(x)
             BY <1>6 DEF Valuing, Makers
       <2>4. QED
             BY <1>6, <2>1, <2>2, <2>3, RoutineNone, RoutineStarts, ReturnStep
<1>11. CASE ~(Top < 0)
       <2>1. PICK irns : irns = <<v0, jr>>
             OBVIOUS
       <2>2. Append_ir_nodes(irns)
             BY <1>6, <1>8, <1>11, <2>1
       <2>3. IsSequence(irns) /\ Len(irns) = 2 /\ irns[1] = v0 /\ irns[2] = jr
             <3>1. IsSequence(<<v0, jr>>)
                   BY SequenceOne, Concatenation, Pair, Zenon
             <3>2. QED
                   BY <2>1, <3>1
       <2>4. /\ v0.opcode = op /\ v0.opnode = n /\ v0.operand[1] = Reg(REGISTERV0)
             /\ FirstOperand(v0.operand[1])
             <3>1. v0.opcode = op /\ v0.opnode = n /\ v0.operand[1] = Reg(REGISTERV0)
                   BY <1>4 DEF IrNode
             <3>2. REGISTERV0 \in Int
                   BY DEF REGISTERV0
             <3>3. QED
                   BY <3>1, <3>2, FirstOperands
       <2>5. /\ m \in Nat /\ Len(irlist') = m + 2 /\ irlist'[m + 1] = v0
             /\ \A i \in 1..m : irlist'[i] = irlist[i]
             <3>1. Inv
                   BY DEF ReturnInv, ValueInv
             <3>2. Lengthened(irns, m)
                   BY <1>5, <2>2, <2>3, <3>1, ListLengthens
             <3>3. 2 = Len(irns) /\ 1 \in 1..2
                   BY <2>3
             <3>4. QED
                   BY <2>3, <3>2, <3>3 DEF Lengthened
       <2>6. PICK c : c = At(ReturnedBy(n))
             OBVIOUS
       <2>7. c = Returned(m + 1)'
             BY <1>6, <2>4, <2>5, <2>6 DEF Returned, ReturnedBy, At
       <2>8. Inv /\ ListInv
             BY DEF ReturnInv, ValueInv
       <2>9. ToldApart(m + 1)'
             <3>1. ASSUME c.type = "NUMBER" PROVE op = "MOVE"
                   <4>1. irlist # <<>> /\ Loaded(ReturnedBy(n))
                         BY <1>7, <1>11, <2>6, <3>1 DEF Answered, Called, Computed
                   <4>2. Latest.operand[1] = Reg(Top) /\ Latest.operand[2].type = "IMMEDIATE"
                         BY <2>6, <3>1, <4>1 DEF Loaded
                   <4>3. QED
                         BY <1>3, <2>8, <4>1, <4>2, FindsLatest
             <3>2. ASSUME c.type = "IDENTIFIER" PROVE op = "LIW"
                   <4>1. irlist # <<>> /\ Loaded(ReturnedBy(n))
                         BY <1>7, <1>11, <2>6, <3>2 DEF Answered, Called, Computed
                   <4>2. Latest.operand[1] = Reg(Top) /\ Latest.operand[2].type = "POINTER"
                         BY <2>6, <3>2, <4>1 DEF Loaded
                   <4>3. QED
                         BY <1>3, <2>8, <4>1, <4>2, FindsLatest
             <3>3. ASSUME c.type = "LIST" PROVE \E j \in OnV0' : j < m + 1
                   <4>1. Top = REGISTERV0
                         BY <1>7, <1>11, <2>6, <3>3 DEF Answered, Called, Computed, Loaded
                   <4>2. Finds(REGISTERV0) # {}
                         BY <1>6, <4>1 DEF REGISTERV0
                   <4>3. PICK j : j \in OnV0
                         BY <2>8, <4>2, FindsV0
                   <4>4. j \in 1..m /\ irlist[j].operand[1] = Reg(REGISTERV0)
                         BY <1>5, <4>3 DEF OnV0, Nodes
                   <4>5. j \in 1..(m + 2) /\ j < m + 1 /\ irlist'[j] = irlist[j]
                         BY <2>5, <4>4
                   <4>6. j \in OnV0'
                         BY <2>5, <4>4, <4>5 DEF OnV0, Nodes
                   <4>7. QED
                         BY <4>5, <4>6
             <3>4. irlist'[m + 1].opcode = op
                   BY <2>4, <2>5
             <3>5. QED
                   BY <2>7, <3>1, <3>2, <3>3, <3>4 DEF ToldApart
       <2>10. ListInv'
              <3>1. \A j \in 1..2 : j = 1 \/ j = 2
                    OBVIOUS
              <3>2. \A j \in 1..Len(irns) :
                      \/ Neutral(irns[j])
                      \/ FirstOperand(irns[j].operand[1]) /\ ToldApart(m + j)'
                    BY <1>9, <2>3, <2>4, <2>9, <3>1
              <3>3. QED
                    BY <1>5, <1>6, <2>2, <2>3, <2>8, <3>2, ListStep
       <2>11. Waiting(todo)' /\ Answers'
              <3>1. \A x : ~Valuing(x)
                    BY <1>6 DEF Valuing, Makers
              <3>2. QED
                    BY <1>6, <3>1, RoutineNone, RoutineStarts, WorkShifts DEF ReturnInv
       <2>12. QED
              BY <1>6, <1>7, <2>10, <2>11 DEF ReturnInv
<1>12. QED
       BY <1>10, <1>11

(* A call that is returned is found below the statement that returns it.   *)
LEMMA CallInReturn ==
  ASSUME Plain(tree), WellFormed(tree), NEW n, IsReturnNode(n)
  PROVE  IsReturned(Left(ReturnedBy(n)))
<1>1. PICK p : p = Parent(n)
      OBVIOUS
<1>2. /\ IsPath(tree, p) /\ At(p).type = "EXPR_STMT" /\ n = Left(p)
      BY <1>1, ReturnedNode
<1>3. p \in Seq(Steps) /\ "L" \in Steps /\ "R" \in Steps /\ Len(p) \in Nat
      BY <1>2 DEF IsPath, Steps
<1>4. PICK m : m = Append(p, "R")
      OBVIOUS
<1>5. /\ m \in Seq(Steps) /\ Len(m) = Len(p) + 1
      /\ \A k \in 0..Len(p) : SubSeq(m, 1, k) = SubSeq(p, 1, k)
      /\ SubSeq(p, 1, Len(p)) = p
      BY <1>3, <1>4, ChildPath
<1>6. PICK l : l = Append(m, "L")
      OBVIOUS
<1>7. /\ Len(l) = Len(m) + 1
      /\ \A k \in 0..Len(m) : SubSeq(l, 1, k) = SubSeq(m, 1, k)
      BY <1>3, <1>5, <1>6, ChildPath
<1>8. /\ Len(p) \in 0..Len(p) /\ Len(p) \in 0..Len(m) /\ Len(p) \in 0..(Len(l) - 1)
      BY <1>3, <1>5, <1>7
<1>9. SubSeq(l, 1, Len(p)) = p
      BY <1>5, <1>7, <1>8
<1>10. At(Left(p)).string_data = "return"
       BY <1>2 DEF IsReturnNode
<1>11. l = Left(ReturnedBy(n))
       BY <1>1, <1>4, <1>6 DEF Left, Right, ReturnedBy
<1>12. IsReturned(l)
       BY <1>2, <1>8, <1>9, <1>10 DEF IsReturned
<1>13. QED
       BY <1>11, <1>12

(* The compiler stops at a call only, when $v0 was not used before.        *)
LEMMA CrashInReturnReturns ==
  ASSUME ReturnInv, ValueInv', Plain(tree), WellFormed(tree), CrashInReturn
  PROVE  ReturnInv'
<1>1. PICK n : n = Next1.n
      OBVIOUS
<1>2. PICK c : c = ReturnedBy(n)
      OBVIOUS
<1>3. /\ todo # <<>> /\ Next1.do = "return" /\ UNCHANGED <<tree, irlist>> /\ todo' = <<>>
      /\ Top >= 0 /\ Finds(Top) = {}
      BY DEF CrashInReturn, Doing
<1>4. IsReturnNode(n) /\ Answered(c)
      BY <1>1, <1>2, <1>3, ReturnAtHand
<1>5. Inv /\ ListInv
      BY DEF ReturnInv, ValueInv
<1>6. Top \in Int
      <2>1. PICK s \in States, e \in States : Holds(s) /\ Does(Next1, s, e)
            BY <1>3, NextItem DEF ReturnInv
      <2>2. s.height >= 1 /\ ~s.lost
            BY <1>3, <2>1 DEF Does, Fits, Needs
      <2>3. QED
            BY <2>1, <2>2, TopUsable
<1>7. irlist # <<>> /\ Called(c)
      <2>1. ~(Top < 0)
            BY <1>3, <1>6
      <2>2. irlist # <<>> => ~Loaded(c)
            BY <1>3, <1>5, FindsLatest DEF Loaded
      <2>3. ~Computed(c)
            BY <1>3 DEF Computed
      <2>4. QED
            BY <1>4, <2>1, <2>2, <2>3 DEF Answered
<1>8. OnV0 = {}
      BY <1>3, <1>5, <1>7, FindsV0 DEF Called
<1>9. CallReturned
      <2>1. Len(irlist) \in Nodes
            <3>1. PICK S : irlist \in Seq(S)
                  BY <1>5 DEF Inv, IsSequence
            <3>2. QED
                  BY <1>7, <3>1 DEF Nodes
      <2>2. IsReturned(irlist[Len(irlist)].opnode)
            BY <1>2, <1>4, <1>7, CallInReturn DEF Called, Latest
      <2>3. QED
            BY <1>7, <2>1, <2>2 DEF CallReturned, Called, Latest
<1>10. OnV0' = {} /\ CallReturned'
       BY <1>3, <1>8, <1>9 DEF OnV0, CallReturned, IsReturned, Nodes, At
<1>11. ListInv'
       BY <1>3, <1>5, ListSame
<1>12. Waiting(todo)' /\ Answers'
       <2>1. Len(todo') = 0 /\ 1..0 = {} /\ IsSequence(<<>>)
             BY <1>3, EmptySequence
       <2>2. QED
             BY <1>3, <2>1 DEF Waiting, Answers
<1>13. QED
       BY <1>10, <1>11, <1>12 DEF ReturnInv

-----------------------------------------------------------------------------
(* The whole.                                                              *)

(* At first the list is empty and the tree is to be built.                 *)
LEMMA InitReturns ==
  ASSUME Init
  PROVE  ReturnInv
<1>1. todo = <<Build(<<>>)>> /\ irlist = <<>> /\ ~crashed
      BY DEF Init, Start
<1>2. Routine(todo)
      BY <1>1, FreeItems, RoutineFree
<1>3. Waiting(todo) /\ Answers
      BY <1>2 DEF Routine, Waiting, Waits, Answers
<1>4. Nodes = {}
      BY <1>1 DEF Nodes
<1>5. ListInv
      BY <1>4 DEF ListInv, ReturnValues
<1>6. QED
      BY <1>1, <1>3, <1>5, InitValue DEF ReturnInv

(* Nothing changes.                                                        *)
LEMMA StutterReturns ==
  ASSUME ReturnInv, UNCHANGED vars
  PROVE  ReturnInv'
<1>1. /\ tree' = tree /\ todo' = todo /\ vals' = vals /\ crashed' = crashed /\ irlist' = irlist
      BY DEF vars
<1>2. ValueInv' /\ ListInv'
      BY <1>1, StutterValue, ListSame DEF ReturnInv
<1>3. Waiting(todo)'
      BY <1>1, SameWork DEF ReturnInv, Waiting, Waits
<1>4. \A m : Answered(m)' <=> Answered(m)
      BY <1>1 DEF Answered, Loaded, Called, Computed, Latest, Top, Finds, At
<1>5. Answers'
      BY <1>1, <1>4 DEF ReturnInv, Answers
<1>6. OnV0' = OnV0 /\ (CallReturned' <=> CallReturned)
      BY <1>1 DEF OnV0, CallReturned, IsReturned, Nodes, At
<1>7. QED
      BY <1>1, <1>2, <1>3, <1>5, <1>6 DEF ReturnInv

(* Every step keeps it.                                                    *)
LEMMA StepReturns ==
  ASSUME ReturnInv, Plain(tree), WellFormed(tree), [Next]_vars
  PROVE  ReturnInv'
<1>1. ValueInv'
      BY StepValue DEF ReturnInv
<1>2. CASE UNCHANGED vars
      BY <1>2, StutterReturns
<1>3. CASE build_ir
      BY <1>1, <1>3, BuildReturns, NodeReturns, StatementReturns, ForReturns DEF build_ir
<1>4. CASE generate_ir_node
      BY <1>1, <1>4, GenerateVisitedReturns, GenerateReturnReturns, DoReturnReturns,
         CrashInReturnReturns, GenerateCallReturns, GenerateListReturns, GenerateNumberReturns,
         GenerateIdentifierReturns, OperatorReturns, LogicalReturns, DoIncrementReturns,
         DoStoreReturns, DoTruthReturns, DoOperateReturns, DoParamReturns DEF generate_ir_node
<1>5. QED
      BY <1>2, <1>3, <1>4 DEF Next

(* The program stays what it is.                                           *)
LEMMA StepFormed ==
  ASSUME [Next]_vars
  PROVE  (Plain(tree) /\ WellFormed(tree))' <=> Plain(tree) /\ WellFormed(tree)
<1>1. tree' = tree
      BY DEF Next, vars, build_ir, generate_ir_node, BuildNull, BuildNode, SwitchFunctionSpec,
         SwitchIf, DoElseJump, SwitchElse, DoElseEnd, SwitchWhile, SwitchFor, DoForTest,
         SwitchOther, DoEmit, DoDrop, DoBranch, GenerateVisited, GenerateReturn, DoReturn,
         CrashInReturn, GenerateCall, GenerateList, GenerateNumber, GenerateIdentifier,
         GenerateUnary, DoIncrement, GenerateAssignment, DoStore, GenerateLogical, DoTruth,
         GenerateOperator, DoOperate, DoParam
<1>2. QED
      BY <1>1

(***************************************************************************)
(* In a program in plain style that is as the grammar makes programs, a    *)
(* constant is returned as itself and a variable from its address, though  *)
(* find_ir_node tells them apart by the last node whose first operand has  *)
(* the number; and the compiler reads NULL at the first return of a call   *)
(* only, before $v0 is any node's first operand.                           *)
(***************************************************************************)
THEOREM EachReturnToldApart == Spec => [](Plain(tree) /\ WellFormed(tree) => ReturnsTellApart)
<1>1. Init => (Plain(tree) /\ WellFormed(tree) => ReturnInv)
      BY InitReturns
<1>2. (Plain(tree) /\ WellFormed(tree) => ReturnInv) /\ [Next]_vars
        => (Plain(tree) /\ WellFormed(tree) => ReturnInv)'
      BY StepReturns, StepFormed
<1>3. ReturnInv => ReturnsTellApart
      BY DEF ReturnInv, ListInv, ToldApart, CallReturned, ReturnsTellApart
<1>4. QED
      BY <1>1, <1>2, <1>3, PTL DEF Spec
=============================================================================
