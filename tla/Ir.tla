--------------------------------- MODULE Ir ---------------------------------
(***************************************************************************)
(* The intermediate representation of the compiler (irnode.h): the list    *)
(* of ir_node structs that build_ir writes and that map_registers and      *)
(* ir2mips read.  A list is a sequence, irptr->next the next index.  A     *)
(* node keeps the syntax-tree node it was made from, its opcode and three  *)
(* operands; the printed comment is left out.                              *)
(***************************************************************************)
EXTENDS Integers, Sequences

(***************************************************************************)
(* The temporary numbers that do not stand for a temporary: the registers  *)
(* of irnode.h, and the -1 that generate_ir_node returns for an expression *)
(* it did not generate.                                                    *)
(***************************************************************************)
REGISTERZERO == 65535
REGISTERV0   == 65534
REGISTERRA   == 65533
NOREGISTER   == -1

Special == {REGISTERZERO, REGISTERV0, REGISTERRA, NOREGISTER}

(* set_operand: an operand is a tagged union.                              *)
NoOperand == [type |-> "NULL", data |-> 0]
Reg(t)    == [type |-> "REGISTER", data |-> t]
Lab(l)    == [type |-> "LABEL", data |-> l]
Imm(i)    == [type |-> "IMMEDIATE", data |-> i]
Ptr(s)    == [type |-> "POINTER", data |-> s]

(* The names of machine registers.  Junk is whatever setmapping's strbuf    *)
(* holds when nothing was written to it: it is not initialised, and what   *)
(* an earlier call left there may even be the name of some register.       *)
T(j) == <<"t", j>>
Zero == <<"0", 0>>
V0   == <<"v", 0>>
RA   == <<"ra", 0>>
Junk == <<"junk", 0>>

(* new_irnode followed by the set_operand calls made on it.                *)
IrNode(n, op, o1, o2, o3) ==
  [opnode |-> n, opcode |-> op, operand |-> <<o1, o2, o3>>]

(***************************************************************************)
(* Facts about a list ir that both its writer and its readers need.        *)
(***************************************************************************)
IsReg(ir, i, k) == ir[i].operand[k].type = "REGISTER"
RegAt(ir, i, k) == ir[i].operand[k].data
IsEos(ir, i)    == ir[i].opcode = "EOS"

(* The nodes of which t is an operand.                                     *)
OccursAt(ir, t, i)  == \E k \in 1..3 : IsReg(ir, i, k) /\ RegAt(ir, i, k) = t
Occurrences(ir, t)  == {i \in 1..Len(ir) : OccursAt(ir, t, i)}

(* The temporaries of a list: its register operands but the special ones.  *)
Temps(ir) ==
  (UNION {{RegAt(ir, i, k) : k \in {m \in 1..3 : IsReg(ir, i, m)}} : i \in 1..Len(ir)})
     \ Special

(***************************************************************************)
(* The live ranges of t and u, each from its first to its last occurrence, *)
(* have a node in common.                                                  *)
(***************************************************************************)
Overlap(ir, t, u) ==
  \E a, b \in Occurrences(ir, t), c, d \in Occurrences(ir, u) : a <= d /\ c <= b

(***************************************************************************)
(* No temporary is used on both sides of an end of statement.              *)
(***************************************************************************)
Confined(ir) ==
  \A t \in Temps(ir) : \A a, b \in Occurrences(ir, t) :
     \A e \in a..b : ~IsEos(ir, e)

(* An end of statement has no operand.                                     *)
EosHasNoRegister(ir) ==
  \A i \in 1..Len(ir) : IsEos(ir, i) => \A k \in 1..3 : ~IsReg(ir, i, k)
=============================================================================
