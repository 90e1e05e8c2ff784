----------------------------- MODULE MCRegAlloc -----------------------------
(***************************************************************************)
(* Register allocation with few registers, on the well-formed lists of     *)
(* MaxLen nodes taken from a pool of node shapes that build_ir emits.  A   *)
(* shorter list is one that ends in ends of statement.                     *)
(***************************************************************************)
EXTENDS RegAlloc

CONSTANTS MaxLen

Node(op, o1, o2, o3) == IrNode(0, op, o1, o2, o3)

Pool ==
  {Node("LI", Reg(t), Imm(1), NoOperand) : t \in 0..2}
  \cup {Node("LIW", Reg(t + 1), Reg(t), NoOperand) : t \in 0..1}
  \cup {Node("ADD", Reg(3), Reg(t), Reg(u)) : t \in 0..1, u \in {2, REGISTERV0}}
  \cup {Node("SIW", Reg(2), Reg(0), NoOperand),
        Node("BLEZ", Reg(NOREGISTER), Lab("end"), NoOperand),
        Node("EOS", NoOperand, NoOperand, NoOperand)}

(* registernum only grows: a temporary comes after those numbered below.   *)
InOrder(ir) ==
  \A i \in 1..Len(ir) : \A t \in 1..3 :
     OccursAt(ir, t, i) => \E j \in 1..i : OccursAt(ir, t - 1, j)

MCIrs ==
  {ir \in [1..MaxLen -> Pool] : InOrder(ir) /\ EosHasNoRegister(ir) /\ Confined(ir)}
=============================================================================
