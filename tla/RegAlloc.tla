------------------------------ MODULE RegAlloc ------------------------------
(***************************************************************************)
(* The register allocator of mips.c: map_registers walks the IR list once  *)
(* and gives every register operand it has not met before a register name, *)
(* which ir2mips prints wherever the operand occurs.  A temporary gets the *)
(* first of $t0..$t9 that is free or whose temporary does not occur again  *)
(* before the next end of statement; the mapping is never revised.         *)
(***************************************************************************)
EXTENDS Ir, FiniteSets

CONSTANTS
  NREG,  (* How many $t registers there are: 10 in mips.c.                *)
  Irs    (* The lists that may be allocated.                              *)

ASSUME NREGAssumption == NREG \in Nat \ {0}

(***************************************************************************)
(* The lists build_ir makes of the supported expressions (checked of       *)
(* IrGen): sequences of nodes, with integer register operands, where no    *)
(* temporary outlives its statement.                                       *)
(***************************************************************************)
ASSUME IrsAssumption ==
  \A ir \in Irs :
     /\ Len(ir) \in Nat
     /\ \A i \in 1..Len(ir), k \in 1..3 : IsReg(ir, i, k) => RegAt(ir, i, k) \in Int
     /\ EosHasNoRegister(ir)
     /\ Confined(ir)

VARIABLES
  irlist,       (* The list, which allocation leaves alone.               *)
  irptr,        (* The node map_registers is at.                          *)
  operand,      (* The operand of that node it looks at next, 4 for none. *)
  t_registers,  (* For each $t register: in use, and for which temporary. *)
  rm,           (* The register name of each operand mapped so far.       *)
  spilled       (* The temporaries mapped when no $t register was left.   *)

vars == <<irlist, irptr, operand, t_registers, rm, spilled>>

Regs == 0..(NREG - 1)

(* The names setmapping writes into strbuf, and what it may hold before.   *)
Names == {T(j) : j \in Regs} \cup {Zero, V0, RA, Junk}

Free == [j \in Regs |-> [used |-> FALSE, temp |-> 0]]

TypeOK ==
  /\ irlist \in Irs
  /\ irptr \in 1..(Len(irlist) + 1)
  /\ operand \in 1..4
  /\ t_registers \in [Regs -> [used : BOOLEAN, temp : Int]]
  /\ rm \in [DOMAIN rm -> Names]
  /\ DOMAIN rm \subseteq Int
  /\ spilled \subseteq DOMAIN rm

Start ==
  /\ irptr = 1
  /\ operand = 1
  /\ t_registers = Free
  /\ rm = [t \in {} |-> Junk]
  /\ spilled = {}

Init == irlist \in Irs /\ Start

(* Mutant: the scan starts behind the node at hand.                        *)
is_live_after(j) ==
  \E i \in (irptr + 1)..Len(irlist) :
     /\ OccursAt(irlist, t_registers[j].temp, i)
     /\ \A e \in (irptr + 1)..i : ~IsEos(irlist, e)

(***************************************************************************)
(* is_live: the temporary of register j occurs in the current node or in a *)
(* later one before the next end of statement.                             *)
(***************************************************************************)
is_live(j) ==
  \E i \in irptr..Len(irlist) :
     /\ OccursAt(irlist, t_registers[j].temp, i)
     /\ \A e \in irptr..i : ~IsEos(irlist, e)

(* Mutant: a register is never used again within a statement.              *)
AvailableOnce(j) == ~t_registers[j].used

Available(j) == ~t_registers[j].used \/ ~is_live(j)

MapTo(t, name) ==
  rm' = [u \in DOMAIN rm \cup {t} |-> IF u = t THEN name ELSE rm[u]]

(* The register operand at hand, when getmapping does not find it.         *)
Current == RegAt(irlist, irptr, operand)

Unmapped ==
  /\ irptr <= Len(irlist)
  /\ ~IsEos(irlist, irptr)
  /\ operand <= 3
  /\ IsReg(irlist, irptr, operand)
  /\ Current \notin DOMAIN rm

(* setmapping, the cases of the switch that name a fixed register.         *)
SpecialName(t) ==
  CASE t = REGISTERZERO -> Zero
    [] t = REGISTERV0   -> V0
    [] OTHER            -> RA

MapSpecial ==
  /\ Unmapped
  /\ Current \in Special
  /\ MapTo(Current, SpecialName(Current))
  /\ operand' = operand + 1
  /\ UNCHANGED <<irlist, irptr, t_registers, spilled>>

(* setmapping, default case: the first register that is available.         *)
MapTemp(j) ==
  /\ Unmapped
  /\ Current \notin Special
  /\ Available(j)
  /\ \A i \in 0..(j - 1) : ~Available(i)
  /\ t_registers' = [t_registers EXCEPT ![j] = [used |-> TRUE, temp |-> Current]]
  /\ MapTo(Current, T(j))
  /\ operand' = operand + 1
  /\ UNCHANGED <<irlist, irptr, spilled>>

(* setmapping, default case: the loop ends and strbuf was never written.   *)
MapJunk(name) ==
  /\ Unmapped
  /\ Current \notin Special
  /\ \A j \in Regs : ~Available(j)
  /\ MapTo(Current, name)
  /\ spilled' = spilled \cup {Current}
  /\ operand' = operand + 1
  /\ UNCHANGED <<irlist, irptr, t_registers>>

(* An operand that is no register, or that getmapping finds.               *)
SkipOperand ==
  /\ irptr <= Len(irlist)
  /\ ~IsEos(irlist, irptr)
  /\ operand <= 3
  /\ IsReg(irlist, irptr, operand) => RegAt(irlist, irptr, operand) \in DOMAIN rm
  /\ operand' = operand + 1
  /\ UNCHANGED <<irlist, irptr, t_registers, rm, spilled>>

(* Mutant: the third operand is forgotten.                                 *)
NextNodeEarly ==
  /\ irptr <= Len(irlist)
  /\ ~IsEos(irlist, irptr)
  /\ operand = 3
  /\ irptr' = irptr + 1
  /\ operand' = 1
  /\ UNCHANGED <<irlist, t_registers, rm, spilled>>

NextNode ==
  /\ irptr <= Len(irlist)
  /\ ~IsEos(irlist, irptr)
  /\ operand = 4
  /\ irptr' = irptr + 1
  /\ operand' = 1
  /\ UNCHANGED <<irlist, t_registers, rm, spilled>>

(* Mutant: the node behind the end of statement is skipped.                *)
EndOfStatementTwice ==
  /\ irptr <= Len(irlist)
  /\ IsEos(irlist, irptr)
  /\ t_registers' = Free
  /\ irptr' = irptr + 2
  /\ operand' = 1
  /\ UNCHANGED <<irlist, rm, spilled>>

(* An end of statement: reset_tregs frees every register, rm stays.        *)
EndOfStatement ==
  /\ irptr <= Len(irlist)
  /\ IsEos(irlist, irptr)
  /\ t_registers' = Free
  /\ irptr' = irptr + 1
  /\ operand' = 1
  /\ UNCHANGED <<irlist, rm, spilled>>

(* setmapping, called with the operand at hand.                            *)
setmapping ==
  \/ MapSpecial
  \/ \E j \in Regs : MapTemp(j)
  \/ \E name \in Names : MapJunk(name)

Next == setmapping \/ SkipOperand \/ NextNode \/ EndOfStatement

Spec == Init /\ [][Next]_vars

(***************************************************************************)
(* Properties                                                              *)
(***************************************************************************)

(* The temporaries that setmapping gave a $t register.                     *)
Placed == {t \in DOMAIN rm : t \notin Special /\ t \notin spilled}

(***************************************************************************)
(* Two temporaries that setmapping gave the same $t register are never     *)
(* live together: from the first to the last node that mentions the one,   *)
(* no node mentions the other.  is_live looks forward only, and only to    *)
(* the next end of statement, while a mapping lasts for the whole list.    *)
(***************************************************************************)
NoClobber ==
  \A t, u \in Placed :
     t # u /\ rm[t] = rm[u] => ~Overlap(irlist, t, u)

(***************************************************************************)
(* map_registers is an allocation in the sense of module Allocation: the   *)
(* register of a temporary is chosen once, clashes with no overlapping     *)
(* live range, and a temporary is left with what strbuf holds only when    *)
(* each of the NREG registers belongs to a temporary live at that node.    *)
(***************************************************************************)
Home == [t \in Placed |-> rm[t][2]]

Alloc == INSTANCE Allocation WITH home <- Home, failed <- spilled

IsAllocation == Alloc!Spec

(***************************************************************************)
(* A temporary is left with what strbuf holds only under pressure: at some *)
(* node that mentions it more than NREG temporaries are live, itself among *)
(* them.  A statement that never needs more than the ten registers at once *)
(* has none such, however many temporaries it uses: the loop of setmapping *)
(* finds the registers of those that have ended.                           *)
(***************************************************************************)
LiveAt(t, i) == \E a, b \in Occurrences(irlist, t) : a <= i /\ i <= b
Live(i)      == {t \in Temps(irlist) : LiveAt(t, i)}

SpillsUnderPressure ==
  \A t \in spilled : \E i \in Occurrences(irlist, t) : Cardinality(Live(i)) > NREG

(***************************************************************************)
(* When map_registers is done, ir2mips finds a name for every register     *)
(* operand it prints: getmapping never returns NULL.                       *)
(***************************************************************************)
AllNamed ==
  irptr > Len(irlist) =>
     \A i \in 1..Len(irlist), k \in 1..3 :
        IsReg(irlist, i, k) => RegAt(irlist, i, k) \in DOMAIN rm
=============================================================================
