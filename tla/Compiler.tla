------------------------------ MODULE Compiler ------------------------------
(***************************************************************************)
(* The whole of sgcc behind the parser, and the program it compiles.       *)
(* process_tree (node.c) builds the symbol tables, makes the IR list, has  *)
(* registers mapped and frames laid out, and emits the assembly; then the  *)
(* assembly runs.  Each part works on what the part before it left: the    *)
(* symbols of the identifiers, the list, the register names, the offsets.  *)
(* Compilation goes on after an error in the source.                       *)
(***************************************************************************)
EXTENDS Integers, Sequences

CONSTANTS
  Programs,  (* The syntax trees that may be compiled.                     *)
  Inputs,    (* The numbers that may be typed at a running program.        *)
  MAXREADS   (* How many are typed at most.                                *)

VARIABLES
  tree,
  walk, tables, currenttable, typearray, pointer_depth, symbol, errors, nullread,  (* SymTab *)
  todo, vals, visited, else_label, irlist, registernum, labelnum, crashed, (* IrGen *)
  irptr, operand, t_registers, rm, spilled,                         (* RegAlloc *)
  calls, offset, sizeofsymbols, trapped,                            (* Offsets *)
  pc, regs, mem, out, in                                            (* Mips *)

symvars   == <<walk, tables, currenttable, typearray, pointer_depth, symbol, errors, nullread>>
irvars    == <<todo, vals, visited, else_label, irlist, registernum, labelnum, crashed>>
allocvars == <<irptr, operand, t_registers, rm, spilled>>
layoutvars == <<calls, offset, sizeofsymbols, trapped>>
runvars   == <<pc, regs, mem, out, in>>
vars == <<tree, symvars, irvars, allocvars, layoutvars, runvars>>

Symbols  == INSTANCE SymTab WITH crashed <- nullread
Ir       == INSTANCE IrGen
Alloc    == INSTANCE RegAlloc WITH NREG <- 10, Irs <- {}
Layout   == INSTANCE Offsets WITH Trees <- {}, Garbage <- {-4, 0, 4}
Machine  == INSTANCE Mips
C        == INSTANCE CSemantics

Init ==
  /\ tree \in Programs
  /\ Symbols!Start
  /\ Ir!Start
  /\ Alloc!Start
  /\ Layout!Start
  /\ Machine!Start

TablesBuilt == walk = <<>> /\ ~nullread
ListMade    == TablesBuilt /\ todo = <<>> /\ ~crashed
Allocated   == ListMade /\ irptr > Len(irlist)
Compiled    == Allocated /\ calls = <<>>

build_symbol_tables ==
  UNCHANGED <<irvars, allocvars, layoutvars, runvars>> /\ Symbols!Next
build_ir ==
  TablesBuilt /\ UNCHANGED <<symvars, allocvars, layoutvars, runvars>> /\ Ir!Next
map_registers ==
  /\ ListMade
  /\ UNCHANGED <<tree, symvars, todo, vals, visited, else_label, registernum, labelnum, crashed>>
  /\ UNCHANGED <<layoutvars, runvars>>
  /\ Alloc!Next
calculate_offsets ==
  Allocated /\ UNCHANGED <<tree, symvars, irvars, allocvars, runvars>> /\ Layout!Next
Run ==
  Compiled /\ UNCHANGED <<tree, symvars, irvars, allocvars, layoutvars>> /\ Machine!Next

Next == build_symbol_tables \/ build_ir \/ map_registers \/ calculate_offsets \/ Run

Spec == Init /\ [][Next]_vars /\ WF_vars(Next)

-----------------------------------------------------------------------------

(* The parts keep their types; the finished tables are what Offsets takes  *)
(* for granted; print_mips is passed currenttable, which is the table of   *)
(* the file scope once the whole tree was walked.                          *)
TypeOK ==
  /\ Ir!TypeOK
  /\ Symbols!TypeOK
  /\ TablesBuilt => Layout!IsTree(tables)
  /\ Compiled => Machine!TypeOK /\ currenttable = <<>>

(* The program has ended, or waits for a number nobody types.              *)
Waits   == Machine!AtRoutine({"read_int"}) /\ Len(in) = MAXREADS
Stopped == Compiled /\ (~Machine!Running \/ Waits)

(***************************************************************************)
(* A compiled program runs to its end without a trap and prints what the   *)
(* C program prints, whatever numbers are typed.  Everything between the   *)
(* syntax tree and the machine takes part: a symbol tied to the wrong      *)
(* variable, an argument in the wrong slot of the callee's frame, a value  *)
(* that lost its register to another one or to a call show here.           *)
(***************************************************************************)
SameOutput == Stopped => pc # Machine!TRAPPED /\ out = C!Output(tree, in)

(***************************************************************************)
(* At the end of a statement $sp is where the entry of the function put    *)
(* it: what the caller of a function pushed, parameter by parameter, and   *)
(* what emit_function_call pops by the size of the symbol are the same     *)
(* (mips.c:594: "Do in reverse on return").  Locals are addressed from     *)
(* $fp, so a leak shows only when the function returns.                    *)
(***************************************************************************)
Balanced ==
  Compiled /\ Machine!At({"EOS"}) => regs[Machine!SP] = regs[Machine!FP]

(***************************************************************************)
(* A function assigns only to globals and to variables inside its own      *)
(* frame, above the registers saved there: the offsets that                *)
(* calculate_offsets gave out, the frame that emit_function_entry made     *)
(* from sizeofsymbols and the 44 bytes that both put below the variables   *)
(* agree, for every call depth.                                            *)
(***************************************************************************)
OwnFrame ==
  Compiled /\ Machine!At({"SIW"}) =>
    \/ Machine!Value(2) \in Machine!GlobalAddresses
    \/ Machine!Value(2) \in (regs[Machine!FP] + 44)..(regs[Machine!FP] + Machine!StackSize(Machine!Node) - 4)

(* A program that ends in C ends when it was compiled, and compiling it    *)
(* comes to an end.                                                        *)
Ends == <>Stopped
=============================================================================
