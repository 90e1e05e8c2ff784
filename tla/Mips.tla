-------------------------------- MODULE Mips --------------------------------
(***************************************************************************)
(* The program that generate_mips (mips.c) emits, run on a machine: main's *)
(* stub, the block of instructions emitted for each IR node, and the       *)
(* run-time routines behind them.  A step runs one block; the block of a   *)
(* call is run in two steps, up to its jal and after it.  Words are        *)
(* integers, memory is zero where nothing was stored.  Of the registers    *)
(* that are saved $s0..$s7 are never written, so they are always zero, and *)
(* $s8 is another name of $fp.                                             *)
(***************************************************************************)
EXTENDS Ir, Syntax, FiniteSets, Bitwise, TLC

CONSTANTS
  Inputs,   (* The numbers that may be typed.                              *)
  MAXREADS  (* How many are typed at most.                                 *)

VARIABLES
  irlist, rm, symbol, tables, offset, sizeofsymbols,  (* What was compiled. *)
  pc,    (* The address of the next block.                                 *)
  regs,  (* The value of each register.                                    *)
  mem,   (* The words stored so far, by address.                           *)
  out,   (* What was printed.                                              *)
  in     (* What was read.                                                 *)

vars == <<pc, regs, mem, out, in>>

SP == <<"sp", 0>>
FP == <<"fp", 0>>
Temporaries == {T(k) : k \in 0..9}
Registers   == Temporaries \cup {Zero, V0, RA, SP, FP, Junk}

(* Addresses: of data, of the stack, and of code, where node i has two,    *)
(* its start and the place behind its jal.  Node 0 is the stub main.       *)
DATA    == 1000
STACK   == 100000
TEXT    == 1000000
DONE    == -1
TRAPPED == -2

Front(i) == TEXT + 2 * i
Back(i)  == TEXT + 2 * i + 1
LastNode == Len(irlist)

Running == pc \notin {DONE, TRAPPED}

(* emit_hardcoded_mips_text: the routines follow the last node.            *)
Routines   == <<"print_int", "print_char", "print_factorial", "print_square", "print_fib",
                "read_int">>
Routine(r) == Front(LastNode + r)

TypeOK ==
  /\ pc \in {DONE, TRAPPED} \cup TEXT..Routine(Len(Routines))
  /\ DOMAIN regs = Registers
  /\ \A r \in Registers : regs[r] \in Int
  /\ \A a \in DOMAIN mem : a % 4 = 0 /\ a \in DATA..STACK
  /\ Len(in) <= MAXREADS

Start ==
  /\ pc = Front(0)
  /\ regs = [r \in Registers |-> IF r = SP THEN STACK ELSE 0]
  /\ mem = [a \in {} |-> 0]
  /\ out = <<>>
  /\ in = <<>>

-----------------------------------------------------------------------------
(* Symbols                                                                 *)

SymbolOf(id)  == tables[id[1]].symbols[id[2]]
Least(S)      == CHOOSE k \in S : \A j \in S : k <= j

(* find_symboltable: the first table of the file scope for the name.       *)
find_symboltable(name) ==
  <<Least({k \in 1..tables[<<>>].children :
             tables[<<k>>].tablefor # <<>> /\ SymbolOf(tables[<<k>>].tablefor).name = name})>>

Globals == tables[<<>>].symbols
IsVariable(k) == "FUNCTION" \notin Globals[k].type

(* generate_mips: the space of a global; one that is no char, short, int   *)
(* or long takes that of the variable before it.                           *)
Element(type, before) ==
  CASE "CHAR" \in type -> 1
    [] "CHAR" \notin type /\ "SHORT" \in type -> 2
    [] {"CHAR", "SHORT"} \cap type = {} /\ {"INT", "LONG"} \cap type # {} -> 4
    [] OTHER -> before

Times(size, dims) ==
  LET product[k \in 0..Len(dims)] == IF k = 0 THEN size ELSE product[k - 1] * dims[k]
  IN product[Len(dims)]

(* The .space of one follows that of another, without alignment.           *)
GlobalAddress ==
  LET size[k \in 0..Len(Globals)] ==
        IF k = 0 THEN 0 ELSE IF ~IsVariable(k) THEN size[k - 1]
        ELSE Times(Element(Globals[k].type, size[k - 1]), Globals[k].dims)
      at[k \in 1..(Len(Globals) + 1)] ==
        IF k = 1 THEN DATA ELSE at[k - 1] + (IF IsVariable(k - 1) THEN size[k - 1] ELSE 0)
  IN at

GlobalAddresses == DATA..(GlobalAddress[Len(Globals) + 1] - 1)

(* An address that leaves the saved registers out.                         *)
AddressFromFrame(id) == IF id[1] = <<>> THEN GlobalAddress[id[2]] ELSE regs[FP] + offset[id]

(* OP_LA: a global's offset is negative, a local lies 44 bytes further up. *)
Address(id) == IF id[1] = <<>> THEN GlobalAddress[id[2]] ELSE regs[FP] + offset[id] + 44

(* stacksize of the function that starts at node i.                        *)
FrameSize(i) == 44 + sizeofsymbols[find_symboltable(irlist[i].operand[1].data)]

(* What the global stacksize holds when node i is emitted.                 *)
Starts(i)    == {j \in 1..i : irlist[j].opcode = "FUNCTIONSTART"}
StackSize(i) == FrameSize(CHOOSE j \in Starts(i) : \A k \in Starts(i) : k <= j)

NOSERIAL == -1

LabelAt(l) == {i \in 1..LastNode : irlist[i].opcode = "LABEL" /\ irlist[i].operand[1] = Lab(l)}

(* Where a jump to a function or to a label goes.                          *)
CodeOf(l) ==
  IF LabelAt(l) # {} THEN Front(Least(LabelAt(l)))
  ELSE Routine(CHOOSE r \in DOMAIN Routines : Routines[r] = l[1])

-----------------------------------------------------------------------------
(* The machine                                                             *)

Node == (pc - TEXT) \div 2
At(opcodes) ==
  /\ pc \in {Front(i) : i \in 1..LastNode}
  /\ irlist[Node].opcode \in opcodes
Next1 == Front(Node + 1)

Operand(k)  == irlist[Node].operand[k].data
Register(k) == rm[Operand(k)]
Value(k)    == regs[Register(k)]

(* A node with a register that setmapping left without a name.             *)
Unnamed ==
  Node \in 1..LastNode /\ \E k \in 1..3 : IsReg(irlist, Node, k) /\ Register(k) = Junk

Load(a) == IF a \in DOMAIN mem THEN mem[a] ELSE 0

(* An lw or sw at an address that is no multiple of 4 traps: the run ends. *)
Go(next, addresses) ==
  pc' = IF (\A a \in addresses : a % 4 = 0) /\ ~Unnamed THEN next ELSE TRAPPED

(* Words is a function from addresses to what is stored there.             *)
StoreWords(words) ==
  mem' = IF \A a \in DOMAIN words : a % 4 = 0 THEN words @@ mem ELSE mem

(* No code is emitted for an end of statement, and none for a label.       *)
RunNothing ==
  /\ At({"EOS", "LABEL"})
  /\ Go(Next1, {})
  /\ UNCHANGED <<regs, mem, out, in>>

SetRegister(v) == regs' = [regs EXCEPT ![Register(1)] = v]

RunLoadAddress ==
  /\ At({"LA"})
  /\ SetRegister(Address(symbol[irlist[Node].opnode]))
  /\ Go(Next1, {})
  /\ UNCHANGED <<mem, out, in>>

RunLoadImmediate ==
  /\ At({"LI"})
  /\ SetRegister(Operand(2))
  /\ Go(Next1, {})
  /\ UNCHANGED <<mem, out, in>>

RunLoadWord ==
  /\ At({"LIW"})
  /\ SetRegister(Load(Value(2)))
  /\ Go(Next1, {Value(2)})
  /\ UNCHANGED <<mem, out, in>>

RunStoreWord ==
  /\ At({"SIW"})
  /\ StoreWords(Value(2) :> Value(1))
  /\ Go(Next1, {Value(2)})
  /\ UNCHANGED <<regs, out, in>>

RunMove ==
  /\ At({"MOVE"})
  /\ SetRegister(Value(2))
  /\ Go(Next1, {})
  /\ UNCHANGED <<mem, out, in>>

Truth(b)  == IF b THEN 1 ELSE 0
Sign(a)   == IF a < 0 THEN -1 ELSE 1
Abs(a)    == IF a < 0 THEN -a ELSE a
Quotient(a, b) == IF b = 0 THEN 0 ELSE Sign(a) * Sign(b) * (Abs(a) \div Abs(b))

(* The numbers of the runs stay far from the limits of a word.             *)
Result(op, a, b) ==
  CASE op = "ADD"  -> a + b               [] op = "SUB"  -> a - b
    [] op = "MULT" -> a * b               [] op = "DIV"  -> Quotient(a, b)
    [] op = "MOD"  -> a - b * Quotient(a, b)
    [] op = "SEQ"  -> Truth(a = b)        [] op = "SLT"  -> Truth(a < b)
    [] op = "SLTE" -> Truth(a <= b)       [] op = "SGT"  -> Truth(a > b)
    [] op = "SGTE" -> Truth(a >= b)       [] op = "BITAND" -> a & b
    [] op = "BITOR" -> a | b

Operations == {"ADD", "SUB", "MULT", "DIV", "MOD", "SEQ", "SLT", "SLTE", "SGT", "SGTE",
               "BITAND", "BITOR"}

(* A division by zero traps, as an access at a wrong address does.         *)
RunOperation ==
  /\ At(Operations)
  /\ SetRegister(Result(irlist[Node].opcode, Value(2), Value(3)))
  /\ Go(Next1, IF irlist[Node].opcode \in {"DIV", "MOD"} /\ Value(3) = 0 THEN {1} ELSE {})
  /\ UNCHANGED <<mem, out, in>>

RunIncrement ==
  /\ At({"ADDI"})
  /\ SetRegister(Value(2) + Operand(3))
  /\ Go(Next1, {})
  /\ UNCHANGED <<mem, out, in>>

RunBranch ==
  /\ At({"BLEZ", "BGZ"})
  /\ LET taken == IF irlist[Node].opcode = "BLEZ" THEN Value(1) <= 0 ELSE Value(1) > 0
     IN Go(IF taken THEN CodeOf(Operand(2)) ELSE Next1, {})
  /\ UNCHANGED <<regs, mem, out, in>>

RunJump ==
  /\ At({"J"})
  /\ Go(CodeOf(Operand(1)), {})
  /\ UNCHANGED <<regs, mem, out, in>>

RunParam ==
  /\ At({"PARAM"})
  /\ LET sp == regs[SP] - 4
     IN /\ regs' = [regs EXCEPT ![SP] = sp]
        /\ StoreWords(sp :> Value(1))
        /\ Go(Next1, {sp})
  /\ UNCHANGED <<out, in>>

-----------------------------------------------------------------------------
(* Calls                                                                   *)

AtCall(back) ==
  \/ pc = IF back THEN Back(0) ELSE Front(0)
  \/ /\ pc \in {IF back THEN Back(i) ELSE Front(i) : i \in 1..LastNode}
     /\ irlist[Node].opcode = "FUNCTIONCALL"

(* The function called, in node 0 main.                                    *)
Callee == IF Node = 0 THEN SymbolOf(tables[find_symboltable("main")].tablefor)
          ELSE SymbolOf(symbol[irlist[Node].opnode])

TSlot(k) == 44 - 4 * k

(* emit_function_call up to its jal.                                       *)
RunCall ==
  /\ AtCall(FALSE)
  /\ LET sp == regs[SP] - 48
         saved == [k \in 0..9 |-> regs[T(k)]]
     IN /\ StoreWords([a \in {sp + TSlot(k) : k \in 0..9} |-> saved[(sp + 44 - a) \div 4]]
                      @@ (sp + 4) :> regs[RA] @@ sp :> regs[FP])
        /\ regs' = [regs EXCEPT ![SP] = sp, ![RA] = Back(Node)]
        /\ Go(CodeOf(<<Callee.name, NOSERIAL>>), {sp})
  /\ UNCHANGED <<out, in>>

(* One word popped for any number of parameters.                           *)
ArgumentBytesOne == IF Callee.size = 0 THEN 0 ELSE 4

(* What is popped beside the 48 bytes: a word for each counted parameter.  *)
ArgumentBytes == 4 * Callee.size

(* emit_function_call behind its jal.                                      *)
RunReturned ==
  /\ AtCall(TRUE)
  /\ LET sp == regs[SP]
     IN /\ regs' = [r \in Registers |->
                      CASE r \in Temporaries -> Load(sp + TSlot(r[2]))
                        [] r = RA -> Load(sp + 4)
                        [] r = FP -> Load(sp)
                        [] r = SP -> sp + 48 + ArgumentBytes
                        [] OTHER  -> regs[r]]
        /\ Go(IF Node = 0 THEN DONE ELSE Next1, {sp})
  /\ UNCHANGED <<mem, out, in>>

(* Parameters taken in the order in which they lie.                        *)
paramoffsetUp(frame, size, i) == frame + 48 + (4 * i) - 4

(* Where the caller left parameter i, from $sp: the first one was pushed   *)
(* first and lies highest.                                                 *)
paramoffset(frame, size, i) == frame + 48 + 4 * size - 4 * i

(* emit_function_entry: the frame, the parameters and the saved registers. *)
RunEntry ==
  /\ At({"FUNCTIONSTART"})
  /\ LET table == find_symboltable(Operand(1))
         size  == SymbolOf(tables[table].tablefor).size
         frame == FrameSize(Node)
         sp    == regs[SP] - frame
         from(i) == sp + paramoffset(frame, size, i)
         to(i)   == sp + 44 + offset[<<table, i>>]
         params == [a \in {to(i) : i \in 1..size} |->
                      Load(from(CHOOSE i \in 1..size : to(i) = a))]
     IN /\ StoreWords([a \in {sp + 4 * k : k \in 3..10} |-> 0]
                      @@ (sp + 8) :> regs[FP] @@ (sp + 4) :> regs[RA] @@ sp :> regs[FP]
                      @@ params)
        /\ regs' = [regs EXCEPT ![SP] = sp, ![FP] = sp,
                                ![T(0)] = IF size = 0 THEN @ ELSE Load(from(size))]
        /\ Go(Next1, {sp} \cup DOMAIN params)
  /\ UNCHANGED <<out, in>>

(* jr $ra.                                                                 *)
ReturnTo(address) ==
  IF address \in {Back(i) : i \in 0..LastNode} THEN address ELSE TRAPPED

(* emit_function_exit and the jr behind it.                                *)
RunExit ==
  /\ At({"JR"})
  /\ LET sp == regs[SP]
     IN /\ regs' = [regs EXCEPT ![SP] = sp + StackSize(Node), ![RA] = Load(sp + 4), ![FP] = Load(sp)]
        /\ Go(ReturnTo(Load(sp + 4)), {sp})
  /\ UNCHANGED <<mem, out, in>>

-----------------------------------------------------------------------------
(* The run-time routines                                                   *)

AtRoutine(names) == \E r \in DOMAIN Routines : Routines[r] \in names /\ pc = Routine(r)
RoutineName      == Routines[Node - LastNode]

(* A routine saves $ra and $fp in a frame of its own, prints what the      *)
(* caller pushed, words in the order given, and returns.                   *)
Prints(frame, arguments) ==
  LET sp    == regs[SP] - frame
      words == [k \in DOMAIN arguments |-> Load(sp + arguments[k])]
      local == [a \in {sp + frame - 4 * k : k \in DOMAIN arguments} |->
                  words[(sp + frame - a) \div 4]]
  IN /\ StoreWords(local @@ (sp + 4) :> regs[RA] @@ sp :> regs[FP])
     /\ regs' = [regs EXCEPT ![T(0)] = words[Len(words)],
                             ![V0] = 11]
     /\ out' = Append(out, <<RoutineName, words>>)
     /\ Go(ReturnTo(regs[RA]), {sp})
     /\ UNCHANGED in

RunPrintOne == AtRoutine({"print_int", "print_char"}) /\ Prints(12, <<60>>)

RunPrintTwo ==
  AtRoutine({"print_factorial", "print_square", "print_fib"}) /\ Prints(16, <<64, 68>>)

RunRead ==
  /\ AtRoutine({"read_int"})
  /\ Len(in) < MAXREADS
  /\ \E v \in Inputs :
       /\ in' = Append(in, v)
       /\ regs' = [regs EXCEPT ![V0] = v]
  /\ LET sp == regs[SP] - 8
     IN /\ StoreWords((sp + 4) :> regs[RA] @@ sp :> regs[FP])
        /\ Go(ReturnTo(regs[RA]), {sp})
  /\ UNCHANGED out

Next ==
  \/ RunNothing \/ RunLoadAddress \/ RunLoadImmediate \/ RunLoadWord \/ RunStoreWord
  \/ RunMove \/ RunOperation \/ RunIncrement \/ RunBranch \/ RunJump \/ RunParam
  \/ RunCall \/ RunReturned \/ RunEntry \/ RunExit
  \/ RunPrintOne \/ RunPrintTwo \/ RunRead
=============================================================================
