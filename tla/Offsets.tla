------------------------------ MODULE Offsets -------------------------------
(***************************************************************************)
(* calculate_offsets (mips.c): where each local variable lies in the frame *)
(* of its function and how large the frame's part for local variables is.  *)
(* The tree of symbol tables is what build_symbol_tables leaves: below the *)
(* file scope one table for each function (its parameters, then the locals *)
(* of its outermost block), below that one for each inner block.  A table  *)
(* is named by its path, the sequence of child numbers from the root; the  *)
(* C recursion is the stack calls.                                         *)
(***************************************************************************)
EXTENDS Tables

CONSTANTS
  Trees,   (* The trees of tables that may be laid out.                    *)
  Garbage  (* What the uninitialised variable size may hold: any int.      *)

ASSUME GarbageAssumption == Garbage \subseteq Int

ASSUME TreesAssumption == \A t \in Trees : IsTree(t)

VARIABLES
  tables,   (* The tree, from the file scope's table on.                   *)
  calls,    (* The active calls of calculate_offsets, the last one inmost. *)
  offset,   (* symbol_ptr->offset, for <<path, number>> of a symbol.       *)
  sizeofsymbols, (* For the path of a table.                               *)
  trapped   (* The compiler divided by zero and is dead.                   *)

vars == <<tables, calls, offset, sizeofsymbols, trapped>>

(***************************************************************************)
(* One call: its parent table, the child it is at, the symbol of the child *)
(* it places next (0 before the first), and the C variables.               *)
(***************************************************************************)
Call(parent, initial, garbage) ==
  [parent |-> parent, child |-> 1, next |-> 0, initial |-> initial,
   offset |-> initial, totalsize |-> 0, largestsize |-> 0, size |-> garbage]

Active == calls # <<>>

TypeOK ==
  /\ DOMAIN sizeofsymbols \subseteq Seq(Nat)
  /\ \A p \in DOMAIN sizeofsymbols : sizeofsymbols[p] \in Int
  /\ \A s \in DOMAIN offset : s[1] \in DOMAIN sizeofsymbols /\ offset[s] \in Int
  /\ \A i \in 1..Len(calls) :
       LET c == calls[i]
           children == tables[c.parent].children
       IN /\ c.child \in 1..(children + 1)
          /\ c.child <= children =>
               c.next \in 0..(Len(tables[Append(c.parent, c.child)].symbols) + 1)
          /\ {c.initial, c.offset, c.totalsize, c.size} \subseteq Int
          /\ c.largestsize \in Nat
  /\ trapped => Active

Start ==
  /\ \E g \in Garbage : calls = <<Call(<<>>, 0, g)>>
  /\ offset = [s \in {} |-> 0]
  /\ sizeofsymbols = [p \in {} |-> 0]
  /\ trapped = FALSE

Init == tables \in Trees /\ Start

Current  == calls[Len(calls)]
Path   == Append(Current.parent, Current.child)
currenttable == tables[Path]

InTables == Active /\ ~trapped /\ Current.child <= tables[Current.parent].children

Put(f, a, v) == [b \in DOMAIN f \cup {a} |-> IF b = a THEN v ELSE f[b]]
Become(c)    == calls' = [calls EXCEPT ![Len(calls)] = c]

StartTable ==
  /\ InTables /\ Current.next = 0
  /\ sizeofsymbols' = Put(sizeofsymbols, Path, 0)
  /\ Become([Current EXCEPT !.offset = Current.initial, !.totalsize = 0, !.next = 1])
  /\ UNCHANGED <<tables, offset, trapped>>

(* A type with none of these bits keeps the size of the symbol before it.  *)
SizeOf(type, previous) ==
  CASE "CHAR" \in type  -> 1
    [] "CHAR" \notin type /\ "SHORT" \in type -> 2
    [] {"CHAR", "SHORT"} \cap type = {} /\ {"INT", "LONG"} \cap type # {} -> 4
    [] OTHER -> previous

Abs(n) == IF n < 0 THEN -n ELSE n

(* Mutant: the distance from the last boundary, not to the next one.       *)
PaddingBackwards(at, size) == at % Abs(size)

(* The increments of the alignment loop, which asks for offset % size = 0; *)
(* in C the sign of size does not matter to that.                          *)
Padding(at, size) == (-at) % Abs(size)

Times(size, dims) ==
  LET product[k \in 0..Len(dims)] == IF k = 0 THEN size ELSE product[k - 1] * dims[k]
  IN product[Len(dims)]

AtSymbol == InTables /\ Current.next \in 1..Len(currenttable.symbols)

(* size when the alignment loop begins.                                    *)
Align == SizeOf(currenttable.symbols[Current.next].type, Current.size)

(* The remainder by a size of 0: the processor traps, the compiler dies.   *)
DivideByZero ==
  /\ AtSymbol /\ Align = 0
  /\ trapped' = TRUE
  /\ UNCHANGED <<tables, calls, offset, sizeofsymbols>>

PlaceSymbol ==
  /\ AtSymbol /\ Align # 0
  /\ LET pad  == Padding(Current.offset, Align)
         size == Times(Align, currenttable.symbols[Current.next].dims)
     IN /\ offset' = Put(offset, <<Path, Current.next>>, Current.offset + pad)
        /\ sizeofsymbols' = [sizeofsymbols EXCEPT ![Path] = @ + pad + size]
        /\ Become([Current EXCEPT !.offset = @ + pad + size, !.totalsize = @ + pad + size,
                                !.size = size, !.next = @ + 1])
  /\ UNCHANGED <<tables, trapped>>

(* Mutant: the blocks start where the caller's table did.                  *)
RecurseAtStart ==
  /\ InTables /\ Current.next = Len(currenttable.symbols) + 1
  /\ \E g \in Garbage : calls' = Append(calls, Call(Path, Current.initial, g))
  /\ UNCHANGED <<tables, offset, sizeofsymbols, trapped>>

Recurse ==
  /\ InTables /\ Current.next = Len(currenttable.symbols) + 1
  /\ \E g \in Garbage : calls' = Append(calls, Call(Path, Current.offset, g))
  /\ UNCHANGED <<tables, offset, sizeofsymbols, trapped>>

(* Mutants: the last totalsize instead of the largest; a table skipped.    *)
FinishLast(c, returned) == [c EXCEPT !.largestsize = c.totalsize, !.child = @ + 1, !.next = 0]
FinishTwo(c, returned) ==
  [c EXCEPT !.largestsize = IF c.totalsize > @ THEN c.totalsize ELSE @,
            !.child = @ + 2, !.next = 0]

(* A call returns the largest totalsize it saw; the caller adds it to the  *)
(* table it is at and goes on with the next one.                           *)
Finish(c, returned) ==
  [c EXCEPT !.largestsize = IF c.totalsize > @ THEN c.totalsize ELSE @,
            !.child = @ + 1, !.next = 0]

Return ==
  /\ Active /\ ~trapped /\ ~InTables
  /\ IF Len(calls) = 1
     THEN calls' = <<>> /\ UNCHANGED sizeofsymbols
     ELSE LET caller == calls[Len(calls) - 1]
              path   == Current.parent
          IN /\ sizeofsymbols' = [sizeofsymbols EXCEPT ![path] = @ + Current.largestsize]
             /\ calls' = Append(SubSeq(calls, 1, Len(calls) - 2),
                                Finish(caller, Current.largestsize))
  /\ UNCHANGED <<tables, offset, trapped>>

Next == StartTable \/ DivideByZero \/ PlaceSymbol \/ Recurse \/ Return

Spec == Init /\ [][Next]_vars

-----------------------------------------------------------------------------
(* Properties of the finished layout.                                      *)

Finished  == calls = <<>>
LaidOut   == DOMAIN sizeofsymbols
Functions == {p \in LaidOut : Len(p) = 1}
Symbols   == DOMAIN offset

TypeOf(s) == tables[s[1]].symbols[s[2]].type
DimsOf(s) == tables[s[1]].symbols[s[2]].dims

(* What C asks of a symbol's type: unsigned alone is int.                  *)
ElementSize(s) ==
  IF "CHAR" \in TypeOf(s) THEN 1 ELSE IF "SHORT" \in TypeOf(s) THEN 2 ELSE 4

Bytes(s) == offset[s]..(offset[s] + Times(ElementSize(s), DimsOf(s)) - 1)

(* Table p is table q or encloses it.                                      *)
Encloses(p, q) == Len(p) <= Len(q) /\ SubSeq(q, 1, Len(p)) = p

Sized(s) == TypeOf(s) \cap {"CHAR", "SHORT", "INT", "LONG"} # {}

(***************************************************************************)
(* A call of calculate_offsets goes through sibling tables one after the   *)
(* other; at symbol u, or before it in the same call, there is one whose   *)
(* type sets size.  Where there is none the size is garbage, of any sign.  *)
(***************************************************************************)
Determined(u) ==
  LET last       == u[1][Len(u[1])]
      sibling(k) == [u[1] EXCEPT ![Len(u[1])] = k]
  IN \/ \E j \in 1..u[2] : Sized(<<u[1], j>>)
     \/ \E k \in 1..(last - 1) : \E j \in 1..Len(tables[sibling(k)].symbols) : Sized(<<sibling(k), j>>)

(* No garbage went into the offset of t, as far as the tables that enclose *)
(* it (its own included) are more than n levels deep.                      *)
NoGarbage(n, t) ==
  \A u \in Symbols : n < Len(u[1]) /\ Encloses(u[1], t[1]) => Determined(u)

(***************************************************************************)
(* Two variables whose scopes are nested share no byte of the frame: the   *)
(* blocks are laid out behind the symbols of the tables around them but    *)
(* over one another's siblings (mips.c:268).  In one table this holds of   *)
(* all variables with a sized type; of a variable and one in a block below *)
(* only if no symbol on the way down, the block's own included, took its   *)
(* size from garbage, which may be negative and move the block upwards.    *)
(***************************************************************************)
ScopesDisjoint ==
  Finished =>
     \A s, t \in Symbols :
        s # t /\ Sized(s) /\ Sized(t) /\ Encloses(s[1], t[1]) /\ NoGarbage(Len(s[1]), t) =>
           Bytes(s) \cap Bytes(t) = {}

(***************************************************************************)
(* Relative to the first variable of the frame each variable lies at a     *)
(* multiple of the size of its elements, whatever the blocks around it     *)
(* left the offset at (mips.c:234), garbage included.                      *)
(***************************************************************************)
OffsetsAligned ==
  Finished => \A s \in Symbols : Sized(s) => offset[s] % ElementSize(s) = 0

(***************************************************************************)
(* sizeofsymbols of a function, which sizes its frame (mips.c:34), covers  *)
(* its own variables and those of the largest of the blocks directly in    *)
(* it, padding included; a variable that no garbage moved does not lie     *)
(* below the frame either.                                                 *)
(***************************************************************************)
FrameCoversBlocks ==
  Finished =>
     \A p \in Functions : \A s \in Symbols :
        Encloses(p, s[1]) /\ Len(s[1]) <= 2 /\ Sized(s) =>
           \A b \in Bytes(s) : b < sizeofsymbols[p] /\ (NoGarbage(0, s) => 0 <= b)

(***************************************************************************)
(* symbol.h:30 says of sizeofsymbols that it is the total size needed to   *)
(* store all of a table's symbols: the frame covers each variable of the   *)
(* function, however deep the block that declares it.                      *)
(***************************************************************************)
FrameCovers ==
  Finished =>
     \A p \in Functions : \A s \in Symbols :
        Encloses(p, s[1]) /\ Sized(s) => \A b \in Bytes(s) : b < sizeofsymbols[p]
=============================================================================
