------------------------------- MODULE Tables -------------------------------
(***************************************************************************)
(* What the walk that builds the symbol tables (node.c) owes to the walk   *)
(* that lays them out (calculate_offsets in mips.c): a tree of tables.     *)
(***************************************************************************)
EXTENDS Integers, Sequences

(***************************************************************************)
(* A tree has a table for every path in its domain: a record of symbols, a *)
(* sequence, and children, their number.  A symbol has a type, the set of  *)
(* its BIT_ names, and the sizes of its array dimensions, none negative.   *)
(***************************************************************************)
IsTree(t) ==
  /\ <<>> \in DOMAIN t
  /\ \A p \in DOMAIN t :
       /\ p \in Seq(Nat)
       /\ t[p].children \in Nat
       /\ \A k \in 1..t[p].children : Append(p, k) \in DOMAIN t
       /\ Len(t[p].symbols) \in Nat
       /\ \A k \in 1..Len(t[p].symbols) : t[p].symbols[k].dims \in Seq(Nat)
=============================================================================
