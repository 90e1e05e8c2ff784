----------------------------- MODULE Allocation -----------------------------
(***************************************************************************)
(* What register allocation promises, without saying how: every temporary  *)
(* of the list gets a register that no temporary with an overlapping live  *)
(* range has, in any order and by any choice of register; it fails for a   *)
(* temporary only when each register belongs to a temporary whose live     *)
(* range overlaps.                                                         *)
(***************************************************************************)
EXTENDS Ir

CONSTANTS
  Regs,  (* The numbers of the registers $t0, $t1, ...                    *)
  Irs    (* The lists that may be allocated.                              *)

VARIABLES
  irlist,  (* The list at hand.                                           *)
  home,    (* The register of each temporary placed so far.               *)
  failed   (* The temporaries that got none.                              *)

vars == <<irlist, home, failed>>

TypeOK ==
  /\ irlist \in Irs
  /\ home \in [DOMAIN home -> Regs]
  /\ DOMAIN home \subseteq Temps(irlist)
  /\ failed \subseteq Temps(irlist)

Init ==
  /\ irlist \in Irs
  /\ home = [t \in {} |-> 0]
  /\ failed = {}

Unplaced(t) == t \in Temps(irlist) /\ t \notin DOMAIN home /\ t \notin failed

(* Register r belongs to a temporary whose live range overlaps that of t.  *)
Taken(t, r) == \E u \in DOMAIN home : home[u] = r /\ Overlap(irlist, t, u)

Place(t, r) ==
  /\ Unplaced(t)
  /\ ~Taken(t, r)
  /\ home' = [u \in DOMAIN home \cup {t} |-> IF u = t THEN r ELSE home[u]]
  /\ UNCHANGED <<irlist, failed>>

Fail(t) ==
  /\ Unplaced(t)
  /\ \A r \in Regs : Taken(t, r)
  /\ failed' = failed \cup {t}
  /\ UNCHANGED <<irlist, home>>

Next == \E t \in Temps(irlist) : Fail(t) \/ \E r \in Regs : Place(t, r)

Spec == Init /\ [][Next]_vars
=============================================================================
