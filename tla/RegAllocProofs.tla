--------------------------- MODULE RegAllocProofs ---------------------------
(***************************************************************************)
(* Theorems about RegAlloc, for every number of registers and every set of *)
(* well-formed lists.  The inductive invariant says what the walk knows    *)
(* when it has reached irptr; that a mapping once given up is never needed *)
(* again rests on Confined.                                                *)
(***************************************************************************)
EXTENDS RegAlloc, FiniteSetTheorems, TLAPS

(* No node from irptr on mentions t.                                       *)
Dead(t) == \A i \in Occurrences(irlist, t) : i < irptr

(* Every mapped operand occurs in a node already reached.                  *)
Seen == \A t \in DOMAIN rm : \E i \in Occurrences(irlist, t) : i <= irptr

(* Every register operand already passed is mapped.                        *)
Passed(i, k) == i < irptr \/ (i = irptr /\ k < operand)

Met ==
  \A i \in 1..Len(irlist), k \in 1..3 :
     Passed(i, k) /\ IsReg(irlist, i, k) => RegAt(irlist, i, k) \in DOMAIN rm

(* A register in use names a temporary that is mapped to it.               *)
Held ==
  \A j \in Regs : t_registers[j].used =>
     /\ t_registers[j].temp \in Placed
     /\ rm[t_registers[j].temp] = T(j)

(* A temporary that its register no longer names is not needed any more.   *)
Kept ==
  \A t \in Placed : \E j \in Regs :
     /\ rm[t] = T(j)
     /\ \/ t_registers[j].used /\ t_registers[j].temp = t
        \/ Dead(t)

SpilledTemps == spilled \cap Special = {}

(* Where a temporary was spilled, each register had a temporary of its own *)
(* that was live there.                                                    *)
Pressed ==
  \A t \in spilled : \E i \in Occurrences(irlist, t) :
     \A j \in Regs : \E u \in Placed : rm[u] = T(j) /\ LiveAt(u, i)

IInv ==
  /\ TypeOK
  /\ Seen
  /\ Met
  /\ Held
  /\ Kept
  /\ SpilledTemps
  /\ Pressed
  /\ NoClobber

-----------------------------------------------------------------------------
(* Facts about the lists.                                                  *)

LEMMA OccurrenceType ==
  ASSUME NEW t, NEW i \in Occurrences(irlist, t), irlist \in Irs
  PROVE  /\ i \in Int /\ i \in 1..Len(irlist)
         /\ Len(irlist) \in Nat
         /\ t \in Int
         /\ ~IsEos(irlist, i)
         /\ t \notin Special => t \in Temps(irlist)
  <1>1. PICK k \in 1..3 : IsReg(irlist, i, k) /\ RegAt(irlist, i, k) = t
    BY DEF Occurrences, OccursAt
  <1>2. i \in 1..Len(irlist) /\ Len(irlist) \in Nat
    BY IrsAssumption DEF Occurrences
  <1>3. t \in Int
    BY <1>1, <1>2, IrsAssumption
  <1>4. ~IsEos(irlist, i)
    BY <1>1, <1>2, IrsAssumption DEF EosHasNoRegister
  <1>5. t \in UNION {{RegAt(irlist, n, m) : m \in {l \in 1..3 : IsReg(irlist, n, l)}} :
                        n \in 1..Len(irlist)}
    <2>1. t \in {RegAt(irlist, i, m) : m \in {l \in 1..3 : IsReg(irlist, i, l)}}
      BY <1>1
    <2> QED BY <2>1, <1>2
  <1>6. t \notin Special => t \in Temps(irlist)
    BY <1>5, Zenon DEF Temps
  <1> QED BY <1>2, <1>3, <1>4, <1>6

(* No end of statement lies between two occurrences of a temporary.        *)
LEMMA NoEosBetween ==
  ASSUME irlist \in Irs, NEW t, t \notin Special,
         NEW a \in Occurrences(irlist, t), NEW b \in Occurrences(irlist, t),
         NEW e \in a..b
  PROVE  ~IsEos(irlist, e)
  <1>1. t \in Temps(irlist)
    BY OccurrenceType
  <1> QED BY <1>1, IrsAssumption DEF Confined

(* Live ranges one of which ends before the other begins do not overlap.   *)
LEMMA ApartNoOverlap ==
  ASSUME NEW t, NEW u, NEW n \in Int, irlist \in Irs,
         \A i \in Occurrences(irlist, u) : i < n,
         \A i \in Occurrences(irlist, t) : n <= i
  PROVE  ~Overlap(irlist, t, u) /\ ~Overlap(irlist, u, t)
  <1>1. \A a \in Occurrences(irlist, t), d \in Occurrences(irlist, u) : ~(a <= d)
    BY OccurrenceType
  <1> QED BY <1>1 DEF Overlap

-----------------------------------------------------------------------------
(* Facts about one state.                                                  *)

(* A register that is in use but not live names a temporary that is dead:  *)
(* it was seen at or before irptr, and an end of statement cannot hide a   *)
(* later occurrence of it.                                                 *)
LEMMA NotLiveDead ==
  ASSUME IInv, irptr <= Len(irlist), NEW j \in Regs, t_registers[j].used, ~is_live(j)
  PROVE  Dead(t_registers[j].temp)
  <1> DEFINE u == t_registers[j].temp
  <1>1. u \in Placed /\ irlist \in Irs /\ irptr \in Int
    BY DEF IInv, TypeOK, Held
  <1>2. PICK p \in Occurrences(irlist, u) : p <= irptr
    BY <1>1 DEF IInv, Seen, Placed
  <1>3. ASSUME NEW i \in Occurrences(irlist, u), ~(i < irptr)
        PROVE  FALSE
    <2>1. i \in irptr..Len(irlist) /\ p \in Int /\ i \in Int
      BY <1>1, <1>3, <1>2, OccurrenceType
    <2>2. OccursAt(irlist, u, i)
      BY <1>3 DEF Occurrences
    <2>3. PICK e \in irptr..i : IsEos(irlist, e)
      BY <2>1, <2>2 DEF is_live
    <2>4. e \in p..i
      BY <2>1, <2>3, <1>2, <1>1
    <2>5. u \notin Special
      BY <1>1 DEF Placed
    <2> QED BY <2>3, <2>4, <2>5, <1>1, <1>2, <1>3, NoEosBetween
  <1> QED BY <1>3 DEF Dead

(* The operand at hand occurs at irptr, and in no node before it.          *)
LEMMA CurrentIsNew ==
  ASSUME IInv, Unmapped
  PROVE  /\ irptr \in Occurrences(irlist, Current)
         /\ \A i \in Occurrences(irlist, Current) : irptr <= i
         /\ Current \in Int
         /\ Current \notin spilled
  <1>1. irptr \in 1..Len(irlist) /\ operand \in 1..3 /\ irlist \in Irs /\ Len(irlist) \in Nat
    BY IrsAssumption DEF IInv, TypeOK, Unmapped
  <1>2. irptr \in Occurrences(irlist, Current)
    BY <1>1 DEF Unmapped, Current, Occurrences, OccursAt
  <1>3. ASSUME NEW i \in Occurrences(irlist, Current), i < irptr
        PROVE  FALSE
    <2>1. PICK k \in 1..3 : IsReg(irlist, i, k) /\ RegAt(irlist, i, k) = Current
      BY DEF Occurrences, OccursAt
    <2>2. i \in 1..Len(irlist)
      BY DEF Occurrences
    <2>3. Current \in DOMAIN rm
      BY <2>1, <2>2, <1>3 DEF IInv, Met, Passed
    <2> QED BY <2>3 DEF Unmapped
  <1>4. \A i \in Occurrences(irlist, Current) : irptr <= i
    BY <1>1, <1>3, OccurrenceType
  <1>5. Current \in Int
    BY <1>1, <1>2, OccurrenceType
  <1>6. Current \notin spilled
    BY DEF IInv, TypeOK, Unmapped
  <1> QED BY <1>2, <1>4, <1>5, <1>6

(* A temporary placed in a register that is available is dead.             *)
LEMMA AvailableFree ==
  ASSUME IInv, Unmapped, NEW j \in Regs, Available(j),
         NEW u \in Placed, rm[u] = T(j)
  PROVE  Dead(u) /\ ~Overlap(irlist, Current, u) /\ ~Overlap(irlist, u, Current)
  <1>0. irptr <= Len(irlist) /\ irptr \in Int /\ irlist \in Irs
    BY DEF IInv, TypeOK, Unmapped
  <1>1. PICK i \in Regs : /\ rm[u] = T(i)
                         /\ \/ t_registers[i].used /\ t_registers[i].temp = u
                            \/ Dead(u)
    BY DEF IInv, Kept
  <1>2. i = j
    BY <1>1 DEF T
  <1>3. Dead(u)
    BY <1>0, <1>1, <1>2, NotLiveDead DEF Available
  <1>4. \A n \in Occurrences(irlist, u) : n < irptr
    BY <1>3 DEF Dead
  <1>5. \A n \in Occurrences(irlist, Current) : irptr <= n
    BY CurrentIsNew
  <1>6. ~Overlap(irlist, Current, u) /\ ~Overlap(irlist, u, Current)
    BY <1>0, <1>4, <1>5, ApartNoOverlap
  <1> QED BY <1>3, <1>6

(* A register that is not available names a placed temporary whose live    *)
(* range overlaps that of the operand at hand.                             *)
LEMMA UnavailableTaken ==
  ASSUME IInv, Unmapped, NEW j \in Regs, ~Available(j)
  PROVE  \E u \in Placed :
            rm[u] = T(j) /\ Overlap(irlist, Current, u) /\ LiveAt(u, irptr)
  <1> DEFINE u == t_registers[j].temp
  <1>1. u \in Placed /\ rm[u] = T(j) /\ irlist \in Irs /\ irptr \in Int
    BY DEF IInv, TypeOK, Held, Available
  <1>2. PICK p \in Occurrences(irlist, u) : p <= irptr
    BY <1>1 DEF IInv, Seen, Placed
  <1>3. PICK i \in irptr..Len(irlist) : OccursAt(irlist, u, i)
    BY DEF Available, is_live
  <1>4. Len(irlist) \in Nat /\ irptr \in 1..Len(irlist)
    BY IrsAssumption DEF IInv, TypeOK, Unmapped
  <1>5. i \in Occurrences(irlist, u) /\ irptr <= i
    BY <1>3, <1>4 DEF Occurrences
  <1>6. irptr \in Occurrences(irlist, Current)
    BY CurrentIsNew
  <1>7. Overlap(irlist, Current, u)
    BY <1>2, <1>5, <1>6 DEF Overlap
  <1>8. LiveAt(u, irptr)
    BY <1>2, <1>5 DEF LiveAt
  <1> QED BY <1>1, <1>7, <1>8

-----------------------------------------------------------------------------
(* The inductive invariant.                                                *)

LEMMA InitIInv == Init => IInv
  <1> SUFFICES ASSUME Init PROVE IInv
    OBVIOUS
  <1>1. Len(irlist) \in Nat /\ irlist \in Irs
    BY IrsAssumption DEF Init, Start
  <1>2. DOMAIN rm = {} /\ Placed = {}
    BY DEF Init, Start, Placed
  <1>3. TypeOK
    BY <1>1, <1>2 DEF Init, Start, TypeOK, Free
  <1>4. Met
    BY <1>1 DEF Init, Start, Met, Passed
  <1>5. Held
    BY DEF Init, Start, Held, Free
  <1> QED BY <1>2, <1>3, <1>4, <1>5
      DEF IInv, Seen, Kept, NoClobber, SpilledTemps, Pressed, Init, Start

(* A step that spills nothing and lets the placed ones be where they are.  *)
LEMMA PressedStep ==
  ASSUME Pressed, UNCHANGED <<irlist, spilled>>,
         \A u \in Placed : u \in Placed' /\ rm'[u] = rm[u]
  PROVE  Pressed'
  <1>1. ASSUME NEW t \in spilled
        PROVE  \E i \in Occurrences(irlist, t) :
                  \A j \in Regs : \E u \in Placed' : rm'[u] = T(j) /\ LiveAt(u, i)
    <2>1. PICK i \in Occurrences(irlist, t) :
             \A j \in Regs : \E u \in Placed : rm[u] = T(j) /\ LiveAt(u, i)
      BY DEF Pressed
    <2>2. ASSUME NEW j \in Regs
          PROVE  \E u \in Placed' : rm'[u] = T(j) /\ LiveAt(u, i)
      BY <2>1
    <2> QED BY <2>2
  <1>2. \A u, i : LiveAt(u, i)' <=> LiveAt(u, i)
    BY DEF LiveAt
  <1> QED BY <1>1, <1>2 DEF Pressed

(* What setting a mapping for the operand at hand preserves, whatever the  *)
(* name.                                                                   *)
LEMMA MapToStep ==
  ASSUME IInv, Unmapped, NEW name \in Names, MapTo(Current, name),
         operand' = operand + 1, UNCHANGED <<irlist, irptr>>
  PROVE  /\ DOMAIN rm' = DOMAIN rm \cup {Current}
         /\ rm'[Current] = name
         /\ \A t \in DOMAIN rm : rm'[t] = rm[t] /\ t # Current
         /\ operand' \in 1..4
         /\ rm' \in [DOMAIN rm' -> Names]
         /\ DOMAIN rm' \subseteq Int
         /\ Seen'
         /\ Met'
  <1>1. /\ DOMAIN rm' = DOMAIN rm \cup {Current}
        /\ rm'[Current] = name
        /\ \A t \in DOMAIN rm : rm'[t] = rm[t] /\ t # Current
    BY DEF MapTo, Unmapped
  <1>2. operand \in 1..3 /\ irptr \in Int /\ irlist \in Irs
    BY DEF IInv, TypeOK, Unmapped
  <1>3. rm' \in [DOMAIN rm' -> Names] /\ DOMAIN rm' \subseteq Int
    BY CurrentIsNew DEF IInv, TypeOK, MapTo
  <1>4. Seen'
    BY <1>1, <1>2, CurrentIsNew DEF IInv, Seen
  <1>5. Met'
    <2> SUFFICES ASSUME NEW i \in 1..Len(irlist), NEW k \in 1..3,
                        Passed(i, k)', IsReg(irlist, i, k)
                 PROVE  RegAt(irlist, i, k) \in DOMAIN rm'
      BY DEF Met
    <2>1. CASE Passed(i, k)
      BY <2>1, <1>1 DEF IInv, Met
    <2>2. CASE i = irptr /\ k = operand
      BY <2>2, <1>1 DEF Current
    <2> QED BY <2>1, <2>2, <1>2 DEF Passed
  <1> QED BY <1>1, <1>2, <1>3, <1>4, <1>5

LEMMA MapSpecialIInv == IInv /\ MapSpecial => IInv'
  <1> SUFFICES ASSUME IInv, MapSpecial PROVE IInv'
    OBVIOUS
  <1>1. Unmapped /\ Current \in Special /\ UNCHANGED <<irlist, irptr, t_registers, spilled>>
    BY DEF MapSpecial
  <1>2. SpecialName(Current) \in Names
    BY DEF SpecialName, Names
  <1>3. /\ DOMAIN rm' = DOMAIN rm \cup {Current}
        /\ \A t \in DOMAIN rm : rm'[t] = rm[t] /\ t # Current
        /\ operand' \in 1..4 /\ rm' \in [DOMAIN rm' -> Names] /\ DOMAIN rm' \subseteq Int
        /\ Seen' /\ Met'
    BY <1>1, <1>2, MapToStep DEF MapSpecial
  <1>4. Placed' = Placed /\ \A t \in Placed : rm'[t] = rm[t]
    BY <1>1, <1>3 DEF Placed
  <1>5. TypeOK'
    BY <1>1, <1>3 DEF IInv, TypeOK
  <1>6. Held'
    BY <1>1, <1>4 DEF IInv, Held
  <1>7. Kept'
    BY <1>1, <1>4 DEF IInv, Kept, Dead
  <1>8. NoClobber'
    BY <1>1, <1>4 DEF IInv, NoClobber
  <1>9. Pressed'
    BY <1>1, <1>4, PressedStep DEF IInv
  <1> QED BY <1>1, <1>3, <1>5, <1>6, <1>7, <1>8, <1>9 DEF IInv, SpilledTemps

LEMMA MapTempIInv == ASSUME NEW j \in Regs, IInv, MapTemp(j) PROVE IInv'
  <1>1. /\ Unmapped /\ Current \notin Special /\ Available(j)
        /\ UNCHANGED <<irlist, irptr, spilled>>
    BY DEF MapTemp
  <1>2. T(j) \in Names
    BY DEF Names
  <1>3. /\ DOMAIN rm' = DOMAIN rm \cup {Current}
        /\ rm'[Current] = T(j)
        /\ \A t \in DOMAIN rm : rm'[t] = rm[t] /\ t # Current
        /\ operand' \in 1..4 /\ rm' \in [DOMAIN rm' -> Names] /\ DOMAIN rm' \subseteq Int
        /\ Seen' /\ Met'
    BY <1>1, <1>2, MapToStep DEF MapTemp
  <1>4. /\ Placed' = Placed \cup {Current}
        /\ \A t \in Placed : rm'[t] = rm[t] /\ t # Current
    BY <1>1, <1>3, CurrentIsNew DEF Placed
  <1>5. /\ t_registers'[j] = [used |-> TRUE, temp |-> Current]
        /\ \A i \in Regs : i # j => t_registers'[i] = t_registers[i]
        /\ t_registers' \in [Regs -> [used : BOOLEAN, temp : Int]]
    BY CurrentIsNew, <1>1 DEF IInv, TypeOK, MapTemp
  <1>6. TypeOK'
    BY <1>1, <1>3, <1>5 DEF IInv, TypeOK
  <1>7. Held'
    <2> SUFFICES ASSUME NEW i \in Regs, t_registers'[i].used
                 PROVE  /\ t_registers'[i].temp \in Placed'
                        /\ rm'[t_registers'[i].temp] = T(i)
      BY DEF Held
    <2>1. CASE i = j
      BY <2>1, <1>3, <1>4, <1>5
    <2>2. CASE i # j
      BY <2>2, <1>4, <1>5 DEF IInv, Held
    <2> QED BY <2>1, <2>2
  <1>8. Kept'
    <2> SUFFICES ASSUME NEW t \in Placed'
                 PROVE  \E i \in Regs : /\ rm'[t] = T(i)
                                        /\ \/ t_registers'[i].used /\ t_registers'[i].temp = t
                                           \/ Dead(t)'
      BY DEF Kept
    <2>1. CASE t = Current
      BY <2>1, <1>3, <1>5
    <2>2. CASE t \in Placed
      <3>1. PICK i \in Regs : /\ rm[t] = T(i)
                             /\ \/ t_registers[i].used /\ t_registers[i].temp = t
                                \/ Dead(t)
        BY <2>2 DEF IInv, Kept
      <3>2. CASE i = j
        <4>1. Dead(t)
          BY <1>1, <2>2, <3>1, <3>2, AvailableFree
        <4> QED BY <4>1, <3>1, <2>2, <1>4, <1>1 DEF Dead
      <3>3. CASE i # j
        BY <3>1, <3>3, <2>2, <1>1, <1>4, <1>5 DEF Dead
      <3> QED BY <3>2, <3>3
    <2> QED BY <2>1, <2>2, <1>4
  <1>9. NoClobber'
    <2> SUFFICES ASSUME NEW t \in Placed', NEW u \in Placed', t # u, rm'[t] = rm'[u]
                 PROVE  ~Overlap(irlist, t, u)
      BY <1>1 DEF NoClobber
    <2>1. CASE t = Current
      BY <2>1, <1>1, <1>3, <1>4, AvailableFree
    <2>2. CASE u = Current
      BY <2>2, <1>1, <1>3, <1>4, AvailableFree
    <2>3. CASE t # Current /\ u # Current
      BY <2>3, <1>4 DEF IInv, NoClobber
    <2> QED BY <2>1, <2>2, <2>3
  <1>10. Pressed'
    BY <1>1, <1>4, PressedStep DEF IInv
  <1> QED BY <1>1, <1>3, <1>6, <1>7, <1>8, <1>9, <1>10 DEF IInv, SpilledTemps

LEMMA MapJunkIInv == ASSUME NEW name \in Names, IInv, MapJunk(name) PROVE IInv'
  <1>1. /\ Unmapped /\ Current \notin Special /\ UNCHANGED <<irlist, irptr, t_registers>>
        /\ \A j \in Regs : ~Available(j)
    BY DEF MapJunk
  <1>2. /\ DOMAIN rm' = DOMAIN rm \cup {Current}
        /\ \A t \in DOMAIN rm : rm'[t] = rm[t] /\ t # Current
        /\ operand' \in 1..4 /\ rm' \in [DOMAIN rm' -> Names] /\ DOMAIN rm' \subseteq Int
        /\ Seen' /\ Met'
    BY <1>1, MapToStep DEF MapJunk
  <1>3. spilled' = spilled \cup {Current}
    BY DEF MapJunk
  <1>4. Placed' = Placed /\ \A t \in Placed : rm'[t] = rm[t]
    BY <1>1, <1>2, <1>3 DEF Placed
  <1>5. TypeOK'
    BY <1>1, <1>2, <1>3 DEF IInv, TypeOK
  <1>6. Held'
    BY <1>1, <1>4 DEF IInv, Held
  <1>7. Kept'
    BY <1>1, <1>4 DEF IInv, Kept, Dead
  <1>8. NoClobber'
    BY <1>1, <1>4 DEF IInv, NoClobber
  <1>9. Pressed'
    <2>1. ASSUME NEW t \in spilled'
          PROVE  \E i \in Occurrences(irlist, t) :
                    \A j \in Regs : \E u \in Placed : rm[u] = T(j) /\ LiveAt(u, i)
      <3>1. CASE t = Current
        BY <3>1, <1>1, CurrentIsNew, UnavailableTaken
      <3>2. CASE t \in spilled
        BY <3>2 DEF IInv, Pressed
      <3> QED BY <3>1, <3>2, <1>3
    <2>2. \A u, i : LiveAt(u, i)' <=> LiveAt(u, i)
      BY <1>1 DEF LiveAt
    <2>3. ASSUME NEW t \in spilled'
          PROVE  \E i \in Occurrences(irlist, t) :
                    \A j \in Regs : \E u \in Placed' : rm'[u] = T(j) /\ LiveAt(u, i)
      <3>1. PICK i \in Occurrences(irlist, t) :
               \A j \in Regs : \E u \in Placed : rm[u] = T(j) /\ LiveAt(u, i)
        BY <2>1
      <3>2. ASSUME NEW j \in Regs
            PROVE  \E u \in Placed' : rm'[u] = T(j) /\ LiveAt(u, i)
        BY <3>1, <1>4
      <3> QED BY <3>2
    <2> QED BY <1>1, <2>2, <2>3 DEF Pressed
  <1> QED BY <1>1, <1>2, <1>3, <1>5, <1>6, <1>7, <1>8, <1>9 DEF IInv, SpilledTemps

LEMMA SkipOperandIInv == IInv /\ SkipOperand => IInv'
  <1> SUFFICES ASSUME IInv, SkipOperand PROVE IInv'
    OBVIOUS
  <1>1. UNCHANGED <<irlist, irptr, t_registers, rm, spilled>> /\ operand' = operand + 1
    BY DEF SkipOperand
  <1>2. operand \in 1..3 /\ irptr \in Int
    BY DEF IInv, TypeOK, SkipOperand
  <1>3. TypeOK'
    BY <1>1, <1>2 DEF IInv, TypeOK
  <1>4. Met'
    <2> SUFFICES ASSUME NEW i \in 1..Len(irlist), NEW k \in 1..3,
                        Passed(i, k)', IsReg(irlist, i, k)
                 PROVE  RegAt(irlist, i, k) \in DOMAIN rm
      BY <1>1 DEF Met
    <2>1. CASE Passed(i, k)
      BY <2>1 DEF IInv, Met
    <2>2. CASE i = irptr /\ k = operand
      BY <2>2 DEF SkipOperand
    <2> QED BY <2>1, <2>2, <1>1, <1>2 DEF Passed
  <1>5. Pressed'
    BY <1>1, PressedStep DEF IInv, Placed
  <1> QED BY <1>1, <1>3, <1>4, <1>5
      DEF IInv, Seen, Held, Kept, NoClobber, SpilledTemps, Placed, Dead

LEMMA NextNodeIInv == IInv /\ NextNode => IInv'
  <1> SUFFICES ASSUME IInv, NextNode PROVE IInv'
    OBVIOUS
  <1>1. /\ UNCHANGED <<irlist, t_registers, rm, spilled>>
        /\ irptr' = irptr + 1 /\ operand = 4 /\ operand' = 1
    BY DEF NextNode
  <1>2. irptr \in 1..Len(irlist) /\ Len(irlist) \in Nat /\ irlist \in Irs
    BY IrsAssumption DEF IInv, TypeOK, NextNode
  <1>3. TypeOK'
    BY <1>1, <1>2 DEF IInv, TypeOK
  <1>4. Seen'
    BY <1>1, <1>2, OccurrenceType DEF IInv, Seen
  <1>5. Met'
    BY <1>1, <1>2 DEF IInv, Met, Passed
  <1>6. \A t : Dead(t) => Dead(t)'
    BY <1>1, <1>2, OccurrenceType DEF Dead
  <1>7. Kept'
    BY <1>1, <1>6 DEF IInv, Kept, Placed
  <1>8. Pressed'
    BY <1>1, PressedStep DEF IInv, Placed
  <1> QED BY <1>1, <1>3, <1>4, <1>5, <1>7, <1>8
      DEF IInv, Held, NoClobber, SpilledTemps, Placed

LEMMA EndOfStatementIInv == IInv /\ EndOfStatement => IInv'
  <1> SUFFICES ASSUME IInv, EndOfStatement PROVE IInv'
    OBVIOUS
  <1>1. /\ UNCHANGED <<irlist, rm, spilled>> /\ operand' = 1
        /\ irptr' = irptr + 1 /\ t_registers' = Free /\ IsEos(irlist, irptr)
    BY DEF EndOfStatement
  <1>2. irptr \in 1..Len(irlist) /\ Len(irlist) \in Nat /\ irlist \in Irs
    BY IrsAssumption DEF IInv, TypeOK, EndOfStatement
  <1>3. TypeOK'
    BY <1>1, <1>2 DEF IInv, TypeOK, Free
  <1>4. Seen'
    BY <1>1, <1>2, OccurrenceType DEF IInv, Seen
  <1>5. Met'
    <2> SUFFICES ASSUME NEW i \in 1..Len(irlist), NEW k \in 1..3,
                        Passed(i, k)', IsReg(irlist, i, k)
                 PROVE  RegAt(irlist, i, k) \in DOMAIN rm
      BY <1>1 DEF Met
    <2>1. i # irptr
      BY <1>1, <1>2, IrsAssumption DEF EosHasNoRegister
    <2>2. i < irptr
      BY <1>1, <1>2, <2>1 DEF Passed
    <2> QED BY <1>1, <2>2 DEF IInv, Met, Passed
  <1>6. Held'
    BY <1>1 DEF Held, Free
  <1>7. Kept'
    <2> SUFFICES ASSUME NEW t \in Placed
                 PROVE  Dead(t)' /\ \E i \in Regs : rm[t] = T(i)
      BY <1>1 DEF Kept, Placed
    <2>1. PICK p \in Occurrences(irlist, t) : p <= irptr
      BY DEF IInv, Seen, Placed
    <2>2. p < irptr /\ p \in Int
      BY <1>1, <1>2, <2>1, OccurrenceType
    <2>3. ASSUME NEW b \in Occurrences(irlist, t), irptr <= b
          PROVE  FALSE
      <3>1. irptr \in p..b
        BY <1>2, <2>2, <2>3, OccurrenceType
      <3> QED BY <1>1, <1>2, <2>1, <2>3, <3>1, NoEosBetween DEF Placed
    <2>4. Dead(t)'
      BY <1>1, <1>2, <2>3, OccurrenceType DEF Dead
    <2> QED BY <2>4 DEF IInv, Kept
  <1>8. Pressed'
    BY <1>1, PressedStep DEF IInv, Placed
  <1> QED BY <1>1, <1>3, <1>4, <1>5, <1>6, <1>7, <1>8
      DEF IInv, NoClobber, SpilledTemps, Placed

LEMMA StepIInv == IInv /\ [Next]_vars => IInv'
  <1> SUFFICES ASSUME IInv, [Next]_vars PROVE IInv'
    OBVIOUS
  <1>1. CASE MapSpecial
    BY <1>1, MapSpecialIInv
  <1>2. CASE \E j \in Regs : MapTemp(j)
    BY <1>2, MapTempIInv
  <1>3. CASE \E name \in Names : MapJunk(name)
    BY <1>3, MapJunkIInv
  <1>4. CASE SkipOperand
    BY <1>4, SkipOperandIInv
  <1>5. CASE NextNode
    BY <1>5, NextNodeIInv
  <1>6. CASE EndOfStatement
    BY <1>6, EndOfStatementIInv
  <1>7. CASE UNCHANGED vars
    <2>1. Pressed'
      BY <1>7, PressedStep DEF vars, IInv, Placed
    <2> QED BY <1>7, <2>1 DEF vars, IInv, TypeOK, Seen, Met, Passed, Held, Kept, Dead,
                SpilledTemps, NoClobber, Placed, IsReg, RegAt
  <1> QED BY <1>1, <1>2, <1>3, <1>4, <1>5, <1>6, <1>7 DEF Next, setmapping

LEMMA Invariance == Spec => []IInv
  BY InitIInv, StepIInv, PTL DEF Spec

(* The instance reads a list as this module does.                          *)
LEMMA SameReading ==
  /\ Alloc!Temps(irlist) = Temps(irlist)
  /\ \A t, u : Alloc!Overlap(irlist, t, u) = Overlap(irlist, t, u)
  <1>1. Alloc!Temps(irlist) = Temps(irlist)
    BY DEF Temps, Alloc!Temps, IsReg, Alloc!IsReg, RegAt, Alloc!RegAt, Special,
           Alloc!Special, REGISTERZERO, Alloc!REGISTERZERO, REGISTERV0,
           Alloc!REGISTERV0, REGISTERRA, Alloc!REGISTERRA, NOREGISTER, Alloc!NOREGISTER
  <1>2. \A t : Alloc!Occurrences(irlist, t) = Occurrences(irlist, t)
    BY DEF Occurrences, Alloc!Occurrences, OccursAt, Alloc!OccursAt, IsReg, Alloc!IsReg,
           RegAt, Alloc!RegAt
  <1>3. \A t, u : Alloc!Overlap(irlist, t, u) = Overlap(irlist, t, u)
    BY <1>2 DEF Overlap, Alloc!Overlap
  <1> QED BY <1>1, <1>3

-----------------------------------------------------------------------------
(* The theorems.                                                           *)

(***************************************************************************)
(* The allocator's state keeps its types, whatever strbuf holds.           *)
(***************************************************************************)
THEOREM TypeCorrect == Spec => []TypeOK
  <1>1. IInv => TypeOK
    BY DEF IInv
  <1> QED BY <1>1, Invariance, PTL

(***************************************************************************)
(* setmapping never gives one $t register to two temporaries that are live *)
(* together, with any number of registers and on any well-formed list.     *)
(***************************************************************************)
THEOREM NeverClobbers == Spec => []NoClobber
  <1>1. IInv => NoClobber
    BY DEF IInv
  <1> QED BY <1>1, Invariance, PTL

(***************************************************************************)
(* After map_registers, getmapping finds a name for every register operand.*)
(***************************************************************************)
THEOREM NamesAll == Spec => []AllNamed
  <1>1. IInv => AllNamed
    <2> SUFFICES ASSUME IInv, irptr > Len(irlist),
                        NEW i \in 1..Len(irlist), NEW k \in 1..3, IsReg(irlist, i, k)
                 PROVE  RegAt(irlist, i, k) \in DOMAIN rm
      BY DEF AllNamed
    <2>1. i < irptr
      BY IrsAssumption DEF IInv, TypeOK
    <2> QED BY <2>1 DEF IInv, Met, Passed
  <1> QED BY <1>1, Invariance, PTL

(* A list has finitely many temporaries.                                   *)
LEMMA TempsFinite ==
  ASSUME irlist \in Irs
  PROVE  IsFiniteSet(Temps(irlist))
  <1> DEFINE P == (1..Len(irlist)) \X (1..3)
             S == {p \in P : /\ IsReg(irlist, p[1], p[2])
                              /\ RegAt(irlist, p[1], p[2]) \notin Special}
             f == [p \in S |-> RegAt(irlist, p[1], p[2])]
  <1>1. IsFiniteSet(P)
    <2>1. Len(irlist) \in Int
      BY IrsAssumption
    <2>2. \A n \in Int : IsFiniteSet(1..n)
      BY FS_Interval
    <2>3. IsFiniteSet(1..Len(irlist))
      BY <2>1, <2>2, Zenon
    <2>4. PICK n \in Int : n = 3
      OBVIOUS
    <2>5. IsFiniteSet(1..3)
      BY <2>2, <2>4, Zenon
    <2> QED BY <2>3, <2>5, FS_Product
  <1>2. IsFiniteSet(S)
    BY <1>1, FS_Subset
  <1>3. \A p \in S : f[p] \in Temps(irlist)
    <2>1. ASSUME NEW p \in S
          PROVE  f[p] \in Temps(irlist)
      <3>1. /\ p[1] \in 1..Len(irlist) /\ p[2] \in 1..3 /\ IsReg(irlist, p[1], p[2])
            /\ f[p] = RegAt(irlist, p[1], p[2]) /\ f[p] \notin Special
        OBVIOUS
      <3>2. p[1] \in Occurrences(irlist, f[p])
        BY <3>1 DEF Occurrences, OccursAt
      <3> QED BY <3>1, <3>2, OccurrenceType
    <2> QED BY <2>1
  <1>4. ASSUME NEW t \in Temps(irlist)
        PROVE  \E p \in S : f[p] = t
    <2>1. PICK i \in 1..Len(irlist), k \in 1..3 : IsReg(irlist, i, k) /\ RegAt(irlist, i, k) = t
      BY DEF Temps
    <2>2. t \notin Special
      BY DEF Temps
    <2>3. <<i, k>> \in S /\ f[<<i, k>>] = t
      BY <2>1, <2>2
    <2> QED BY <2>3
  <1>5. f \in Surjection(S, Temps(irlist))
    BY <1>3, <1>4 DEF Surjection
  <1> QED BY <1>2, <1>5, FS_Surjection

(***************************************************************************)
(* A temporary is spilled only where more than NREG temporaries are live:  *)
(* setmapping needs no more registers than there are values to be kept at  *)
(* once, in however long a statement and with whichever register chosen.   *)
(***************************************************************************)
THEOREM NeverSpillsEarly == Spec => []SpillsUnderPressure
  <1>1. IInv => SpillsUnderPressure
    <2> SUFFICES ASSUME IInv, NEW t \in spilled
                 PROVE  \E i \in Occurrences(irlist, t) : Cardinality(Live(i)) > NREG
      BY DEF SpillsUnderPressure
    <2>1. PICK i \in Occurrences(irlist, t) :
             \A j \in Regs : \E u \in Placed : rm[u] = T(j) /\ LiveAt(u, i)
      BY DEF IInv, Pressed
    <2>2. irlist \in Irs /\ t \notin Placed /\ t \notin Special
      BY DEF IInv, TypeOK, Placed, SpilledTemps
    <2>3. i \in Int
      BY <2>2, OccurrenceType
    <2>4. t \in Live(i)
      BY <2>2, <2>3, OccurrenceType DEF Live, LiveAt
    <2> DEFINE f == [j \in 0..NREG |-> IF j = NREG THEN t
                                       ELSE CHOOSE u \in Placed : rm[u] = T(j) /\ LiveAt(u, i)]
    <2>5. ASSUME NEW j \in Regs
          PROVE  f[j] \in Placed /\ rm[f[j]] = T(j) /\ f[j] \in Live(i)
      <3>1. f[j] = CHOOSE u \in Placed : rm[u] = T(j) /\ LiveAt(u, i)
        BY NREGAssumption DEF Regs
      <3>2. f[j] \in Placed /\ rm[f[j]] = T(j) /\ LiveAt(f[j], i)
        BY <2>1, <3>1
      <3>3. PICK a \in Occurrences(irlist, f[j]) : TRUE
        BY <3>2 DEF LiveAt
      <3>4. f[j] \in Temps(irlist)
        BY <2>2, <3>2, <3>3, OccurrenceType DEF Placed
      <3> QED BY <3>2, <3>4 DEF Live
    <2>6. f[NREG] = t /\ \A j \in 0..NREG : j = NREG \/ j \in Regs
      BY NREGAssumption DEF Regs
    <2>7. f \in [0..NREG -> Live(i)]
      BY <2>4, <2>5, <2>6
    <2>8. ASSUME NEW j \in 0..NREG, NEW k \in 0..NREG, f[j] = f[k]
          PROVE  j = k
      <3>1. CASE j \in Regs /\ k \in Regs
        <4>1. T(j) = T(k)
          BY <2>5, <2>8, <3>1
        <4> QED BY <4>1 DEF T
      <3>2. CASE j = NREG /\ k \in Regs
        BY <2>2, <2>5, <2>6, <2>8, <3>2
      <3>3. CASE j \in Regs /\ k = NREG
        BY <2>2, <2>5, <2>6, <2>8, <3>3
      <3> QED BY <2>6, <3>1, <3>2, <3>3
    <2>9. IsFiniteSet(Live(i)) /\ Cardinality(Live(i)) \in Nat
      BY <2>2, TempsFinite, FS_Subset, FS_CardinalityType DEF Live
    <2>10. IsFiniteSet(0..NREG) /\ Cardinality(0..NREG) = NREG + 1
      BY NREGAssumption, FS_Interval
    <2>11. ~(Cardinality(Live(i)) < Cardinality(0..NREG))
      BY <2>7, <2>8, <2>9, <2>10, FS_PigeonHole
    <2> QED BY <2>9, <2>10, <2>11, NREGAssumption
  <1> QED BY <1>1, Invariance, PTL

(***************************************************************************)
(* map_registers implements Allocation: each mapping it makes is a choice  *)
(* that specification allows, and a temporary gets no register of its own  *)
(* only where every register belongs to an overlapping live range.         *)
(***************************************************************************)
THEOREM Implements == Spec => IsAllocation
  <1>1. Init => Alloc!Init
    <2> SUFFICES ASSUME Init PROVE Alloc!Init
      OBVIOUS
    <2>1. Placed = {}
      BY DEF Init, Start, Placed
    <2> QED BY <2>1 DEF Init, Start, Home, Alloc!Init
  <1>2. IInv /\ [Next]_vars => [Alloc!Next]_(Alloc!vars)
    <2> SUFFICES ASSUME IInv, [Next]_vars PROVE [Alloc!Next]_(Alloc!vars)
      OBVIOUS
    <2>1. CASE MapSpecial
      <3>1. Placed' = Placed /\ \A t \in Placed : rm'[t] = rm[t]
        BY <2>1 DEF MapSpecial, MapTo, Placed, Unmapped
      <3>2. Home' = Home
        BY <3>1 DEF Home
      <3> QED BY <2>1, <3>2 DEF MapSpecial, Alloc!vars
    <2>2. ASSUME NEW j \in Regs, MapTemp(j) PROVE Alloc!Next
      <3>1. Unmapped /\ Current \notin Special /\ Available(j) /\ UNCHANGED <<irlist, spilled>>
        BY <2>2 DEF MapTemp
      <3>2. Current \in Temps(irlist) /\ irlist \in Irs
        BY <3>1, CurrentIsNew, OccurrenceType DEF IInv, TypeOK
      <3>3. DOMAIN Home = Placed /\ Current \notin Placed
        BY <3>1 DEF Home, Placed, Unmapped
      <3>4. Alloc!Unplaced(Current)
        BY <3>1, <3>2, <3>3, CurrentIsNew, SameReading DEF Alloc!Unplaced
      <3>5. ASSUME NEW u \in Placed, Home[u] = j PROVE ~Overlap(irlist, Current, u)
        <4>1. rm[u] = T(j)
          BY <3>5 DEF IInv, Kept, Home, T
        <4> QED BY <4>1, <3>1, AvailableFree
      <3>6. ~Alloc!Taken(Current, j)
        BY <3>3, <3>5, SameReading DEF Alloc!Taken
      <3>7. /\ Placed' = Placed \cup {Current}
            /\ \A t \in Placed : rm'[t] = rm[t] /\ t # Current
            /\ rm'[Current] = T(j)
        BY <2>2, <3>1, CurrentIsNew DEF MapTemp, MapTo, Placed, Unmapped
      <3>8. Home' = [u \in DOMAIN Home \cup {Current} |-> IF u = Current THEN j ELSE Home[u]]
        BY <3>3, <3>7 DEF Home, T
      <3>9. Alloc!Place(Current, j)
        BY <3>1, <3>4, <3>6, <3>8 DEF Alloc!Place
      <3> QED BY <3>2, <3>9, SameReading DEF Alloc!Next
    <2>3. ASSUME NEW name \in Names, MapJunk(name) PROVE Alloc!Next
      <3>1. /\ Unmapped /\ Current \notin Special /\ UNCHANGED irlist
            /\ spilled' = spilled \cup {Current}
            /\ \A j \in Regs : ~Available(j)
        BY <2>3 DEF MapJunk
      <3>2. Current \in Temps(irlist)
        BY <3>1, CurrentIsNew, OccurrenceType DEF IInv, TypeOK
      <3>3. DOMAIN Home = Placed /\ Current \notin Placed
        BY <3>1 DEF Home, Placed, Unmapped
      <3>4. Alloc!Unplaced(Current)
        BY <3>1, <3>2, <3>3, CurrentIsNew, SameReading DEF Alloc!Unplaced
      <3>5. \A j \in Regs : Alloc!Taken(Current, j)
        BY <3>1, <3>3, UnavailableTaken, SameReading DEF Alloc!Taken, Home, T
      <3>6. Placed' = Placed /\ \A t \in Placed : rm'[t] = rm[t]
        BY <2>3, <3>1 DEF MapJunk, MapTo, Placed, Unmapped
      <3>7. Home' = Home
        BY <3>6 DEF Home
      <3>8. Alloc!Fail(Current)
        BY <3>1, <3>4, <3>5, <3>7 DEF Alloc!Fail
      <3> QED BY <3>2, <3>8, SameReading DEF Alloc!Next
    <2>4. CASE SkipOperand \/ NextNode \/ EndOfStatement \/ UNCHANGED vars
      <3>1. UNCHANGED <<irlist, rm, spilled>>
        BY <2>4 DEF SkipOperand, NextNode, EndOfStatement, vars
      <3> QED BY <3>1 DEF Home, Placed, Alloc!vars
    <2> QED BY <2>1, <2>2, <2>3, <2>4 DEF Next, setmapping
  <1> QED BY <1>1, <1>2, Invariance, PTL DEF Spec, IsAllocation, Alloc!Spec
=============================================================================
