---------------------------- MODULE ScopeProofs -----------------------------
(***************************************************************************)
(* What the symbol tables of a tidy program contain: every identifier is   *)
(* tied to the right symbol, every symbol is in the table of the part of   *)
(* the program that declares it, and the parameters of a function are      *)
(* counted and come first.  The invariant speaks of what the walk has done *)
(* only: a map T takes each part of the program that was entered, the file *)
(* scope, functions and blocks, to its table, and the parts that are open  *)
(* at the moment are the way from the file scope to the current table.     *)
(***************************************************************************)
EXTENDS SymTabProofs

-----------------------------------------------------------------------------
(* The tables of the parts of the program, and the table of the moment.    *)

(* d is what the walk has done when it comes to h.                         *)
IsTime(d, h) == OnPath(h) /\ d = {v \in Visits : Past(v, h)}

(* The parts whose tables were opened, with the file scope, and those that *)
(* are open.                                                               *)
Keyed(d)     == {<<>>} \cup {s \in Keys : Opener(s) \in d}
IsOpen(d, s) == s = <<>> \/ (s \in Keys /\ Opener(s) \in d /\ Closer(s) \notin d)

(* T has the table of each of them: a function's is right below the file   *)
(* scope, a block has its own, below that of its function.                 *)
Mapped(T, d, ts) ==
  /\ DOMAIN T = Keyed(d) /\ T[<<>>] = <<>>
  /\ \A s \in Keyed(d) : T[s] \in DOMAIN ts
  /\ \A s \in Keyed(d) : s \in Functions => Len(T[s]) = 1
  /\ \A b \in Keyed(d) : b \in Blocks => Len(T[b]) >= 2 /\ \A s \in Keyed(d) : T[s] = T[b] => s = b
  /\ \A b \in Keyed(d) : \A D \in Keyed(d) :
       b \in Blocks /\ D \in Definitions /\ IsWithin(b, Right(D)) => T[b][1] = T[D][1]

(* The open ones are the way to the table of the moment, p.                *)
Nested(T, d, p) ==
  /\ \A s : IsOpen(d, s) => Len(T[s]) <= Len(p) /\ SubSeq(p, 1, Len(T[s])) = T[s]
  /\ \A j \in 0..Len(p) : \E s : IsOpen(d, s) /\ Len(T[s]) = j
  /\ \A s, t : IsOpen(d, s) /\ IsOpen(d, t) /\ IsWithin(s, t) => Len(T[t]) < Len(T[s])

(* What is open is keyed.                                                  *)
LEMMA OpenKeyed ==
  ASSUME NEW d, NEW s, IsOpen(d, s)
  PROVE  s \in Keyed(d)
BY DEF IsOpen, Keyed

(* A path to a table is one of numbers.                                    *)
LEMMA TablePath ==
  ASSUME NEW ts, GoodTables(ts), NEW p, p \in DOMAIN ts
  PROVE  p \in Seq(Numbers) /\ Len(p) \in Nat /\ (p # <<>> => Parent(p) \in DOMAIN ts)
<1>1. p \in Seq(Numbers) /\ \A k \in 0..Len(p) : SubSeq(p, 1, k) \in DOMAIN ts
      BY DEF GoodTables, IsFamily
<1>2. Len(p) \in Nat
      BY <1>1, LenProperties
<1>3. p # <<>> => Len(p) - 1 \in 0..Len(p)
      BY <1>1, <1>2, EmptySeq
<1>4. QED
      BY <1>1, <1>2, <1>3 DEF Parent

(* Of a part that is opened or left, and one that is open, the one is in   *)
(* the other.                                                              *)
LEMMA OpensWithin ==
  ASSUME Tidy(tree), NEW d, NEW h, IsTime(d, h), NEW s \in Keys, NEW t \in Keys, s # t,
         h = Opener(s) \/ h = Closer(s), IsOpen(d, t)
  PROVE  IsWithin(s, t)
<1>1. /\ s \in Seq(Steps) /\ t \in Seq(Steps) /\ s # <<>> /\ t # <<>>
      BY KeyFacts
<1>2. /\ Opener(s) \in Visits /\ Closer(s) \in Visits /\ Opener(t) \in Visits /\ Closer(t) \in Visits
      /\ Past(Opener(s), Closer(s)) /\ Past(Opener(t), Closer(t))
      BY KeyTimes
<1>3. /\ OnPath(Opener(s)) /\ OnPath(Closer(s)) /\ OnPath(Opener(t)) /\ OnPath(Closer(t)) /\ OnPath(h)
      BY <1>2, VisitFacts DEF IsTime
<1>4. Past(Opener(t), h) /\ ~Past(Closer(t), h)
      BY <1>1, <1>2 DEF IsOpen, IsTime
<1>5. ~IsWithin(t, s)
      <2>1. IsWithin(t, s) => Past(Opener(s), Opener(t)) /\ Past(Closer(t), Closer(s))
            BY KeysOrder
      <2>2. QED
            BY <1>3, <1>4, <2>1, PastAsymmetric
<1>6. ~Before(s, t)
      <2>1. SUFFICES ASSUME Past(Closer(s), Opener(t)) PROVE FALSE
            BY KeysOrder
      <2>2. Past(Opener(s), Opener(t))
            BY <1>2, <1>3, <2>1, PastTransitive
      <2>3. QED
            BY <1>3, <1>4, <2>1, <2>2, PastAsymmetric
<1>7. ~Before(t, s)
      <2>1. SUFFICES ASSUME Past(Closer(t), Opener(s)) PROVE FALSE
            BY KeysOrder
      <2>2. Past(Closer(t), Closer(s))
            BY <1>2, <1>3, <2>1, PastTransitive
      <2>3. QED
            BY <1>4, <2>1, <2>2
<1>8. QED
      BY <1>1, <1>5, <1>6, <1>7, Apart, BelowOrder

(* A table is opened: a block's below the table of the moment, a           *)
(* function's when that is the file scope.                                 *)
OpensAt(s, ts, p, us, q, c) ==
  /\ DOMAIN ts \subseteq DOMAIN us /\ q \in DOMAIN us /\ c \in Numbers
  /\ s \in Blocks    => q = Append(p, c) /\ q \notin DOMAIN ts
  /\ s \in Functions => q = <<c>>

(* Opening the table of a part keeps the map from parts to tables and the  *)
(* nesting of the open ones, with the new part in it.                      *)
LEMMA Opening ==
  ASSUME Tidy(tree), NEW d, NEW h, IsTime(d, h), NEW s \in Keys, h = Opener(s),
         NEW T, NEW ts, NEW p, Mapped(T, d, ts), Nested(T, d, p), GoodTables(ts), p \in DOMAIN ts,
         NEW us, NEW q, NEW c, OpensAt(s, ts, p, us, q, c),
         NEW e, e = d \cup ({h} \cap Visits), NEW U, U = Put(T, s, q)
  PROVE  /\ s \in Functions => p = <<>>
         /\ Mapped(U, e, us) /\ Nested(U, e, q)
         /\ s \notin Keyed(d) /\ Keyed(e) = Keyed(d) \cup {s}
         /\ U[s] = q /\ \A t \in Keyed(d) : t # s /\ U[t] = T[t]
<1>. /\ DOMAIN ts \subseteq DOMAIN us /\ q \in DOMAIN us /\ c \in Numbers
     /\ s \in Blocks    => q = Append(p, c) /\ q \notin DOMAIN ts
     /\ s \in Functions => q = <<c>>
     BY DEF OpensAt
<1>1. /\ h \in Visits /\ OnPath(h) /\ Past(h, Closer(s)) /\ OnPath(Closer(s))
      /\ s \in Seq(Steps) /\ s # <<>>
      BY KeyTimes, VisitFacts, KeyFacts
<1>2. h \notin d /\ Closer(s) \notin d /\ Closer(s) # h
      BY <1>1, PastAsymmetric, PastIrreflexive DEF IsTime
<1>3. s \notin Keyed(d) /\ Keyed(e) = Keyed(d) \cup {s}
      BY <1>1, <1>2, KeysDiffer DEF Keyed
<1>4. \A t : IsOpen(e, t) <=> IsOpen(d, t) \/ t = s
      <2>1. ASSUME NEW t \in Keys, t # s PROVE IsOpen(e, t) <=> IsOpen(d, t)
            BY <2>1, KeysDiffer DEF IsOpen
      <2>2. IsOpen(e, s)
            BY <1>1, <1>2 DEF IsOpen
      <2>3. QED
            BY <2>1, <2>2 DEF IsOpen
<1>5. U[s] = q /\ DOMAIN U = Keyed(e) /\ \A t \in Keyed(d) : t # s /\ U[t] = T[t]
      BY <1>3 DEF Put, Mapped
<1>6. \A t : IsOpen(d, t) => t \in Keyed(d) /\ t # s
      BY <1>3, OpenKeyed
<1>7. ASSUME NEW t \in Keys, IsOpen(d, t) PROVE IsWithin(s, t)
      BY <1>6, <1>7, OpensWithin
<1>8. p \in Seq(Numbers) /\ Len(p) \in Nat
      BY TablePath
<1>9. ASSUME s \in Functions PROVE p = <<>>
      <2>1. \A t : IsOpen(d, t) => t = <<>>
            <3>1. ASSUME NEW t \in Keys, IsOpen(d, t) PROVE FALSE
                  BY <1>7, <1>9, <3>1, KeysNest, FunctionFacts
            <3>2. QED
                  BY <3>1 DEF IsOpen
      <2>2. Len(p) \in 0..Len(p)
            BY <1>8
      <2>3. Len(T[<<>>]) = Len(p)
            BY <2>1, <2>2 DEF Nested
      <2>4. Len(p) = 0
            BY <2>3 DEF Mapped
      <2>5. QED
            BY <1>8, <2>4, EmptySeq
<1>10. q = Append(p, c) /\ Len(q) = Len(p) + 1 /\ SubSeq(q, 1, Len(q)) = q /\ \A k \in 0..Len(p) : SubSeq(q, 1, k) = SubSeq(p, 1, k)
       <2>1. q = Append(p, c)
             <3>1. s \in Functions => q = Append(p, c)
                   <4>1. Append(<<>>, c) = <<c>>
                         OBVIOUS
                   <4>2. QED
                         BY <1>9, <4>1
             <3>2. QED
                   BY <3>1 DEF Keys
       <2>2. q \in Seq(Numbers)
             BY <1>8, <2>1, ChildPath
       <2>3. QED
             BY <1>8, <2>1, <2>2, ChildPath, SubSeqFull
<1>11. q[1] = IF p = <<>> THEN c ELSE p[1]
       <2>1. p = <<>> => q[1] = c
             BY <1>10
       <2>2. p # <<>> => 1 \in 1..Len(p)
             BY <1>8
       <2>3. p # <<>> => q[1] = p[1]
             BY <1>8, <1>10, <2>2, AppendProperties
       <2>4. QED
             BY <2>1, <2>3
<1>12. Nested(U, e, q)
       <2>1. ASSUME NEW t, IsOpen(e, t)
             PROVE  Len(U[t]) <= Len(q) /\ SubSeq(q, 1, Len(U[t])) = U[t]
             <3>1. CASE t = s
                   <4>1. U[t] = q /\ Len(q) <= Len(q)
                         BY <1>5, <1>8, <1>10, <3>1
                   <4>2. QED
                         BY <1>10, <4>1
             <3>2. CASE IsOpen(d, t)
                   <4>1. U[t] = T[t]
                         BY <1>5, <1>6, <3>2
                   <4>2. Len(T[t]) <= Len(p) /\ SubSeq(p, 1, Len(T[t])) = T[t]
                         BY <3>2 DEF Nested
                   <4>3. Len(T[t]) \in Nat
                         BY <1>6, <3>2, TablePath DEF Mapped
                   <4>4. QED
                         BY <1>8, <1>10, <4>1, <4>2, <4>3
             <3>3. QED
                   BY <1>4, <2>1, <3>1, <3>2
       <2>2. ASSUME NEW j \in 0..Len(q) PROVE \E t : IsOpen(e, t) /\ Len(U[t]) = j
             <3>1. CASE j = Len(q)
                   BY <1>4, <1>5, <3>1
             <3>2. CASE j # Len(q)
                   <4>1. j \in 0..Len(p)
                         BY <1>8, <1>10, <3>2
                   <4>2. PICK t : IsOpen(d, t) /\ Len(T[t]) = j
                         BY <4>1 DEF Nested
                   <4>3. QED
                         BY <1>4, <1>5, <1>6, <4>2
             <3>3. QED
                   BY <3>1, <3>2
       <2>3. ASSUME NEW r, NEW t, IsOpen(e, r), IsOpen(e, t), IsWithin(r, t)
             PROVE  Len(U[t]) < Len(U[r])
             <3>1. CASE r = s
                   <4>1. t # s
                         BY <1>1, <2>3, <3>1, BelowOrder
                   <4>2. IsOpen(d, t)
                         BY <1>4, <2>3, <4>1
                   <4>3. Len(T[t]) <= Len(p) /\ Len(T[t]) \in Nat
                         BY <1>6, <4>2, TablePath DEF Nested, Mapped
                   <4>4. U[t] = T[t] /\ U[r] = q
                         BY <1>5, <1>6, <3>1, <4>2
                   <4>5. Len(T[t]) < Len(q)
                         BY <1>8, <1>10, <4>3
                   <4>6. QED
                         BY <4>4, <4>5
             <3>2. CASE r # s /\ t = s
                   <4>1. IsOpen(d, r)
                         BY <1>4, <2>3, <3>2
                   <4>2. r # <<>>
                         <5>1. ~IsWithin(<<>>, s)
                               BY <1>1, TidyRoot, WithinParent
                         <5>2. QED
                               BY <2>3, <3>2, <5>1
                   <4>3. r \in Keys
                         BY <4>1, <4>2 DEF IsOpen
                   <4>4. IsWithin(s, r) /\ r \in Seq(Steps)
                         BY <1>7, <4>1, <4>3, KeyFacts
                   <4>5. QED
                         BY <1>1, <2>3, <3>2, <4>4, BelowOrder
             <3>3. CASE r # s /\ t # s
                   <4>1. IsOpen(d, r) /\ IsOpen(d, t)
                         BY <1>4, <2>3, <3>3
                   <4>2. QED
                         BY <1>5, <1>6, <2>3, <4>1 DEF Nested
             <3>4. QED
                   BY <3>1, <3>2, <3>3
       <2>4. QED
             BY <2>1, <2>2, <2>3 DEF Nested
<1>13. ASSUME NEW D \in Definitions, IsWithin(s, Right(D))
       PROVE  D \in Keyed(d) /\ p # <<>> /\ q[1] = T[D][1]
       <2>1. D \in Keys /\ D \in Seq(Steps) /\ D \in Functions
             BY DefinitionFacts DEF Keys
       <2>2. IsWithin(s, D)
             <3>1. Right(D) \in Seq(Steps)
                   BY <2>1, BelowChildren
             <3>2. AtOrBelow(s, Right(D))
                   BY <1>1, <1>13, <3>1, BelowOrder
             <3>3. QED
                   BY <1>1, <2>1, <3>2, BelowChildren
       <2>3. Past(Opener(D), h) /\ Past(Closer(s), Closer(D)) /\ Opener(D) \in Visits /\ OnPath(Closer(D))
             BY <2>1, <2>2, KeysOrder, KeyTimes, VisitFacts
       <2>4. Past(h, Closer(D))
             BY <1>1, <2>3, PastTransitive
       <2>5. IsOpen(d, D)
             BY <1>1, <2>1, <2>3, <2>4, PastAsymmetric DEF IsOpen, IsTime
       <2>6. D \in Keyed(d)
             BY <2>5, OpenKeyed
       <2>7. Len(T[D]) = 1 /\ Len(T[D]) <= Len(p) /\ SubSeq(p, 1, 1) = T[D]
             BY <2>1, <2>5, <2>6 DEF Mapped, Nested
       <2>8. p # <<>>
             BY <1>8, <2>7
       <2>9. SubSeq(p, 1, 1)[1] = p[1]
             BY <1>8, <2>7, PartPath
       <2>10. QED
             BY <1>11, <2>6, <2>7, <2>8, <2>9
<1>14. Mapped(U, e, us)
       <2>1. U[<<>>] = <<>> /\ \A t \in Keyed(e) : U[t] \in DOMAIN us
             <3>1. <<>> \in Keyed(d)
                   BY DEF Keyed
             <3>2. QED
                   BY <1>3, <1>5, <3>1 DEF Mapped
       <2>2. ASSUME NEW t \in Keyed(e), t \in Functions PROVE Len(U[t]) = 1
             <3>1. CASE t = s
                   <4>1. q = <<c>>
                         BY <2>2, <3>1
                   <4>2. QED
                         BY <1>5, <3>1, <4>1
             <3>2. CASE t # s
                   BY <1>3, <1>5, <2>2, <3>2 DEF Mapped
             <3>3. QED
                   BY <3>1, <3>2
       <2>3. ASSUME s \in Blocks PROVE Len(q) >= 2 /\ q \notin DOMAIN ts
             <3>1. PICK D \in Definitions : IsWithin(s, Right(D))
                   BY <2>3, BlockFacts
             <3>2. p # <<>>
                   BY <1>13, <3>1
             <3>3. Len(p) # 0
                   BY <1>8, <3>2, EmptySeq
             <3>4. QED
                   BY <1>8, <1>10, <2>3, <3>3
       <2>4. ASSUME NEW b \in Keyed(e), b \in Blocks
             PROVE  Len(U[b]) >= 2 /\ \A t \in Keyed(e) : U[t] = U[b] => t = b
             <3>1. CASE b = s
                   <4>1. \A t \in Keyed(d) : U[t] \in DOMAIN ts
                         BY <1>5 DEF Mapped
                   <4>2. QED
                         BY <1>3, <1>5, <2>3, <2>4, <3>1, <4>1
             <3>2. CASE b # s
                   <4>1. b \in Keyed(d) /\ U[b] = T[b]
                         BY <1>3, <1>5, <2>4, <3>2
                   <4>2. Len(T[b]) >= 2 /\ T[b] \in DOMAIN ts
                         BY <2>4, <4>1 DEF Mapped
                   <4>3. q # T[b]
                         <5>1. s \in Functions => Len(q) = 1
                               BY <1>5, <1>3, <2>2
                         <5>2. s \in Functions => q # T[b]
                               <6>1. SUFFICES ASSUME s \in Functions, q = T[b] PROVE FALSE
                                     OBVIOUS
                               <6>2. Len(q) = 1
                                     BY <5>1, <6>1
                               <6>3. Len(q) >= 2
                                     BY <4>2, <6>1
                               <6>4. QED
                                     BY <6>2, <6>3
                         <5>3. QED
                               BY <2>3, <4>2, <5>2 DEF Keys
                   <4>4. QED
                         BY <1>3, <1>5, <2>4, <4>1, <4>2, <4>3 DEF Mapped
             <3>3. QED
                   BY <3>1, <3>2
       <2>5. ASSUME NEW b \in Keyed(e), NEW D \in Keyed(e), b \in Blocks, D \in Definitions,
                    IsWithin(b, Right(D))
             PROVE  U[b][1] = U[D][1]
             <3>1. CASE b = s
                   BY <1>5, <1>13, <2>5, <3>1
             <3>2. CASE b # s /\ D = s
                   <4>1. b \in Keyed(d) /\ b \in Seq(Steps) /\ b # <<>> /\ b \in Keys
                         BY <1>3, <2>5, <3>2, BlockFacts
                   <4>2. Opener(b) \in d
                         BY <4>1 DEF Keyed
                   <4>3. Right(s) \in Seq(Steps)
                         BY <1>1, BelowChildren
                   <4>4. AtOrBelow(b, Right(s))
                         BY <2>5, <3>2, <4>1, <4>3, BelowOrder
                   <4>5. IsWithin(b, s)
                         BY <1>1, <4>1, <4>4, BelowChildren
                   <4>6. Past(h, Opener(b)) /\ OnPath(Opener(b))
                         BY <4>1, <4>5, KeysOrder, KeyTimes, VisitFacts
                   <4>7. QED
                         BY <1>1, <4>2, <4>6, PastAsymmetric DEF IsTime
             <3>3. CASE b # s /\ D # s
                   <4>1. b \in Keyed(d) /\ D \in Keyed(d)
                         BY <1>3, <2>5, <3>3
                   <4>2. U[b] = T[b] /\ U[D] = T[D]
                         BY <1>5, <4>1
                   <4>3. T[b][1] = T[D][1]
                         BY <2>5, <4>1 DEF Mapped
                   <4>4. QED
                         BY <4>2, <4>3
             <3>4. QED
                   BY <3>1, <3>2, <3>3
       <2>6. \A t \in Keyed(e) : t \in Functions => Len(U[t]) = 1
             BY <2>2
       <2>7. \A b \in Keyed(e) : b \in Blocks => Len(U[b]) >= 2 /\ \A t \in Keyed(e) : U[t] = U[b] => t = b
             BY <2>4
       <2>8. \A b \in Keyed(e) : \A D \in Keyed(e) :
               b \in Blocks /\ D \in Definitions /\ IsWithin(b, Right(D)) => U[b][1] = U[D][1]
             <3>1. TAKE b \in Keyed(e)
             <3>2. TAKE D \in Keyed(e)
             <3>3. HAVE b \in Blocks /\ D \in Definitions /\ IsWithin(b, Right(D))
             <3>4. QED
                   BY <2>5, <3>3
       <2>9. DOMAIN U = Keyed(e)
             BY <1>5
       <2>10. QED
              BY <2>1, <2>6, <2>7, <2>8, <2>9 DEF Mapped
<1>15. QED
       BY <1>3, <1>5, <1>9, <1>12, <1>14

(* The table that is left is that of the moment.                           *)
LEMMA Closing ==
  ASSUME Tidy(tree), NEW d, NEW h, IsTime(d, h), NEW s \in Keys, h = Closer(s),
         NEW T, NEW ts, NEW p, Mapped(T, d, ts), Nested(T, d, p), GoodTables(ts), p \in DOMAIN ts,
         NEW e, e = d \cup ({h} \cap Visits)
  PROVE  /\ IsOpen(d, s) /\ T[s] = p /\ p # <<>> /\ Keyed(e) = Keyed(d)
         /\ Mapped(T, e, ts) /\ Nested(T, e, Parent(p))
<1>1. /\ h \in Visits /\ OnPath(h) /\ Past(Opener(s), h) /\ Opener(s) \in Visits
      /\ s \in Seq(Steps) /\ s # <<>>
      BY KeyTimes, VisitFacts, KeyFacts
<1>2. h \notin d /\ Opener(s) \in d
      BY <1>1, PastIrreflexive DEF IsTime
<1>3. IsOpen(d, s) /\ s \in Keyed(d)
      BY <1>1, <1>2 DEF IsOpen, Keyed
<1>4. Keyed(e) = Keyed(d)
      BY <1>2, KeysDiffer DEF Keyed
<1>5. \A t : IsOpen(e, t) <=> IsOpen(d, t) /\ t # s
      <2>1. ASSUME NEW t \in Keys, t # s PROVE IsOpen(e, t) <=> IsOpen(d, t)
            BY <2>1, KeysDiffer DEF IsOpen
      <2>2. ~IsOpen(e, s)
            BY <1>1 DEF IsOpen
      <2>3. QED
            BY <1>1, <2>1, <2>2 DEF IsOpen
<1>6. ASSUME NEW t, IsOpen(d, t), t # s PROVE IsWithin(s, t)
      <2>1. CASE t = <<>>
            BY <1>1, <2>1, TidyRoot, BelowOrder
      <2>2. CASE t # <<>>
            BY <1>6, <2>2, OpensWithin DEF IsOpen
      <2>3. QED
            BY <2>1, <2>2
<1>7. p \in Seq(Numbers) /\ Len(p) \in Nat
      BY TablePath
<1>8. \A t : IsOpen(d, t) => T[t] \in Seq(Numbers) /\ Len(T[t]) \in Nat
      BY OpenKeyed, TablePath DEF Mapped
<1>9. Len(T[s]) = Len(p)
      <2>1. Len(p) \in 0..Len(p)
            BY <1>7
      <2>2. PICK t : IsOpen(d, t) /\ Len(T[t]) = Len(p)
            BY <2>1 DEF Nested
      <2>3. CASE t = s
            BY <2>2, <2>3
      <2>4. CASE t # s
            <3>1. Len(T[t]) < Len(T[s]) /\ Len(T[s]) <= Len(p)
                  BY <1>3, <1>6, <2>2, <2>4 DEF Nested
            <3>2. QED
                  BY <1>3, <1>7, <1>8, <2>2, <3>1
      <2>5. QED
            BY <2>3, <2>4
<1>10. T[s] = p
       <2>1. SubSeq(p, 1, Len(p)) = T[s]
             BY <1>3, <1>9 DEF Nested
       <2>2. QED
             BY <1>7, <2>1, SubSeqFull
<1>11. Len(p) >= 1 /\ p # <<>>
       <2>1. s \in Functions => Len(T[s]) = 1
             BY <1>3 DEF Mapped
       <2>2. s \in Blocks => Len(T[s]) >= 2
             BY <1>3 DEF Mapped
       <2>3. Len(p) >= 1
             <3>1. Len(p) = 1 \/ Len(p) >= 2
                   BY <1>9, <2>1, <2>2 DEF Keys
             <3>2. PICK m : m = Len(p)
                   OBVIOUS
             <3>3. m = 1 \/ m >= 2
                   BY <3>1, <3>2
             <3>4. m >= 1
                   BY <1>7, <3>2, <3>3
             <3>5. QED
                   BY <3>2, <3>4
       <2>4. QED
             BY <1>7, <2>3
<1>12. PICK q : q = Parent(p)
       OBVIOUS
<1>13. Len(q) = Len(p) - 1 /\ q = SubSeq(p, 1, Len(p) - 1) /\ q \in Seq(Numbers) /\ p = Append(q, p[Len(p)])
       /\ p[Len(p)] \in Numbers
       BY <1>7, <1>11, <1>12, ParentPath DEF Parent
<1>14. \A k \in 0..Len(q) : SubSeq(q, 1, k) = SubSeq(p, 1, k)
       <2>1. PICK c : c = p[Len(p)]
             OBVIOUS
       <2>2. p = Append(q, c) /\ c \in Numbers
             BY <1>13, <2>1
       <2>3. QED
             BY <1>13, <2>2, ChildPath
<1>15. Nested(T, e, q)
       <2>1. ASSUME NEW t, IsOpen(e, t)
             PROVE  Len(T[t]) <= Len(q) /\ SubSeq(q, 1, Len(T[t])) = T[t]
             <3>1. IsOpen(d, t) /\ t # s
                   BY <1>5, <2>1
             <3>2. Len(T[t]) < Len(T[s]) /\ SubSeq(p, 1, Len(T[t])) = T[t] /\ Len(T[t]) \in Nat
                   BY <1>3, <1>6, <1>8, <3>1 DEF Nested
             <3>3. Len(T[t]) <= Len(q)
                   BY <1>7, <1>9, <1>13, <3>2
             <3>4. QED
                   BY <1>7, <1>13, <1>14, <3>2, <3>3
       <2>2. ASSUME NEW j \in 0..Len(q) PROVE \E t : IsOpen(e, t) /\ Len(T[t]) = j
             <3>1. j \in 0..Len(p) /\ j # Len(p)
                   BY <1>7, <1>11, <1>13
             <3>2. PICK t : IsOpen(d, t) /\ Len(T[t]) = j
                   BY <3>1 DEF Nested
             <3>3. t # s
                   BY <1>9, <3>1, <3>2
             <3>4. QED
                   BY <1>5, <3>2, <3>3
       <2>3. \A r, t : IsOpen(e, r) /\ IsOpen(e, t) /\ IsWithin(r, t) => Len(T[t]) < Len(T[r])
             BY <1>5 DEF Nested
       <2>4. QED
             BY <2>1, <2>2, <2>3 DEF Nested
<1>16. Mapped(T, e, ts)
       BY <1>4 DEF Mapped
<1>17. QED
       BY <1>3, <1>4, <1>10, <1>11, <1>12, <1>15, <1>16
-----------------------------------------------------------------------------
(* What is in the tables.                                                  *)

SymbolFields == {"name", "type", "depth", "node", "dims", "size", "params", "funcinfo"}
InfoFields   == {"declnode", "is_prototyped", "is_defined", "params_inserted"}
IsFull(s)    == DOMAIN s = SymbolFields /\ DOMAIN s.funcinfo = InfoFields

(* The declared identifiers that have a symbol, and the node of a symbol.  *)
Decl(sy)       == {x \in DOMAIN sy : IsDeclared(x)}
NodeOf(ts, id) == SymbolAt(ts, id).node

(* The identifiers that the walk has passed have symbols, and the FUNCTION *)
(* bit is set between a declarator and its name.                           *)
IdsDone(d, sy)  == DOMAIN sy = {x \in Identifiers : Middle(x) \in d}
BitsDone(d, ta) == "FUNCTION" \in ta <=> \E h \in Declarators : Enter(h) \in d /\ Middle(h) \notin d

(* A declared identifier has a symbol of its name in the table of its      *)
(* scope.                                                                  *)
Scoped(T, d, ts, sy) ==
  \A x \in Decl(sy) :
     /\ x \in Identifiers /\ ScopeOf(x) \in Keyed(d)
     /\ Valid(ts, sy[x]) /\ sy[x] = <<T[ScopeOf(x)], sy[x][2]>>
     /\ SymbolAt(ts, sy[x]).name = At[x].string_data

(* A symbol is that of its node, and the one of its name in its table.     *)
NamedOnce(ts, sy) ==
  \A p \in DOMAIN ts : \A k \in 1..Len(ts[p].symbols) :
     /\ IsFull(SymbolAt(ts, <<p, k>>))
     /\ NodeOf(ts, <<p, k>>) \in Decl(sy) /\ sy[NodeOf(ts, <<p, k>>)] = <<p, k>>
     /\ \A j \in 1..Len(ts[p].symbols) :
          SymbolAt(ts, <<p, j>>).name = SymbolAt(ts, <<p, k>>).name => j = k

(* The node of its symbol is of the kind of the identifier.                *)
SameKind(x, e) ==
  /\ IsPlainId(x)   => e = x
  /\ IsParameter(x) => IsParameter(e)
  /\ x \in Names    => e \in Names /\ At[Parent(x)] = At[Parent(e)]
Kinds(ts, sy) == \A x \in Decl(sy) : SameKind(x, NodeOf(ts, sy[x]))

(* The symbols of functions.                                               *)
IsFunSymbol(s) ==
  /\ "FUNCTION" \in s.type <=> s.node \in Names
  /\ s.node \in Names => s.funcinfo.declnode = Parent(s.node)
Funs(ts) == \A p \in DOMAIN ts : \A k \in 1..Len(ts[p].symbols) : IsFunSymbol(SymbolAt(ts, <<p, k>>))

(* The tables below the file scope are for symbols of their names in it.   *)
IsHead(ts, t) ==
  /\ Valid(ts, t.tablefor) /\ t.tablefor = <<<<>>, t.tablefor[2]>>
  /\ SymbolAt(ts, t.tablefor).name = t.name
Heads(ts) == \A j \in 1..ts[<<>>].children : IsHead(ts, ts[<<j>>])
Owners(T, d, ts, sy) ==
  \A s \in Keyed(d) : s \in Functions =>
     Left(Header(s)) \in Decl(sy) /\ ts[T[s]].tablefor = sy[Left(Header(s))]

(* Of two declarators of a function the second is its definition.          *)
Defs(ts, sy) ==
  \A x \in Decl(sy) : x \in Names =>
     /\ Below(x, "FUNCTION_SPEC") => SymbolAt(ts, sy[x]).funcinfo.is_defined
     /\ \A y \in Decl(sy) : y \in Names /\ y # x /\ sy[y] = sy[x] =>
          /\ Below(y, "FUNCTION_SPEC") <=> ~Below(x, "FUNCTION_SPEC")
          /\ Below(x, "FUNCTION_SPEC") => Past(Middle(y), Middle(x))

(* After the head of a definition all symbols of its table are declared in *)
(* it.                                                                     *)
Filled(T, D, ts, sy) ==
  \A k \in 1..Len(ts[T[D]].symbols) : \E x \in Decl(sy) : ScopeOf(x) = D /\ sy[x] = <<T[D], k>>
AllFilled(T, d, ts, sy) ==
  \A D \in Keyed(d) : D \in Definitions /\ Leave(Header(D)) \in d => Filled(T, D, ts, sy)

(* The declarations of its name that are visible at u, and what is tied to *)
(* the innermost of them.                                                  *)
Seen(u) ==
  {c \in Identifiers : /\ IsDeclared(c) /\ At[c].string_data = At[u].string_data
                       /\ IsWithin(u, ScopeOf(c)) /\ Before(c, u)}
Resolved(u, sy) ==
  \E c \in Seen(u) : /\ c \in DOMAIN sy /\ sy[u] = sy[c]
                     /\ \A e \in Seen(u) : Len(ScopeOf(e)) <= Len(ScopeOf(c))
AllResolved(sy) == \A u \in DOMAIN sy : ~IsDeclared(u) => Resolved(u, sy)

Shape(T, d, ts, p) == p \in DOMAIN ts /\ Mapped(T, d, ts) /\ Nested(T, d, p)
Entered(T, d, ts, sy) ==
  /\ Scoped(T, d, ts, sy) /\ NamedOnce(ts, sy) /\ Kinds(ts, sy) /\ Funs(ts)
  /\ Heads(ts) /\ Owners(T, d, ts, sy) /\ Defs(ts, sy)

(* us has the tables and symbols of ts, but for what is counted, dimensions*)
(* and flags that are set.                                                 *)
SameSymbol(s, r) ==
  /\ IsFull(r) /\ r.name = s.name /\ r.type = s.type /\ r.depth = s.depth /\ r.node = s.node
  /\ r.funcinfo.declnode = s.funcinfo.declnode
  /\ s.funcinfo.is_defined => r.funcinfo.is_defined
SameTable(t, r) ==
  /\ r.name = t.name /\ r.tablefor = t.tablefor /\ r.children = t.children
  /\ Len(r.symbols) = Len(t.symbols)
  /\ \A k \in 1..Len(t.symbols) : SameSymbol(t.symbols[k], r.symbols[k])
Kept(ts, us) == DOMAIN us = DOMAIN ts /\ \A p \in DOMAIN ts : SameTable(ts[p], us[p])

(* Such tables are as good.                                                *)
LEMMA KeptTwice ==
  ASSUME NEW ts, NEW us, NEW ws, Kept(ts, us), Kept(us, ws)
  PROVE  Kept(ts, ws)
<1>1. ASSUME NEW p \in DOMAIN ts PROVE SameTable(ts[p], ws[p])
      <2>1. SameTable(ts[p], us[p]) /\ SameTable(us[p], ws[p])
            BY <1>1 DEF Kept
      <2>2. ASSUME NEW k \in 1..Len(ts[p].symbols) PROVE SameSymbol(ts[p].symbols[k], ws[p].symbols[k])
            BY <2>1, <2>2 DEF SameTable, SameSymbol
      <2>3. QED
            BY <2>1, <2>2 DEF SameTable
<1>2. QED
      BY <1>1 DEF Kept

(* When tables are kept, a symbol stays where it is, with the same name,   *)
(* kind and function.                                                      *)
LEMMA KeptSymbol ==
  ASSUME NEW ts, NEW us, Kept(ts, us), NEW id, Valid(ts, id)
  PROVE  Valid(us, id) /\ SameSymbol(SymbolAt(ts, id), SymbolAt(us, id))
BY DEF Kept, SameTable, Valid, SymbolAt

(* What the map says of declarations and their symbols is still so.        *)
LEMMA KeptEntered ==
  ASSUME NEW T, NEW d, NEW ts, NEW sy, Entered(T, d, ts, sy), NEW us, Kept(ts, us), IsFamily(ts),
         Mapped(T, d, ts)
  PROVE  Entered(T, d, us, sy)
<1>1. Scoped(T, d, us, sy)
      <2>1. ASSUME NEW x \in Decl(sy)
            PROVE  /\ x \in Identifiers /\ ScopeOf(x) \in Keyed(d)
                   /\ Valid(us, sy[x]) /\ sy[x] = <<T[ScopeOf(x)], sy[x][2]>>
                   /\ SymbolAt(us, sy[x]).name = At[x].string_data
            <3>1. /\ x \in Identifiers /\ ScopeOf(x) \in Keyed(d)
                  /\ Valid(ts, sy[x]) /\ sy[x] = <<T[ScopeOf(x)], sy[x][2]>>
                  /\ SymbolAt(ts, sy[x]).name = At[x].string_data
                  BY DEF Entered, Scoped
            <3>2. Valid(us, sy[x]) /\ SameSymbol(SymbolAt(ts, sy[x]), SymbolAt(us, sy[x]))
                  BY <3>1, KeptSymbol
            <3>3. QED
                  BY <3>1, <3>2 DEF SameSymbol
      <2>2. QED
            BY <2>1 DEF Scoped
<1>2. ASSUME NEW p \in DOMAIN us, NEW k \in 1..Len(us[p].symbols)
      PROVE  /\ p \in DOMAIN ts /\ 1..Len(us[p].symbols) = 1..Len(ts[p].symbols)
             /\ SameSymbol(SymbolAt(ts, <<p, k>>), SymbolAt(us, <<p, k>>))
             /\ IsFull(SymbolAt(us, <<p, k>>))
      <2>1. p \in DOMAIN ts /\ Len(us[p].symbols) = Len(ts[p].symbols)
            BY DEF Kept, SameTable
      <2>2. SameSymbol(SymbolAt(ts, <<p, k>>), SymbolAt(us, <<p, k>>))
            BY <2>1 DEF Kept, SameTable, SymbolAt
      <2>3. QED
            BY <2>1, <2>2 DEF SameSymbol
<1>3. NamedOnce(us, sy)
      <2>1. ASSUME NEW p \in DOMAIN us, NEW k \in 1..Len(us[p].symbols)
            PROVE  /\ IsFull(SymbolAt(us, <<p, k>>))
                   /\ NodeOf(us, <<p, k>>) \in Decl(sy) /\ sy[NodeOf(us, <<p, k>>)] = <<p, k>>
            <3>1. NodeOf(us, <<p, k>>) = NodeOf(ts, <<p, k>>)
                  BY <1>2, <2>1 DEF SameSymbol, NodeOf
            <3>2. p \in DOMAIN ts /\ k \in 1..Len(ts[p].symbols)
                  BY <1>2, <2>1
            <3>3. QED
                  BY <1>2, <2>1, <3>1, <3>2 DEF Entered, NamedOnce
      <2>2. ASSUME NEW p \in DOMAIN us, NEW k \in 1..Len(us[p].symbols), NEW j \in 1..Len(us[p].symbols),
                   SymbolAt(us, <<p, j>>).name = SymbolAt(us, <<p, k>>).name
            PROVE  j = k
            <3>1. p \in DOMAIN ts /\ k \in 1..Len(ts[p].symbols) /\ j \in 1..Len(ts[p].symbols)
                  BY <1>2, <2>2
            <3>2. /\ SymbolAt(us, <<p, k>>).name = SymbolAt(ts, <<p, k>>).name
                  /\ SymbolAt(us, <<p, j>>).name = SymbolAt(ts, <<p, j>>).name
                  BY <1>2, <2>2 DEF SameSymbol
            <3>3. QED
                  BY <2>2, <3>1, <3>2 DEF Entered, NamedOnce
      <2>3. QED
            BY <2>1, <2>2 DEF NamedOnce
<1>4. Kinds(us, sy)
      <2>1. ASSUME NEW x \in Decl(sy) PROVE SameKind(x, NodeOf(us, sy[x]))
            <3>1. SameKind(x, NodeOf(ts, sy[x])) /\ Valid(ts, sy[x])
                  BY DEF Entered, Kinds, Scoped
            <3>2. NodeOf(us, sy[x]) = NodeOf(ts, sy[x])
                  BY <3>1, KeptSymbol DEF SameSymbol, NodeOf
            <3>3. QED
                  BY <3>1, <3>2
      <2>2. QED
            BY <2>1 DEF Kinds
<1>5. Funs(us)
      <2>1. ASSUME NEW p \in DOMAIN us, NEW k \in 1..Len(us[p].symbols) PROVE IsFunSymbol(SymbolAt(us, <<p, k>>))
            <3>1. p \in DOMAIN ts /\ k \in 1..Len(ts[p].symbols)
                  BY <1>2, <2>1
            <3>2. IsFunSymbol(SymbolAt(ts, <<p, k>>))
                  BY <3>1 DEF Entered, Funs
            <3>3. SameSymbol(SymbolAt(ts, <<p, k>>), SymbolAt(us, <<p, k>>))
                  BY <1>2, <2>1
            <3>4. QED
                  BY <3>2, <3>3 DEF IsFunSymbol, SameSymbol
      <2>2. QED
            BY <2>1 DEF Funs
<1>6. Heads(us)
      <2>1. <<>> \in DOMAIN ts
            BY DEF IsFamily
      <2>2. us[<<>>].children = ts[<<>>].children
            BY <2>1 DEF Kept, SameTable
      <2>3. ASSUME NEW j \in 1..us[<<>>].children PROVE IsHead(us, us[<<j>>])
            <3>1. IsHead(ts, ts[<<j>>])
                  BY <2>2 DEF Entered, Heads
            <3>2. <<j>> \in DOMAIN ts
                  <4>1. j \in Numbers /\ j <= ts[<<>>].children
                        BY <2>1, <2>2 DEF IsFamily, Numbers
                  <4>2. Append(<<>>, j) \in DOMAIN ts
                        BY <2>1, <4>1 DEF IsFamily
                  <4>3. QED
                        BY <4>2
            <3>3. us[<<j>>].tablefor = ts[<<j>>].tablefor /\ us[<<j>>].name = ts[<<j>>].name
                  BY <3>2 DEF Kept, SameTable
            <3>4. Valid(ts, ts[<<j>>].tablefor)
                  BY <3>1 DEF IsHead
            <3>5. QED
                  BY <3>1, <3>3, <3>4, KeptSymbol DEF IsHead, SameSymbol, NodeOf
      <2>4. QED
            BY <2>3 DEF Heads
<1>7. Owners(T, d, us, sy)
      BY DEF Entered, Owners, Kept, SameTable, Mapped
<1>8. Defs(us, sy)
      <2>1. ASSUME NEW x \in Decl(sy), x \in Names, Below(x, "FUNCTION_SPEC")
            PROVE  SymbolAt(us, sy[x]).funcinfo.is_defined
            <3>1. SymbolAt(ts, sy[x]).funcinfo.is_defined /\ Valid(ts, sy[x])
                  BY <2>1 DEF Entered, Defs, Scoped
            <3>2. QED
                  BY <3>1, KeptSymbol DEF SameSymbol
      <2>2. QED
            BY <2>1 DEF Entered, Defs
<1>9. QED
      BY <1>1, <1>3, <1>4, <1>5, <1>6, <1>7, <1>8 DEF Entered

(* A definition whose table has its parameters still has them.             *)
LEMMA KeptFilled ==
  ASSUME NEW T, NEW D, NEW ts, NEW us, NEW sy, Kept(ts, us), Filled(T, D, ts, sy), T[D] \in DOMAIN ts
  PROVE  Filled(T, D, us, sy)
BY DEF Filled, Kept, SameTable
-----------------------------------------------------------------------------
(* What holds at an item of the walk.                                      *)

(* The FUNCTION bit is set when a declarator is entered,                   *)
LEMMA BitSet ==
  ASSUME Tidy(tree), NEW d, NEW h, IsTime(d, h), NEW g \in Declarators, h = Enter(g),
         NEW ta, "FUNCTION" \in ta, NEW e, e = d \cup ({h} \cap Visits)
  PROVE  BitsDone(e, ta)
<1>1. g \in Seq(Steps) /\ IsNode(g)
      BY DeclaratorFacts
<1>2. h \in Visits /\ OnPath(h) /\ OnPath(Middle(g)) /\ Past(h, Middle(g))
      BY <1>1, NodeVisits, VisitFacts, PastAtNode
<1>3. Enter(g) \in e
      BY <1>2
<1>4. Middle(g) \notin e
      BY <1>2, PastAsymmetric, VisitsDiffer DEF IsTime
<1>5. QED
      BY <1>3, <1>4 DEF BitsDone

(* cleared after its name,                                                 *)
LEMMA BitCleared ==
  ASSUME Tidy(tree), NEW d, NEW h, IsTime(d, h), NEW g \in Declarators, h = Middle(g),
         NEW ta, "FUNCTION" \notin ta, NEW e, e = d \cup ({h} \cap Visits)
  PROVE  BitsDone(e, ta)
<1>1. g \in Seq(Steps) /\ IsNode(g)
      BY DeclaratorFacts
<1>2. h \in Visits /\ OnPath(h) /\ h.n = g
      BY <1>1, NodeVisits, VisitFacts, CodeAfter
<1>3. ASSUME NEW f \in Declarators, Enter(f) \in e, Middle(f) \notin e PROVE FALSE
      <2>1. f \in Seq(Steps) /\ IsNode(f) /\ f # g
            BY <1>2, <1>3, DeclaratorFacts
      <2>2. /\ Enter(f) \in Visits /\ OnPath(Enter(f)) /\ Middle(f) \in Visits /\ OnPath(Middle(f))
            /\ Enter(f).n = f /\ Middle(f).n = f
            BY <2>1, NodeVisits, VisitFacts, CodeAfter
      <2>3. Enter(f) # h
            BY VisitsDiffer
      <2>4. Past(Enter(f), h) /\ ~Past(Middle(f), h)
            BY <1>3, <2>2, <2>3 DEF IsTime
      <2>5. ~AtOrBelow(f, g) /\ ~AtOrBelow(g, f)
            BY <2>1, DeclaratorFacts
      <2>6. AtOrBelow(f, f) /\ AtOrBelow(g, g)
            BY <1>1, <2>1, BelowOrder
      <2>7. ~Before(f, g)
            BY <1>1, <1>2, <2>1, <2>2, <2>4, <2>6, PastBefore
      <2>8. ~Before(g, f)
            <3>1. Before(g, f) => Past(h, Enter(f))
                  BY <1>1, <1>2, <2>1, <2>2, <2>6, PastBefore
            <3>2. QED
                  BY <1>2, <2>2, <2>4, <3>1, PastAsymmetric
      <2>9. QED
            BY <1>1, <2>1, <2>5, <2>7, <2>8, Apart
<1>4. QED
      BY <1>3 DEF BitsDone

(* and kept elsewhere.                                                     *)
LEMMA BitKept ==
  ASSUME NEW d, NEW h, NEW ta, BitsDone(d, ta), NEW tb, "FUNCTION" \in tb <=> "FUNCTION" \in ta,
         \A g \in Declarators : h # Enter(g) /\ h # Middle(g),
         NEW e, e = d \cup ({h} \cap Visits)
  PROVE  BitsDone(e, tb)
BY DEF BitsDone

(* So at an identifier it says whether that is the name of a function.     *)
LEMMA BitAtName ==
  ASSUME Tidy(tree), NEW x \in Identifiers, NEW d, NEW h, IsTime(d, h), h = Middle(x),
         NEW ta, BitsDone(d, ta)
  PROVE  "FUNCTION" \in ta <=> x \in Names
<1>1. /\ x \in Seq(Steps) /\ h \in Visits /\ OnPath(h) /\ h.n = x /\ x \in NodePaths
      /\ \A n \in NodePaths : AtOrBelow(n, x) => n = x
      BY IdentifierFacts DEF NodePaths
<1>2. AtOrBelow(x, x)
      BY <1>1, BelowOrder
<1>3. ASSUME NEW g \in Declarators, x = Left(g) PROVE Enter(g) \in d /\ Middle(g) \notin d
      <2>1. g \in Seq(Steps) /\ IsNode(g)
            BY DeclaratorFacts
      <2>2. Enter(g) \in Visits /\ OnPath(Middle(g))
            BY <2>1, NodeVisits, CodeAfter
      <2>3. Past(Enter(g), h) /\ Past(h, Middle(g))
            BY <1>1, <1>2, <1>3, <2>1, PastAtNode
      <2>4. QED
            BY <1>1, <2>2, <2>3, PastAsymmetric DEF IsTime
<1>4. ASSUME NEW g \in Declarators, Enter(g) \in d, Middle(g) \notin d PROVE x = Left(g)
      <2>1. /\ g \in Seq(Steps) /\ IsNode(g) /\ At[g].type = "LIST" /\ Left(g) \in Identifiers
            /\ g \in NodePaths
            BY DeclaratorFacts DEF Declarators
      <2>2. /\ Enter(g) \in Visits /\ OnPath(Enter(g)) /\ Middle(g) \in Visits /\ OnPath(Middle(g))
            /\ Enter(g).n = g /\ Middle(g).n = g /\ AtOrBelow(g, g)
            BY <2>1, NodeVisits, VisitFacts, CodeAfter, BelowOrder
      <2>3. Past(Enter(g), h) /\ ~Past(Middle(g), h)
            BY <1>4, <2>2 DEF IsTime
      <2>4. g # x
            BY <2>1, IdentifierFacts
      <2>5. ~AtOrBelow(g, x)
            BY <1>1, <2>1, <2>4
      <2>6. ~Before(g, x)
            BY <1>1, <1>2, <2>1, <2>2, <2>3, PastBefore
      <2>7. ~Before(x, g)
            <3>1. Before(x, g) => Past(h, Enter(g))
                  BY <1>1, <1>2, <2>1, <2>2, PastBefore
            <3>2. QED
                  BY <1>1, <2>2, <2>3, <3>1, PastAsymmetric
      <2>8. IsWithin(x, g)
            BY <1>1, <2>1, <2>4, <2>5, <2>6, <2>7, Apart, BelowOrder
      <2>9. AtOrBelow(x, Left(g)) \/ AtOrBelow(x, Right(g))
            BY <1>1, <2>1, <2>8, BelowChildren DEF Steps
      <2>10. ~AtOrBelow(x, Right(g))
            BY <1>1, <2>1, <2>3, PastAtNode
      <2>11. QED
            BY <1>1, <2>1, <2>9, <2>10, IdentifierFacts
<1>5. QED
      BY <1>3, <1>4 DEF BitsDone, Names

(* A part is open at an identifier when it is inside.                      *)
LEMMA OpenInside ==
  ASSUME Tidy(tree), NEW x \in Identifiers, NEW d, IsTime(d, Middle(x)), NEW t \in Keys
  PROVE  IsOpen(d, t) <=> Inside(x, t)
<1>1. Opener(t) \in Visits /\ Closer(t) \in Visits /\ t # <<>>
      BY KeyTimes, KeyFacts
<1>2. QED
      BY <1>1 DEF IsOpen, Inside, IsTime

(* The table of the moment is that of its scope.                           *)
LEMMA TopTable ==
  ASSUME Tidy(tree), NEW x \in Identifiers, NEW d, IsTime(d, Middle(x)),
         NEW T, NEW ts, NEW p, GoodTables(ts), Shape(T, d, ts, p)
  PROVE  IsOpen(d, ScopeOf(x)) /\ ScopeOf(x) \in Keyed(d) /\ T[ScopeOf(x)] = p
<1>1. PICK s : s = ScopeOf(x)
      OBVIOUS
<1>2. s \in Seq(Steps) /\ (s = <<>> \/ Inside(x, s)) /\ \A t : Inside(x, t) => AtOrBelow(s, t)
      BY <1>1, ScopeFacts
<1>3. IsOpen(d, s)
      BY <1>2, OpenInside DEF IsOpen, Inside
<1>4. s \in Keyed(d)
      BY <1>3, OpenKeyed
<1>5. Mapped(T, d, ts) /\ Nested(T, d, p) /\ p \in DOMAIN ts
      BY DEF Shape
<1>6. p \in Seq(Numbers) /\ Len(p) \in Nat
      BY <1>5, TablePath
<1>7. \A t : IsOpen(d, t) => T[t] \in DOMAIN ts /\ Len(T[t]) \in Nat /\ T[t] \in Seq(Numbers)
      <2>1. ASSUME NEW t, IsOpen(d, t) PROVE T[t] \in DOMAIN ts
            BY <1>5, <2>1, OpenKeyed DEF Mapped
      <2>2. QED
            BY <2>1, TablePath
<1>8. Len(p) \in 0..Len(p)
      BY <1>6
<1>9. PICK t : IsOpen(d, t) /\ Len(T[t]) = Len(p)
      BY <1>5, <1>8 DEF Nested
<1>10. t = s
       <2>1. t \in Seq(Steps) /\ AtOrBelow(s, t)
             <3>1. CASE t = <<>>
                   BY <1>2, <3>1, TidyRoot, BelowOrder
             <3>2. CASE t # <<>>
                   <4>1. t \in Keys
                         BY <1>9, <3>2 DEF IsOpen
                   <4>2. Inside(x, t)
                         BY <1>9, <4>1, OpenInside
                   <4>3. QED
                         BY <1>2, <4>1, <4>2, KeyFacts
             <3>3. QED
                   BY <3>1, <3>2
       <2>2. SUFFICES ASSUME t # s PROVE FALSE
             OBVIOUS
       <2>3. IsWithin(s, t)
             BY <1>2, <2>1, <2>2, BelowOrder
       <2>4. Len(T[t]) < Len(T[s]) /\ Len(T[s]) <= Len(p)
             BY <1>3, <1>5, <1>9, <2>3 DEF Nested
       <2>5. QED
             BY <1>3, <1>6, <1>7, <1>9, <2>4
<1>11. T[s] = p
       <2>1. SubSeq(p, 1, Len(T[s])) = T[s] /\ Len(T[s]) = Len(p)
             BY <1>3, <1>5, <1>9, <1>10 DEF Nested
       <2>2. QED
             BY <1>6, <2>1, SubSeqFull
<1>12. QED
       BY <1>1, <1>3, <1>4, <1>11

(* The identifiers that are done do not change at another item.            *)
LEMMA IdsKept ==
  ASSUME NEW d, NEW sy, IdsDone(d, sy), NEW h, \A x \in Identifiers : h # Middle(x),
         NEW e, e = d \cup ({h} \cap Visits)
  PROVE  IdsDone(e, sy)
BY DEF IdsDone

(* An item that neither opens nor leaves a table leaves the entries as     *)
(* they are.                                                               *)
LEMMA SameKeyed ==
  ASSUME NEW T, NEW d, NEW e, Keyed(e) = Keyed(d), NEW ts, NEW sy, Entered(T, d, ts, sy)
  PROVE  Entered(T, e, ts, sy)
BY DEF Entered, Scoped, Owners

(* The tables of definitions that are done stay filled, if that of a       *)
(* definition done now is.                                                 *)
LEMMA StillFilled ==
  ASSUME NEW T, NEW d, NEW h, NEW e, e = d \cup ({h} \cap Visits), Keyed(e) = Keyed(d),
         NEW ts, NEW sy, AllFilled(T, d, ts, sy),
         \A D \in Keyed(d) : D \in Definitions /\ h = Leave(Header(D)) => Filled(T, D, ts, sy),
         NEW us, Kept(ts, us), Mapped(T, d, ts)
  PROVE  AllFilled(T, e, us, sy)
<1>1. ASSUME NEW D \in Keyed(e), D \in Definitions, Leave(Header(D)) \in e PROVE Filled(T, D, us, sy)
      <2>1. Filled(T, D, ts, sy)
            BY <1>1 DEF AllFilled
      <2>2. T[D] \in DOMAIN ts
            BY DEF Mapped
      <2>3. QED
            BY <2>1, <2>2, KeptFilled
<1>2. QED
      BY <1>1 DEF AllFilled
-----------------------------------------------------------------------------
(* The invariant of the tables, and what opening and leaving one does.     *)

SInv(T, d, ts, p, sy, ta) ==
  /\ Shape(T, d, ts, p) /\ IdsDone(d, sy) /\ BitsDone(d, ta)
  /\ Entered(T, d, ts, sy) /\ AllFilled(T, d, ts, sy) /\ AllResolved(sy)

(* An item at which no table is opened or left and nothing tied.           *)
LEMMA RestingStep ==
  ASSUME Tidy(tree), NEW d, NEW h, NEW e, e = d \cup ({h} \cap Visits),
         \A s \in Keys : h # Opener(s) /\ h # Closer(s),
         \A x \in Identifiers : h # Middle(x),
         NEW T, NEW ts, NEW p, NEW sy, NEW ta, SInv(T, d, ts, p, sy, ta), GoodTables(ts),
         NEW us, Kept(ts, us), NEW tb, BitsDone(e, tb),
         \A D \in Keyed(d) : D \in Definitions /\ h = Leave(Header(D)) => Filled(T, D, ts, sy)
  PROVE  SInv(T, e, us, p, sy, tb)
<1>1. Mapped(T, d, ts) /\ Nested(T, d, p) /\ p \in DOMAIN ts /\ DOMAIN us = DOMAIN ts
      BY DEF SInv, Shape, Kept
<1>2. Keyed(e) = Keyed(d) /\ Mapped(T, e, us) /\ Nested(T, e, p)
      <2>1. Keyed(e) = Keyed(d)
            BY DEF Keyed
      <2>2. \A s : IsOpen(e, s) <=> IsOpen(d, s)
            BY DEF IsOpen
      <2>3. Mapped(T, e, us)
            BY <1>1, <2>1 DEF Mapped
      <2>4. Nested(T, e, p)
            BY <1>1, <2>2 DEF Nested
      <2>5. QED
            BY <2>1, <2>3, <2>4
<1>3. Shape(T, e, us, p)
      BY <1>1, <1>2 DEF Shape
<1>4. IdsDone(e, sy)
      BY IdsKept DEF SInv
<1>5. IsFamily(ts)
      BY DEF GoodTables
<1>6. Entered(T, d, us, sy)
      BY <1>1, <1>5, KeptEntered DEF SInv
<1>7. Entered(T, e, us, sy)
      BY <1>2, <1>6, SameKeyed
<1>8. AllFilled(T, e, us, sy)
      BY <1>1, <1>2, StillFilled DEF SInv
<1>9. QED
      BY <1>3, <1>4, <1>7, <1>8 DEF SInv

(* Another table may have been added, at q.                                *)
Keeping(ts, us, q) ==
  /\ q \in DOMAIN us /\ DOMAIN us = DOMAIN ts \cup {q}
  /\ \A r \in DOMAIN ts : /\ us[r].name = ts[r].name /\ us[r].tablefor = ts[r].tablefor
                          /\ us[r].symbols = ts[r].symbols
  /\ q \notin DOMAIN ts => us[q].symbols = <<>>

(* Symbols are neither lost nor added when a table is opened or entered    *)
(* again.                                                                  *)
LEMMA KeepingSymbols ==
  ASSUME NEW ts, NEW us, NEW q, Keeping(ts, us, q)
  PROVE  /\ \A id : Valid(ts, id) <=> Valid(us, id)
         /\ \A id : Valid(ts, id) => SymbolAt(us, id) = SymbolAt(ts, id)
<1>1. ASSUME NEW id, Valid(ts, id) PROVE Valid(us, id) /\ SymbolAt(us, id) = SymbolAt(ts, id)
      BY <1>1 DEF Keeping, Valid, SymbolAt
<1>2. ASSUME NEW id, Valid(us, id) PROVE Valid(ts, id)
      <2>1. id[1] \in DOMAIN us /\ id[2] \in 1..Len(us[id[1]].symbols)
            BY <1>2 DEF Valid
      <2>2. CASE id[1] \in DOMAIN ts
            BY <2>1, <2>2 DEF Keeping, Valid
      <2>3. CASE id[1] \notin DOMAIN ts
            <3>1. us[id[1]].symbols = <<>>
                  BY <2>1, <2>3 DEF Keeping
            <3>2. QED
                  BY <2>1, <3>1
      <2>4. QED
            BY <2>2, <2>3
<1>3. QED
      BY <1>1, <1>2

(* The entries are still right when a part has got its table q.            *)
LEMMA OpenedEntered ==
  ASSUME NEW T, NEW d, NEW ts, NEW sy, Entered(T, d, ts, sy), NEW s, NEW e, NEW U, NEW q, NEW us,
         Keyed(e) = Keyed(d) \cup {s}, \A t \in Keyed(d) : U[t] = T[t], U[s] = q,
         Keeping(ts, us, q), Heads(us), Mapped(T, d, ts),
         s \in Functions => Left(Header(s)) \in Decl(sy) /\ us[q].tablefor = sy[Left(Header(s))]
  PROVE  Entered(U, e, us, sy)
<1>1. /\ \A id : Valid(ts, id) <=> Valid(us, id)
      /\ \A id : Valid(ts, id) => SymbolAt(us, id) = SymbolAt(ts, id)
      BY KeepingSymbols
<1>2. ASSUME NEW r \in DOMAIN us, NEW k \in 1..Len(us[r].symbols)
      PROVE  /\ r \in DOMAIN ts /\ us[r].symbols = ts[r].symbols
             /\ SymbolAt(us, <<r, k>>) = SymbolAt(ts, <<r, k>>)
      <2>1. Valid(us, <<r, k>>)
            BY <1>2 DEF Valid
      <2>2. Valid(ts, <<r, k>>)
            BY <1>1, <2>1
      <2>3. r \in DOMAIN ts
            BY <2>2 DEF Valid
      <2>4. QED
            BY <1>1, <2>2, <2>3 DEF Keeping
<1>3. Scoped(U, e, us, sy)
      <2>1. ASSUME NEW x \in Decl(sy)
            PROVE  /\ x \in Identifiers /\ ScopeOf(x) \in Keyed(e)
                   /\ Valid(us, sy[x]) /\ sy[x] = <<U[ScopeOf(x)], sy[x][2]>>
                   /\ SymbolAt(us, sy[x]).name = At[x].string_data
            <3>1. /\ x \in Identifiers /\ ScopeOf(x) \in Keyed(d)
                  /\ Valid(ts, sy[x]) /\ sy[x] = <<T[ScopeOf(x)], sy[x][2]>>
                  /\ SymbolAt(ts, sy[x]).name = At[x].string_data
                  BY DEF Entered, Scoped
            <3>2. U[ScopeOf(x)] = T[ScopeOf(x)] /\ ScopeOf(x) \in Keyed(e)
                  BY <3>1
            <3>3. Valid(us, sy[x]) /\ SymbolAt(us, sy[x]) = SymbolAt(ts, sy[x])
                  BY <1>1, <3>1
            <3>4. QED
                  BY <3>1, <3>2, <3>3
      <2>2. QED
            BY <2>1 DEF Scoped
<1>4. NamedOnce(us, sy)
      <2>1. ASSUME NEW r \in DOMAIN us, NEW k \in 1..Len(us[r].symbols)
            PROVE  /\ IsFull(SymbolAt(us, <<r, k>>))
                   /\ NodeOf(us, <<r, k>>) \in Decl(sy) /\ sy[NodeOf(us, <<r, k>>)] = <<r, k>>
                   /\ \A j \in 1..Len(us[r].symbols) :
                        SymbolAt(us, <<r, j>>).name = SymbolAt(us, <<r, k>>).name => j = k
            <3>1. r \in DOMAIN ts /\ us[r].symbols = ts[r].symbols /\ SymbolAt(us, <<r, k>>) = SymbolAt(ts, <<r, k>>)
                  BY <1>2, <2>1
            <3>2. NodeOf(us, <<r, k>>) = NodeOf(ts, <<r, k>>)
                  BY <3>1 DEF NodeOf
            <3>3. \A j \in 1..Len(us[r].symbols) : SymbolAt(us, <<r, j>>) = SymbolAt(ts, <<r, j>>)
                  BY <1>2, <2>1
            <3>4. k \in 1..Len(ts[r].symbols)
                  BY <3>1
            <3>5. /\ IsFull(SymbolAt(ts, <<r, k>>))
                  /\ NodeOf(ts, <<r, k>>) \in Decl(sy) /\ sy[NodeOf(ts, <<r, k>>)] = <<r, k>>
                  /\ \A j \in 1..Len(ts[r].symbols) :
                       SymbolAt(ts, <<r, j>>).name = SymbolAt(ts, <<r, k>>).name => j = k
                  BY <3>1, <3>4 DEF Entered, NamedOnce
            <3>6. QED
                  BY <3>1, <3>2, <3>3, <3>5
      <2>2. QED
            BY <2>1 DEF NamedOnce
<1>5. Kinds(us, sy)
      <2>1. ASSUME NEW x \in Decl(sy) PROVE SameKind(x, NodeOf(us, sy[x]))
            <3>1. SameKind(x, NodeOf(ts, sy[x])) /\ Valid(ts, sy[x])
                  BY DEF Entered, Kinds, Scoped
            <3>2. NodeOf(us, sy[x]) = NodeOf(ts, sy[x])
                  BY <1>1, <3>1 DEF NodeOf
            <3>3. QED
                  BY <3>1, <3>2
      <2>2. QED
            BY <2>1 DEF Kinds
<1>6. Funs(us)
      <2>1. ASSUME NEW r \in DOMAIN us, NEW k \in 1..Len(us[r].symbols) PROVE IsFunSymbol(SymbolAt(us, <<r, k>>))
            <3>1. r \in DOMAIN ts /\ us[r].symbols = ts[r].symbols /\ SymbolAt(us, <<r, k>>) = SymbolAt(ts, <<r, k>>)
                  BY <1>2, <2>1
            <3>2. k \in 1..Len(ts[r].symbols)
                  BY <3>1
            <3>3. QED
                  BY <3>1, <3>2 DEF Entered, Funs
      <2>2. QED
            BY <2>1 DEF Funs
<1>7. Owners(U, e, us, sy)
      <2>1. ASSUME NEW t \in Keyed(e), t \in Functions
            PROVE  Left(Header(t)) \in Decl(sy) /\ us[U[t]].tablefor = sy[Left(Header(t))]
            <3>1. CASE t \in Keyed(d)
                  <4>1. U[t] = T[t] /\ T[t] \in DOMAIN ts
                        BY <3>1 DEF Mapped
                  <4>2. us[T[t]].tablefor = ts[T[t]].tablefor
                        BY <4>1 DEF Keeping
                  <4>3. QED
                        BY <2>1, <3>1, <4>1, <4>2 DEF Entered, Owners
            <3>2. CASE t = s
                  BY <2>1, <3>2
            <3>3. QED
                  BY <3>1, <3>2
      <2>2. QED
            BY <2>1 DEF Owners
<1>8. Defs(us, sy)
      <2>1. ASSUME NEW x \in Decl(sy), x \in Names, Below(x, "FUNCTION_SPEC")
            PROVE  SymbolAt(us, sy[x]).funcinfo.is_defined
            <3>1. SymbolAt(ts, sy[x]).funcinfo.is_defined /\ Valid(ts, sy[x])
                  BY <2>1 DEF Entered, Defs, Scoped
            <3>2. SymbolAt(us, sy[x]) = SymbolAt(ts, sy[x])
                  BY <1>1, <3>1
            <3>3. QED
                  BY <3>1, <3>2
      <2>2. QED
            BY <2>1 DEF Entered, Defs
<1>9. QED
      BY <1>3, <1>4, <1>5, <1>6, <1>7, <1>8 DEF Entered

(* A function's table that is there, or is added, is for a function.       *)
LEMMA OpenedHeads ==
  ASSUME NEW ts, IsFamily(ts), Heads(ts), NEW us, NEW q, Keeping(ts, us, q),
         \/ us[<<>>].children = ts[<<>>].children
         \/ /\ us[<<>>].children = ts[<<>>].children + 1 /\ q = <<ts[<<>>].children + 1>>
            /\ IsHead(ts, us[q])
  PROVE  Heads(us)
<1>1. /\ \A id : Valid(ts, id) <=> Valid(us, id)
      /\ \A id : Valid(ts, id) => SymbolAt(us, id) = SymbolAt(ts, id)
      BY KeepingSymbols
<1>2. \A t : IsHead(ts, t) => IsHead(us, t)
      BY <1>1 DEF IsHead, NodeOf
<1>3. <<>> \in DOMAIN ts /\ ts[<<>>].children \in Nat
      BY DEF IsFamily
<1>4. ASSUME NEW j \in 1..us[<<>>].children PROVE IsHead(us, us[<<j>>])
      <2>1. CASE j \in 1..ts[<<>>].children
            <3>1. IsHead(ts, ts[<<j>>])
                  BY <2>1 DEF Heads
            <3>2. <<j>> \in DOMAIN ts
                  <4>1. j \in Numbers /\ j <= ts[<<>>].children
                        BY <1>3, <2>1 DEF Numbers
                  <4>2. Append(<<>>, j) \in DOMAIN ts
                        BY <1>3, <4>1 DEF IsFamily
                  <4>3. QED
                        BY <4>2
            <3>3. us[<<j>>].tablefor = ts[<<j>>].tablefor /\ us[<<j>>].name = ts[<<j>>].name
                  BY <3>2 DEF Keeping
            <3>4. IsHead(ts, us[<<j>>])
                  BY <3>1, <3>3 DEF IsHead
            <3>5. QED
                  BY <1>2, <3>4
      <2>2. CASE j \notin 1..ts[<<>>].children
            <3>1. j = ts[<<>>].children + 1 /\ IsHead(ts, us[q]) /\ q = <<ts[<<>>].children + 1>>
                  BY <1>3, <2>2
            <3>2. QED
                  BY <1>2, <3>1
      <2>3. QED
            BY <2>1, <2>2
<1>5. QED
      BY <1>4 DEF Heads

(* What was filled is so still.                                            *)
LEMMA OpenedFilled ==
  ASSUME Tidy(tree), NEW d, NEW h, IsTime(d, h), NEW s \in Keys, h = Opener(s),
         NEW e, e = d \cup ({h} \cap Visits), Keyed(e) = Keyed(d) \cup {s},
         NEW T, NEW U, NEW q, \A t \in Keyed(d) : U[t] = T[t],
         NEW ts, NEW us, Keeping(ts, us, q), NEW sy, AllFilled(T, d, ts, sy), Mapped(T, d, ts)
  PROVE  AllFilled(U, e, us, sy)
<1>1. /\ h \in Visits /\ OnPath(h) /\ s \in Seq(Steps)
      /\ h = Enter(s) \/ (s \in Functions /\ h = Middle(Header(s)))
      /\ s \in Definitions => h = Middle(Header(s))
      <2>1. h \in Visits /\ (s \in Definitions => h = Middle(Header(s)))
            BY KeyTimes
      <2>2. OnPath(h) /\ s \in Seq(Steps)
            BY <2>1, VisitFacts, KeyFacts
      <2>3. h = Enter(s) \/ (s \in Functions /\ h = Middle(Header(s)))
            BY DEF Opener, Keys
      <2>4. QED
            BY <2>1, <2>2, <2>3
<1>2. ASSUME NEW D \in Keyed(e), D \in Definitions, Leave(Header(D)) \in e PROVE Filled(U, D, us, sy)
      <2>1. Leave(Header(D)) \in d
            <3>1. Leave(Header(D)) # h
                  BY <1>1, VisitsDiffer
            <3>2. QED
                  BY <1>2, <3>1
      <2>2. D # s
            <3>1. SUFFICES ASSUME D = s PROVE FALSE
                  OBVIOUS
            <3>2. h = Middle(Header(D)) /\ Past(Leave(Header(D)), h) /\ Header(D) \in Seq(Steps)
                  BY <1>1, <1>2, <2>1, <3>1, DefinitionFacts, DeclaratorFacts DEF IsTime
            <3>3. Past(h, Leave(Header(D))) /\ OnPath(Leave(Header(D)))
                  BY <3>2, PastAtNode, CodeAfter
            <3>4. QED
                  BY <1>1, <3>2, <3>3, PastAsymmetric
      <2>3. D \in Keyed(d)
            BY <1>2, <2>2
      <2>4. Filled(T, D, ts, sy) /\ T[D] \in DOMAIN ts /\ U[D] = T[D]
            BY <1>2, <2>1, <2>3 DEF AllFilled, Mapped
      <2>5. us[T[D]].symbols = ts[T[D]].symbols
            BY <2>4 DEF Keeping
      <2>6. QED
            BY <2>4, <2>5 DEF Filled
<1>3. QED
      BY <1>2 DEF AllFilled
-----------------------------------------------------------------------------
(* The steps that open a table.                                            *)

Adds(ts, a, name, id, us, q) ==
  us = Opened(ts, a, NewTable(name, id)) /\ q = Append(a, ts[a].children + 1)

RootCount(ts, a, us) ==
  /\ a # <<>> => us[<<>>].children = ts[<<>>].children
  /\ a = <<>> => us[<<>>].children = ts[<<>>].children + 1

(* What is left as it was.                                                 *)
LEMMA AddedKeeps ==
  ASSUME NEW ts, GoodTables(ts), NEW a \in DOMAIN ts, NEW name, NEW id, IsRef(ts, id), NEW us, NEW q,
         Adds(ts, a, name, id, us, q)
  PROVE  /\ Keeping(ts, us, q) /\ q \notin DOMAIN ts /\ GoodTables(us)
         /\ ts[a].children + 1 \in Numbers /\ us[q] = NewTable(name, id)
         /\ RootCount(ts, a, us)
<1>. us = Opened(ts, a, NewTable(name, id)) /\ q = Append(a, ts[a].children + 1)
     BY DEF Adds
<1>1. GoodTables(us) /\ Grown(ts, us) /\ q \in DOMAIN us
      BY EmptyTable, TableAdded
<1>2. ts[a].children \in Nat /\ <<>> \in DOMAIN ts
      BY DEF GoodTables, IsFamily
<1>3. ts[a].children + 1 \in Numbers
      BY <1>2 DEF Numbers
<1>4. q \notin DOMAIN ts
      <2>1. ~(ts[a].children + 1 <= ts[a].children)
            BY <1>2
      <2>2. QED
            BY <1>3, <2>1 DEF GoodTables, IsFamily
<1>5. DOMAIN us = DOMAIN ts \cup {q} /\ us[q] = NewTable(name, id)
      BY <1>4 DEF Opened, Put
<1>6. \A r \in DOMAIN ts : us[r] = IF r = a THEN [ts[a] EXCEPT !.children = @ + 1] ELSE ts[r]
      BY <1>4 DEF Opened, Put
<1>7. {"name", "tablefor", "symbols", "children"} \subseteq DOMAIN ts[a]
      BY DEF GoodTables, IsTable
<1>8. PICK t : t = [ts[a] EXCEPT !.children = @ + 1]
      OBVIOUS
<1>9. t.name = ts[a].name /\ t.tablefor = ts[a].tablefor /\ t.symbols = ts[a].symbols /\ t.children = ts[a].children + 1
      BY <1>7, <1>8
<1>10. \A r \in DOMAIN ts : us[r] = IF r = a THEN t ELSE ts[r]
       BY <1>6, <1>8
<1>11. Keeping(ts, us, q)
       <2>1. us[q].symbols = <<>>
             BY <1>5 DEF NewTable
       <2>2. QED
             BY <1>1, <1>5, <1>9, <1>10, <2>1 DEF Keeping
<1>12. QED
       <2>1. RootCount(ts, a, us)
             BY <1>2, <1>9, <1>10 DEF RootCount
       <2>2. QED
             BY <1>1, <1>3, <1>4, <1>5, <1>11, <2>1

(* A table that is there is kept.                                          *)
LEMMA SameKeeps ==
  ASSUME NEW ts, NEW q \in DOMAIN ts
  PROVE  Keeping(ts, ts, q)
BY DEF Keeping

(* A block's table.                                                        *)
LEMMA BlockOpened ==
  ASSUME Tidy(tree), NEW d, NEW h, IsTime(d, h), NEW e, e = d \cup ({h} \cap Visits),
         NEW s \in Blocks, h = Enter(s),
         NEW T, NEW ts, NEW p, NEW sy, NEW ta, SInv(T, d, ts, p, sy, ta), GoodTables(ts),
         NEW us, NEW q, NEW name, Adds(ts, p, name, NoSymbol, us, q)
  PROVE  \E U : SInv(U, e, us, q, sy, ta)
<1>1. s \in Keys /\ h = Opener(s) /\ s \notin Functions
      BY BlockFacts DEF Opener
<1>2. Mapped(T, d, ts) /\ Nested(T, d, p) /\ p \in DOMAIN ts
      BY DEF SInv, Shape
<1>3. IsRef(ts, NoSymbol)
      BY DEF IsRef
<1>4. PICK c : c = ts[p].children + 1
      OBVIOUS
<1>5. /\ Keeping(ts, us, q) /\ q \notin DOMAIN ts /\ ts[p].children + 1 \in Numbers
      /\ p # <<>> => us[<<>>].children = ts[<<>>].children
      <2>1. PICK id : id = NoSymbol
            OBVIOUS
      <2>2. IsRef(ts, id) /\ Adds(ts, p, name, id, us, q) /\ p \in DOMAIN ts
            BY <1>2, <1>3, <2>1
      <2>3. Keeping(ts, us, q) /\ q \notin DOMAIN ts /\ ts[p].children + 1 \in Numbers /\ RootCount(ts, p, us)
            BY <2>2, AddedKeeps
      <2>4. QED
            BY <2>3 DEF RootCount
<1>6. DOMAIN ts \subseteq DOMAIN us /\ q \in DOMAIN us
      BY <1>5 DEF Keeping
<1>7. PICK U : U = Put(T, s, q)
      OBVIOUS
<1>8. q = Append(p, c) /\ c \in Numbers /\ OpensAt(s, ts, p, us, q, c)
      <2>1. q = Append(p, c) /\ c \in Numbers
            BY <1>4, <1>5 DEF Adds
      <2>2. QED
            BY <1>1, <1>5, <1>6, <2>1 DEF OpensAt
<1>9. /\ Mapped(U, e, us) /\ Nested(U, e, q)
      /\ Keyed(e) = Keyed(d) \cup {s} /\ U[s] = q /\ \A t \in Keyed(d) : U[t] = T[t]
      <2>1. Mapped(T, d, ts) /\ Nested(T, d, p) /\ p \in DOMAIN ts
            BY <1>2
      <2>2. s \in Keys /\ h = Opener(s)
            BY <1>1
      <2>3. OpensAt(s, ts, p, us, q, c)
            BY <1>8
      <2>4. Mapped(U, e, us) /\ Nested(U, e, q) /\ Keyed(e) = Keyed(d) \cup {s} /\ U[s] = q /\ s \notin Keyed(d)
            BY <1>7, <2>1, <2>2, <2>3, Opening
      <2>5. \A t \in Keyed(d) : U[t] = T[t]
            BY <1>7, <2>1, <2>4 DEF Put, Mapped
      <2>6. QED
            BY <2>4, <2>5
<1>10. p # <<>>
       <2>1. s \in Keyed(e)
             BY <1>9
       <2>2. Len(U[s]) >= 2
             BY <1>9, <2>1 DEF Mapped
       <2>3. SUFFICES ASSUME p = <<>> PROVE FALSE
             OBVIOUS
       <2>4. q = Append(<<>>, c)
             BY <1>8, <2>3
       <2>5. Append(<<>>, c) = <<c>>
             OBVIOUS
       <2>6. Len(q) = 1
             <3>1. q = <<c>>
                   BY <2>4, <2>5
             <3>2. QED
                   BY <3>1
       <2>7. Len(q) >= 2
             BY <1>9, <2>2
       <2>8. QED
             BY <2>6, <2>7
<1>11. Heads(us)
       BY <1>5, <1>10, OpenedHeads DEF SInv, Entered, GoodTables
<1>12. Entered(U, e, us, sy)
       <2>1. Entered(T, d, ts, sy)
             BY DEF SInv
       <2>2. QED
             BY <1>1, <1>2, <1>5, <1>9, <1>11, <2>1, OpenedEntered
<1>13. AllFilled(U, e, us, sy)
       <2>1. AllFilled(T, d, ts, sy)
             BY DEF SInv
       <2>2. QED
             BY <1>1, <1>2, <1>5, <1>9, <2>1, OpenedFilled
<1>14. IdsDone(e, sy)
       <2>1. \A x \in Identifiers : h # Middle(x)
             BY VisitsDiffer
       <2>2. QED
             BY <2>1, IdsKept DEF SInv
<1>15. BitsDone(e, ta)
       <2>1. \A g \in Declarators : h # Enter(g) /\ h # Middle(g)
             <3>1. ASSUME NEW g \in Declarators PROVE g # s
                   BY BlockFacts DEF Declarators
             <3>2. QED
                   BY <3>1, VisitsDiffer
       <2>2. BitsDone(d, ta)
             BY DEF SInv
       <2>3. QED
             BY <2>1, <2>2, BitKept
<1>16. Shape(U, e, us, q)
       BY <1>6, <1>9 DEF Shape
<1>17. QED
       BY <1>12, <1>13, <1>14, <1>15, <1>16 DEF SInv

(* A function's table, when its name was tied.                             *)
LEMMA NameDone ==
  ASSUME Tidy(tree), NEW d, NEW g \in Declarators, IsTime(d, Middle(g)),
         NEW sy, IdsDone(d, sy)
  PROVE  Left(g) \in Decl(sy)
<1>1. g \in Seq(Steps) /\ Left(g) \in Identifiers /\ Left(g) \in Seq(Steps)
      BY DeclaratorFacts
<1>2. IsDeclared(Left(g))
      BY NameFacts
<1>3. Middle(Left(g)) \in Visits /\ OnPath(Middle(Left(g))) /\ Middle(Left(g)).n = Left(g)
      BY <1>1, IdentifierFacts
<1>4. Past(Middle(Left(g)), Middle(g))
      BY <1>1, <1>3, PastAtNode, BelowOrder
<1>5. QED
      BY <1>1, <1>2, <1>3, <1>4 DEF IdsDone, Decl, IsTime

(* The table q of the declarator g is the one of the moment from now on.   *)
TurnsTo(g, sy, ts, us, q) ==
  /\ \E c \in Numbers : q = <<c>>
  /\ Keeping(ts, us, q) /\ Heads(us) /\ us[q].tablefor = sy[Left(g)]

(* Whether new or found, such a table keeps the invariant.                 *)
LEMMA FunctionOpened ==
  ASSUME Tidy(tree), NEW d, NEW h, IsTime(d, h), NEW e, e = d \cup ({h} \cap Visits),
         NEW g \in Declarators, h = Middle(g),
         NEW T, NEW ts, NEW p, NEW sy, NEW ta, SInv(T, d, ts, p, sy, ta), GoodTables(ts),
         NEW us, NEW q, TurnsTo(g, sy, ts, us, q)
  PROVE  \E U : SInv(U, e, us, q, sy, {})
<1>1. PICK c : c \in Numbers /\ q = <<c>>
      BY DEF TurnsTo
<1>2. Keeping(ts, us, q) /\ Heads(us) /\ us[q].tablefor = sy[Left(g)]
      BY DEF TurnsTo
<1>3. PICK s : s = Region[g]
      OBVIOUS
<1>4. s \in Functions
      BY <1>3 DEF Functions
<1>5. s \in Keys /\ s \notin Blocks /\ Header(s) = g
      BY <1>3, <1>4, FunctionFacts
<1>6. h = Opener(s)
      BY <1>5 DEF Opener
<1>7. Mapped(T, d, ts) /\ Nested(T, d, p) /\ p \in DOMAIN ts
      BY DEF SInv, Shape
<1>8. DOMAIN ts \subseteq DOMAIN us /\ q \in DOMAIN us
      BY <1>2 DEF Keeping
<1>9. PICK U : U = Put(T, s, q)
      OBVIOUS
<1>10. /\ Mapped(U, e, us) /\ Nested(U, e, q)
      /\ Keyed(e) = Keyed(d) \cup {s} /\ U[s] = q /\ \A t \in Keyed(d) : U[t] = T[t]
      <2>1. OpensAt(s, ts, p, us, q, c)
            BY <1>1, <1>5, <1>8 DEF OpensAt
      <2>2. /\ Mapped(U, e, us) /\ Nested(U, e, q)
            /\ s \notin Keyed(d) /\ Keyed(e) = Keyed(d) \cup {s}
            /\ U[s] = q /\ \A t \in Keyed(d) : t # s /\ U[t] = T[t]
            BY <1>5, <1>6, <1>7, <1>9, <2>1, Opening
      <2>3. QED
            BY <2>2
<1>11. Left(Header(s)) \in Decl(sy) /\ us[q].tablefor = sy[Left(Header(s))]
      BY <1>5, <1>2, NameDone DEF SInv
<1>12. Entered(U, e, us, sy)
       <2>1. Entered(T, d, ts, sy)
             BY DEF SInv
       <2>2. QED
             BY <1>7, <1>10, <1>11, <1>2, <2>1, OpenedEntered
<1>13. AllFilled(U, e, us, sy)
       <2>1. AllFilled(T, d, ts, sy)
             BY DEF SInv
       <2>2. QED
             BY <1>2, <1>5, <1>6, <1>7, <1>10, <2>1, OpenedFilled
<1>14. IdsDone(e, sy)
       <2>1. \A x \in Identifiers : h # Middle(x)
             <3>1. ASSUME NEW x \in Identifiers PROVE x # g
                   BY DeclaratorFacts, IdentifierFacts
             <3>2. QED
                   BY <3>1, VisitsDiffer
       <2>2. QED
             BY <2>1, IdsKept DEF SInv
<1>15. BitsDone(e, {})
       BY BitCleared
<1>16. Shape(U, e, us, q)
       BY <1>8, <1>10 DEF Shape
<1>17. QED
       BY <1>12, <1>13, <1>14, <1>15, <1>16 DEF SInv

(* The table that is found is that of the function, if there is one.       *)
LEMMA TableFound ==
  ASSUME Tidy(tree), NEW d, NEW g \in Declarators, IsTime(d, Middle(g)),
         NEW T, NEW ts, NEW p, NEW sy, NEW ta, SInv(T, d, ts, p, sy, ta), GoodTables(ts),
         NEW k \in 1..ts[<<>>].children, ts[<<k>>].name = At[Left(g)].string_data
  PROVE  <<k>> \in DOMAIN ts /\ k \in Numbers /\ ts[<<k>>].tablefor = sy[Left(g)]
<1>1. <<>> \in DOMAIN ts /\ ts[<<>>].children \in Nat
      BY DEF GoodTables, IsFamily
<1>2. k \in Numbers /\ k <= ts[<<>>].children
      BY <1>1 DEF Numbers
<1>3. <<k>> \in DOMAIN ts
      <2>1. Append(<<>>, k) \in DOMAIN ts
            BY <1>1, <1>2 DEF GoodTables, IsFamily
      <2>2. QED
            BY <2>1
<1>4. PICK x : x = Left(g)
      OBVIOUS
<1>5. x \in Decl(sy) /\ ScopeOf(x) = <<>>
      BY <1>4, NameDone, NameFacts DEF SInv
<1>6. T[<<>>] = <<>>
      BY DEF SInv, Shape, Mapped
<1>7. Valid(ts, sy[x]) /\ sy[x] = <<<<>>, sy[x][2]>> /\ SymbolAt(ts, sy[x]).name = At[x].string_data
      <2>1. Scoped(T, d, ts, sy)
            BY DEF SInv, Entered
      <2>2. QED
            BY <1>5, <1>6, <2>1 DEF Scoped
<1>8. PICK id : id = ts[<<k>>].tablefor
      OBVIOUS
<1>9. IsHead(ts, ts[<<k>>])
      BY DEF SInv, Entered, Heads
<1>10. Valid(ts, id) /\ id = <<<<>>, id[2]>> /\ SymbolAt(ts, id).name = At[x].string_data
       BY <1>4, <1>8, <1>9 DEF IsHead
<1>11. PICK i, j : i = id[2] /\ j = sy[x][2]
       OBVIOUS
<1>12. id = <<<<>>, i>> /\ sy[x] = <<<<>>, j>> /\ i \in 1..Len(ts[<<>>].symbols) /\ j \in 1..Len(ts[<<>>].symbols)
       <2>1. id[2] \in 1..Len(ts[id[1]].symbols) /\ sy[x][2] \in 1..Len(ts[sy[x][1]].symbols)
             BY <1>7, <1>10 DEF Valid
       <2>2. id[1] = <<>> /\ sy[x][1] = <<>>
             BY <1>7, <1>10
       <2>3. QED
             BY <1>7, <1>10, <1>11, <2>1, <2>2
<1>13. NamedOnce(ts, sy)
       BY DEF SInv, Entered
<1>14. i = j
       BY <1>1, <1>7, <1>10, <1>12, <1>13 DEF NamedOnce
<1>15. QED
       BY <1>2, <1>3, <1>4, <1>8, <1>12, <1>14

(* It is opened, or found.                                                 *)
AddsFor(g, sy, ts, p, us, q) == Adds(ts, p, At[Left(g)].string_data, sy[Left(g)], us, q)

(* No table is open in the middle of a declarator.                         *)
LEMMA NothingOpen ==
  ASSUME Tidy(tree), NEW d, NEW g \in Declarators, IsTime(d, Middle(g)),
         NEW T, NEW ts, NEW p, GoodTables(ts), Shape(T, d, ts, p)
  PROVE  p = <<>>
<1>1. Mapped(T, d, ts) /\ Nested(T, d, p) /\ p \in DOMAIN ts /\ T[<<>>] = <<>>
      BY DEF Shape, Mapped
<1>2. PICK h : h = Middle(g)
      OBVIOUS
<1>3. IsTime(d, h)
      BY <1>2
<1>4. PICK s : s = Region[g] /\ s \in Functions
      BY DEF Functions
<1>5. s \in Keys /\ s \notin Blocks /\ Header(s) = g
      BY <1>4, FunctionFacts
<1>6. h = Opener(s)
      BY <1>2, <1>5 DEF Opener
<1>7. \A t : IsOpen(d, t) => t = <<>>
      <2>1. ASSUME NEW t \in Keys, IsOpen(d, t) PROVE FALSE
            <3>1. t # s
                  <4>1. IsOpen(d, s) => Opener(s) \in d
                        BY <1>5, KeyFacts DEF IsOpen
                  <4>2. ~Past(h, h)
                        BY <1>3, PastIrreflexive DEF IsTime
                  <4>3. QED
                        BY <1>3, <1>6, <2>1, <4>1, <4>2 DEF IsTime
            <3>2. IsWithin(s, t)
                  BY <1>3, <1>5, <1>6, <2>1, <3>1, OpensWithin
            <3>3. QED
                  BY <1>4, <1>5, <2>1, <3>2, KeysNest
      <2>2. QED
            BY <2>1 DEF IsOpen
<1>8. p \in Seq(Numbers) /\ Len(p) \in Nat
      BY <1>1, TablePath
<1>9. Len(p) \in 0..Len(p)
      BY <1>8
<1>10. Len(T[<<>>]) = Len(p)
      BY <1>1, <1>7, <1>9 DEF Nested
<1>11. Len(p) = 0
      BY <1>1, <1>10
<1>12. QED
      BY <1>8, <1>11, EmptySeq

(* A new table is made for the function.                                   *)
LEMMA FunctionAdded ==
  ASSUME Tidy(tree), NEW d, NEW h, IsTime(d, h), NEW e, e = d \cup ({h} \cap Visits),
         NEW g \in Declarators, h = Middle(g),
         NEW T, NEW ts, NEW p, NEW sy, NEW ta, SInv(T, d, ts, p, sy, ta), GoodTables(ts),
         NEW us, NEW q, AddsFor(g, sy, ts, p, us, q)
  PROVE  \E U : SInv(U, e, us, q, sy, {})
<1>1. Mapped(T, d, ts) /\ Nested(T, d, p) /\ p \in DOMAIN ts
      BY DEF SInv, Shape
<1>2. PICK x : x = Left(g)
      OBVIOUS
<1>3. x \in Decl(sy) /\ ScopeOf(x) = <<>>
      BY <1>2, NameDone, NameFacts DEF SInv
<1>4. T[<<>>] = <<>>
      BY <1>1 DEF Mapped
<1>5. Valid(ts, sy[x]) /\ sy[x] = <<<<>>, sy[x][2]>> /\ SymbolAt(ts, sy[x]).name = At[x].string_data
      <2>1. Scoped(T, d, ts, sy)
            BY DEF SInv, Entered
      <2>2. QED
            BY <1>3, <1>4, <2>1 DEF Scoped
<1>6. IsRef(ts, sy[x])
      BY <1>5 DEF IsRef
<1>7. PICK table : table = NewTable(At[x].string_data, sy[x])
      OBVIOUS
<1>8. table.name = At[x].string_data /\ table.tablefor = sy[x]
      BY <1>7 DEF NewTable
<1>9. PICK c : c = ts[p].children + 1
      OBVIOUS
<1>10. Adds(ts, p, At[x].string_data, sy[x], us, q) /\ q = Append(p, c)
       BY <1>2, <1>9 DEF Adds, AddsFor
<1>11. /\ Keeping(ts, us, q) /\ c \in Numbers /\ us[q] = table
       /\ p = <<>> => us[<<>>].children = ts[<<>>].children + 1
       <2>1. /\ Keeping(ts, us, q) /\ ts[p].children + 1 \in Numbers
             /\ us[q] = NewTable(At[x].string_data, sy[x])
             /\ RootCount(ts, p, us)
             BY <1>1, <1>6, <1>10, AddedKeeps
       <2>2. QED
             BY <1>7, <1>9, <2>1 DEF RootCount
<1>12. p = <<>>
       <2>1. Shape(T, d, ts, p)
             BY DEF SInv
       <2>2. QED
             BY <2>1, NothingOpen
<1>13. q = <<c>> /\ c = ts[<<>>].children + 1
       BY <1>9, <1>10, <1>12
<1>14. Heads(us)
       <2>1. IsHead(ts, table)
             BY <1>5, <1>8 DEF IsHead
       <2>2. IsFamily(ts) /\ Heads(ts)
             BY DEF GoodTables, SInv, Entered
       <2>3. QED
             BY <1>11, <1>12, <1>13, <2>1, <2>2, OpenedHeads
<1>15. us[q].tablefor = sy[Left(g)]
       BY <1>2, <1>8, <1>11
<1>16. QED
       <2>1. Keeping(ts, us, q)
             BY <1>11
       <2>2. c \in Numbers /\ q = <<c>>
             BY <1>11, <1>13
       <2>3. QED
             BY <1>14, <1>15, <2>1, <2>2, FunctionOpened DEF TurnsTo

(* The table of the function is found and entered again.                   *)
LEMMA FunctionFound ==
  ASSUME Tidy(tree), NEW d, NEW h, IsTime(d, h), NEW e, e = d \cup ({h} \cap Visits),
         NEW g \in Declarators, h = Middle(g),
         NEW T, NEW ts, NEW p, NEW sy, NEW ta, SInv(T, d, ts, p, sy, ta), GoodTables(ts),
         NEW k \in 1..ts[<<>>].children, ts[<<k>>].name = At[Left(g)].string_data
  PROVE  \E U : SInv(U, e, ts, <<k>>, sy, {})
<1>1. <<k>> \in DOMAIN ts /\ k \in Numbers /\ ts[<<k>>].tablefor = sy[Left(g)]
      BY TableFound
<1>2. PICK q : q = <<k>>
      OBVIOUS
<1>3. Keeping(ts, ts, q) /\ Heads(ts)
      BY <1>1, <1>2, SameKeeps DEF SInv, Entered
<1>4. \E U : SInv(U, e, ts, q, sy, {})
      <2>1. \E c \in Numbers : q = <<c>>
            BY <1>1, <1>2
      <2>2. PICK us : us = ts
            OBVIOUS
      <2>3. TurnsTo(g, sy, ts, us, q)
            BY <1>1, <1>2, <1>3, <2>1, <2>2 DEF TurnsTo
      <2>4. \E U : SInv(U, e, us, q, sy, {})
            BY <2>3, FunctionOpened
      <2>5. QED
            BY <2>2, <2>4
<1>5. QED
      BY <1>2, <1>4
-----------------------------------------------------------------------------
(* Two declarators of a function.                                          *)

(* What is below a path is that path and the rest.                         *)
LEMMA Rest ==
  ASSUME NEW k \in Seq(Steps), NEW e \in Seq(Steps), AtOrBelow(e, k)
  PROVE  \E r \in Seq(Steps) : e = k \o r
<1>1. PICK a, b : a = Len(k) /\ b = Len(e)
      OBVIOUS
<1>2. a \in Nat /\ b \in Nat /\ a <= b /\ SubSeq(e, 1, a) = k
      BY <1>1, LenProperties DEF AtOrBelow
<1>3. 1 \in 1..(b + 1) /\ a \in (1 - 1)..b /\ b \in a..b
      BY <1>2
<1>4. SubSeq(e, 1, a) \o SubSeq(e, a + 1, b) = SubSeq(e, 1, b)
      BY <1>1, <1>3, ConcatAdjacentSubSeq
<1>5. SubSeq(e, 1, b) = e
      BY <1>1, SubSeqFull
<1>6. PICK r : r = SubSeq(e, a + 1, b)
      OBVIOUS
<1>7. r \in Seq(Steps)
      <2>1. a + 1 \in Int /\ b \in Int
            BY <1>2
      <2>2. \A i \in (a + 1)..b : e[i] \in Steps
            <3>1. \A i \in (a + 1)..b : i \in 1..Len(e)
                  BY <1>1, <1>2
            <3>2. QED
                  BY <3>1, ElementOfSeq
      <2>3. QED
            BY <1>6, <2>1, <2>2, SubSeqProperties
<1>8. QED
      BY <1>2, <1>4, <1>5, <1>6, <1>7

(* Paths that begin alike.                                                 *)
LEMMA Joined ==
  ASSUME NEW k \in Seq(Steps)
  PROVE  /\ \A r \in Seq(Steps) : k \o r \in Seq(Steps) /\ AtOrBelow(k \o r, k)
         /\ \A r, q \in Seq(Steps) : AtOrBelow(k \o r, k \o q) <=> AtOrBelow(r, q)
         /\ \A r, q \in Seq(Steps) : k \o r = k \o q <=> r = q
<1>1. Len(k) \in Nat
      BY LenProperties
<1>2. ASSUME NEW r \in Seq(Steps)
      PROVE  /\ k \o r \in Seq(Steps) /\ Len(k \o r) = Len(k) + Len(r) /\ Len(r) \in Nat
             /\ \A i \in 1..Len(k) : (k \o r)[i] = k[i]
             /\ \A i \in 1..Len(r) : (k \o r)[Len(k) + i] = r[i]
      <2>1. Len(r) \in Nat /\ k \o r \in Seq(Steps) /\ Len(k \o r) = Len(k) + Len(r)
            BY LenProperties, ConcatProperties
      <2>2. \A i \in 1..(Len(k) + Len(r)) : (k \o r)[i] = IF i <= Len(k) THEN k[i] ELSE r[i - Len(k)]
            BY ConcatProperties
      <2>3. \A i \in 1..Len(k) : (k \o r)[i] = k[i]
            BY <1>1, <2>1, <2>2
      <2>4. ASSUME NEW i \in 1..Len(r) PROVE (k \o r)[Len(k) + i] = r[i]
            <3>1. Len(k) + i \in 1..(Len(k) + Len(r)) /\ ~(Len(k) + i <= Len(k)) /\ (Len(k) + i) - Len(k) = i
                  BY <1>1, <2>1
            <3>2. QED
                  BY <2>2, <3>1
      <2>5. QED
            BY <2>1, <2>3, <2>4
<1>3. ASSUME NEW r \in Seq(Steps) PROVE AtOrBelow(k \o r, k)
      <2>1. Len(k) <= Len(k \o r)
            BY <1>1, <1>2
      <2>2. QED
            BY <1>2, <2>1, BelowOrder
<1>4. ASSUME NEW r \in Seq(Steps), NEW q \in Seq(Steps)
      PROVE  AtOrBelow(k \o r, k \o q) <=> AtOrBelow(r, q)
      <2>1. /\ AtOrBelow(k \o r, k \o q) <=> Len(k \o q) <= Len(k \o r) /\ \A i \in 1..Len(k \o q) : (k \o r)[i] = (k \o q)[i]
            /\ AtOrBelow(r, q) <=> Len(q) <= Len(r) /\ \A i \in 1..Len(q) : r[i] = q[i]
            <3>1. PICK m, l : m = k \o r /\ l = k \o q
                  OBVIOUS
            <3>2. m \in Seq(Steps) /\ l \in Seq(Steps)
                  BY <1>2, <3>1
            <3>3. AtOrBelow(m, l) <=> Len(l) <= Len(m) /\ \A i \in 1..Len(l) : m[i] = l[i]
                  BY <3>2, BelowOrder
            <3>4. AtOrBelow(r, q) <=> Len(q) <= Len(r) /\ \A i \in 1..Len(q) : r[i] = q[i]
                  BY BelowOrder
            <3>5. QED
                  BY <3>1, <3>3, <3>4
      <2>2. PICK a, b, c : a = Len(k) /\ b = Len(r) /\ c = Len(q)
            OBVIOUS
      <2>3. /\ a \in Nat /\ b \in Nat /\ c \in Nat /\ Len(k \o r) = a + b /\ Len(k \o q) = a + c
            /\ \A i \in 1..a : (k \o r)[i] = k[i] /\ (k \o q)[i] = k[i]
            /\ \A i \in 1..b : (k \o r)[a + i] = r[i]
            /\ \A i \in 1..c : (k \o q)[a + i] = q[i]
            BY <1>1, <1>2, <2>2
      <2>4. ASSUME c <= b, \A i \in 1..c : r[i] = q[i], NEW i \in 1..(a + c) PROVE (k \o r)[i] = (k \o q)[i]
            <3>1. CASE i <= a
                  <4>1. i \in 1..a
                        BY <2>3, <3>1
                  <4>2. QED
                        BY <2>3, <4>1
            <3>2. CASE ~(i <= a)
                  <4>1. i - a \in 1..c /\ i - a \in 1..b /\ a + (i - a) = i
                        BY <2>3, <2>4, <3>2
                  <4>2. PICK j : j = i - a
                        OBVIOUS
                  <4>3. j \in 1..c /\ j \in 1..b /\ i = a + j
                        BY <2>3, <4>1, <4>2
                  <4>4. QED
                        BY <2>3, <2>4, <4>3
            <3>3. QED
                  BY <3>1, <3>2
      <2>5. ASSUME c <= b, \A i \in 1..(a + c) : (k \o r)[i] = (k \o q)[i], NEW i \in 1..c PROVE r[i] = q[i]
            <3>1. a + i \in 1..(a + c) /\ i \in 1..b
                  BY <2>3, <2>5
            <3>2. QED
                  BY <2>3, <2>5, <3>1
      <2>6. a + c <= a + b <=> c <= b
            BY <2>3
      <2>7. QED
            BY <2>1, <2>2, <2>3, <2>4, <2>5, <2>6
<1>5. ASSUME NEW r \in Seq(Steps), NEW q \in Seq(Steps), k \o r = k \o q PROVE r = q
      <2>1. AtOrBelow(k \o r, k \o q) /\ AtOrBelow(k \o q, k \o r)
            BY <1>2, <1>5, BelowOrder
      <2>2. AtOrBelow(r, q) /\ AtOrBelow(q, r)
            BY <1>4, <2>1
      <2>3. QED
            BY <2>2, BelowOrder
<1>6. QED
      BY <1>2, <1>3, <1>4, <1>5

(* The same is below nodes that are the same.                              *)
LEMMA Mirrored ==
  ASSUME NEW g, IsNode(g), NEW k, IsNode(k), At[g] = At[k], NEW r \in Seq(Steps), IsPlace(k \o r)
  PROVE  IsPlace(g \o r) /\ At[g \o r] = At[k \o r]
<1>1. g \in Seq(Steps) /\ k \in Seq(Steps) /\ NodeAt(tree, g) = NodeAt(tree, k)
      BY PlaceFacts DEF IsNode
<1>2. \A q \in Seq(Steps) : NodeAt(tree, g \o q) = NodeAt(tree, k \o q)
      BY <1>1, SameBelow
<1>3. g \o r \in Seq(Steps) /\ k \o r \in Seq(Steps)
      BY <1>1, Joined
<1>4. ASSUME NEW j \in 0..(Len(g \o r) - 1) PROVE ~Missing(tree, SubSeq(g \o r, 1, j))
      <2>1. PICK w : w = SubSeq(g \o r, 1, j)
            OBVIOUS
      <2>2. w \in Seq(Steps) /\ Len(w) = j /\ IsWithin(g \o r, w)
            <3>1. PICK m, n : m = g \o r /\ n = Len(m)
                  OBVIOUS
            <3>2. m \in Seq(Steps) /\ n \in Nat /\ j \in 0..(n - 1)
                  BY <1>3, <3>1, LenProperties
            <3>3. j \in 0..n
                  BY <3>2
            <3>4. SubSeq(m, 1, j) \in Seq(Steps) /\ Len(SubSeq(m, 1, j)) = j
                  BY <3>1, <3>2, <3>3, PartPath
            <3>5. w = SubSeq(m, 1, j)
                  BY <2>1, <3>1
            <3>6. j < n
                  BY <3>2
            <3>7. IsWithin(m, w)
                  BY <3>1, <3>4, <3>5, <3>6 DEF IsWithin, Prefix
            <3>8. QED
                  BY <3>1, <3>4, <3>5, <3>7
      <2>3. AtOrBelow(g \o r, w) /\ w # g \o r /\ AtOrBelow(g \o r, g)
            <3>1. PICK m : m = g \o r
                  OBVIOUS
            <3>2. m \in Seq(Steps) /\ AtOrBelow(m, g)
                  BY <1>1, <1>3, <3>1, Joined
            <3>3. AtOrBelow(m, w) /\ w # m
                  BY <2>2, <3>1, <3>2, BelowOrder
            <3>4. QED
                  BY <3>1, <3>2, <3>3
      <2>4. CASE AtOrBelow(g, w)
            <3>1. w = g \/ IsWithin(g, w)
                  BY <1>1, <2>2, <2>4, BelowOrder
            <3>2. IsNode(w)
                  BY <2>2, <3>1, NodeAbove DEF IsNode
            <3>3. QED
                  BY <2>1, <3>2, PlaceFacts DEF IsNode
      <2>5. CASE AtOrBelow(w, g)
            <3>1. PICK q \in Seq(Steps) : w = g \o q
                  BY <1>1, <2>2, <2>5, Rest
            <3>2. AtOrBelow(r, q) /\ r # q
                  BY <1>1, <2>3, <3>1, Joined
            <3>3. AtOrBelow(k \o r, k \o q) /\ k \o r # k \o q /\ k \o q \in Seq(Steps)
                  BY <1>1, <3>2, Joined
            <3>4. IsWithin(k \o r, k \o q)
                  BY <1>3, <3>3, BelowOrder
            <3>5. IsNode(k \o q)
                  BY <3>3, <3>4, NodeAbove
            <3>6. ~Missing(tree, k \o q)
                  BY <3>5, PlaceFacts DEF IsNode
            <3>7. NodeAt(tree, w) = NodeAt(tree, k \o q)
                  BY <1>2, <3>1
            <3>8. QED
                  BY <2>1, <3>6, <3>7 DEF Missing
      <2>6. QED
            BY <1>1, <1>3, <2>2, <2>3, <2>4, <2>5, AboveOne
<1>5. IsPlace(g \o r)
      BY <1>3, <1>4 DEF IsPlace, IsPath, Steps
<1>6. At[g \o r] = NodeAt(tree, g \o r) /\ At[k \o r] = NodeAt(tree, k \o r)
      BY <1>5, PlaceFacts
<1>7. QED
      BY <1>2, <1>5, <1>6

(* e and x are at the same place below k and below g.                      *)
IsTwin(k, e, g, x) == \E r \in Seq(Steps) : e = k \o r /\ x = g \o r

(* So a parameter of a declarator is one of another that is the same.      *)
LEMMA ParameterMirrored ==
  ASSUME Tidy(tree), NEW k \in Declarators, NEW g \in Declarators, At[g] = At[k],
         NEW e \in Identifiers, IsParameter(e), AtOrBelow(e, k)
  PROVE  \E x \in Identifiers : /\ At[x] = At[e] /\ IsParameter(x) /\ AtOrBelow(x, g)
                                /\ ScopeOf(x) = Region[g]
                                /\ IsTwin(k, e, g, x)
<1>1. /\ IsNode(k) /\ k \in Seq(Steps) /\ IsNode(g) /\ g \in Seq(Steps)
      /\ \A f \in Declarators : AtOrBelow(f, k) => f = k
      BY DeclaratorFacts
<1>2. IsNode(e) /\ e \in Seq(Steps) /\ At[e].type = "IDENTIFIER" /\ IsPlace(e)
      BY IdentifierFacts DEF IsNode
<1>3. PICK r \in Seq(Steps) : e = k \o r
      BY <1>1, <1>2, Rest
<1>4. PICK x : x = g \o r
      OBVIOUS
<1>5. IsPlace(x) /\ At[x] = At[e] /\ x \in Seq(Steps) /\ AtOrBelow(x, g)
      BY <1>1, <1>2, <1>3, <1>4, Mirrored, Joined
<1>6. IsNode(x) /\ x \in Identifiers
      BY <1>2, <1>5 DEF IsNode, IsNull, Identifiers, NodePaths
<1>7. PICK m \in Seq(Steps) : IsNode(m) /\ IsWithin(e, m) /\ At[m].subtype = "PARAM_DECL"
      BY <1>2, AboveNode DEF IsParameter
<1>8. Below(m, "FUNCTION_DECL")
      BY <1>7, TidyNode
<1>9. PICK f \in Seq(Steps) : IsNode(f) /\ IsWithin(m, f) /\ At[f].subtype = "FUNCTION_DECL"
      BY <1>7, <1>8, AboveNode DEF IsNode
<1>10. f \in Declarators
       BY <1>9 DEF Declarators, NodePaths
<1>11. AtOrBelow(m, f) /\ AtOrBelow(e, m) /\ e # m /\ AtOrBelow(e, f)
       <2>1. AtOrBelow(m, f) /\ AtOrBelow(e, m) /\ e # m
             BY <1>2, <1>7, <1>9, BelowOrder
       <2>2. QED
             BY <1>2, <1>7, <1>9, <2>1, BelowOrder
<1>12. f = k
       <2>1. AtOrBelow(f, k) \/ AtOrBelow(k, f)
             BY <1>1, <1>2, <1>9, <1>11, AboveOne
       <2>2. QED
             BY <1>10, <2>1, DeclaratorFacts
<1>13. PICK q \in Seq(Steps) : m = k \o q
       BY <1>1, <1>7, <1>11, <1>12, Rest
<1>14. AtOrBelow(r, q) /\ r # q
       BY <1>1, <1>3, <1>11, <1>13, Joined
<1>15. PICK n : n = g \o q
       OBVIOUS
<1>16. IsPlace(n) /\ At[n] = At[m] /\ n \in Seq(Steps)
       BY <1>1, <1>7, <1>13, <1>15, Mirrored, Joined DEF IsNode
<1>17. IsNode(n) /\ At[n].subtype = "PARAM_DECL"
       BY <1>7, <1>16 DEF IsNode, IsNull
<1>18. IsWithin(x, n)
       <2>1. AtOrBelow(g \o r, g \o q) /\ g \o r # g \o q
             <3>1. AtOrBelow(g \o r, g \o q) <=> AtOrBelow(r, q)
                   BY <1>1, Joined
             <3>2. g \o r = g \o q <=> r = q
                   BY <1>1, Joined
             <3>3. QED
                   BY <1>14, <3>1, <3>2
       <2>2. AtOrBelow(x, n) /\ x # n
             BY <1>4, <1>15, <2>1
       <2>3. QED
             BY <1>5, <1>16, <2>2, BelowOrder
<1>19. IsParameter(x)
       BY <1>5, <1>17, <1>18, BelowNode DEF IsParameter
<1>20. ScopeOf(x) = Region[g]
       <2>1. PICK f2 \in Declarators : AtOrBelow(x, Right(f2)) /\ ScopeOf(x) = Region[f2]
             BY <1>6, <1>19, ParameterFacts
       <2>2. f2 \in Seq(Steps)
             BY DeclaratorFacts
       <2>3. AtOrBelow(x, f2)
             BY <1>5, <2>1, <2>2, BelowChildren, BelowOrder
       <2>4. AtOrBelow(f2, g) \/ AtOrBelow(g, f2)
             BY <1>1, <1>5, <2>2, <2>3, AboveOne
       <2>5. f2 = g
             BY <2>4, DeclaratorFacts
       <2>6. QED
             BY <2>1, <2>5
<1>21. IsTwin(k, e, g, x)
       BY <1>3, <1>4 DEF IsTwin
<1>22. QED
       BY <1>5, <1>6, <1>19, <1>20, <1>21

(* Two parts that have one table: the first is a prototype, and the second *)
(* the definition of the same.                                             *)
LEMMA SharedTable ==
  ASSUME Tidy(tree), NEW d, NEW T, NEW ts, NEW sy, Entered(T, d, ts, sy),
         NEW s, s \in Keyed(d), s \in Functions, NEW t, t \in Keyed(d), t \in Functions, s # t, T[s] = T[t]
  PROVE  /\ s \in Definitions <=> t \notin Definitions
         /\ At[Header(s)] = At[Header(t)]
         /\ t \in Definitions =>
              /\ s = Header(s) /\ Before(Header(s), Header(t))
              /\ \A v, w \in Visits : AtOrBelow(v.n, Header(s)) /\ AtOrBelow(w.n, Header(t)) => Past(v, w)
<1>1. /\ Header(s) \in Declarators /\ Region[Header(s)] = s /\ (s \in Definitions <=> Below(Header(s), "FUNCTION_SPEC"))
      /\ Header(t) \in Declarators /\ Region[Header(t)] = t /\ (t \in Definitions <=> Below(Header(t), "FUNCTION_SPEC"))
      /\ s \notin Definitions => s = Header(s)
      BY FunctionFacts
<1>2. PICK g, h : g = Header(s) /\ h = Header(t)
      OBVIOUS
<1>3. PICK x, y : x = Left(g) /\ y = Left(h)
      OBVIOUS
<1>4. /\ g \in Seq(Steps) /\ h \in Seq(Steps) /\ g # h /\ ~AtOrBelow(g, h) /\ ~AtOrBelow(h, g)
      /\ x \in Names /\ y \in Names /\ x \in Identifiers /\ y \in Identifiers
      BY <1>1, <1>2, <1>3, DeclaratorFacts
<1>5. /\ Parent(x) = g /\ Parent(y) = h
      /\ Below(x, "FUNCTION_SPEC") <=> Below(g, "FUNCTION_SPEC")
      /\ Below(y, "FUNCTION_SPEC") <=> Below(h, "FUNCTION_SPEC")
      BY <1>1, <1>2, <1>3, NameFacts
<1>6. x \in Decl(sy) /\ y \in Decl(sy) /\ sy[x] = sy[y] /\ x # y
      <2>1. /\ x \in Decl(sy) /\ ts[T[s]].tablefor = sy[x]
            /\ y \in Decl(sy) /\ ts[T[t]].tablefor = sy[y]
            BY <1>2, <1>3 DEF Entered, Owners
      <2>2. QED
            BY <1>4, <1>5, <2>1
<1>7. /\ Below(y, "FUNCTION_SPEC") <=> ~Below(x, "FUNCTION_SPEC")
      /\ Below(y, "FUNCTION_SPEC") => Past(Middle(x), Middle(y))
      BY <1>4, <1>6 DEF Entered, Defs
<1>8. At[g] = At[h]
      <2>1. At[Parent(x)] = At[Parent(NodeOf(ts, sy[x]))] /\ At[Parent(y)] = At[Parent(NodeOf(ts, sy[y]))]
            BY <1>4, <1>6 DEF Entered, Kinds, SameKind
      <2>2. QED
            BY <1>5, <1>6, <2>1
<1>9. ASSUME t \in Definitions PROVE Before(g, h)
      <2>1. Past(Middle(x), Middle(y))
            BY <1>1, <1>2, <1>5, <1>7, <1>9
      <2>2. OnPath(Middle(x)) /\ OnPath(Middle(y)) /\ AtOrBelow(Middle(x).n, g) /\ AtOrBelow(Middle(y).n, h)
            <3>1. x \in Seq(Steps) /\ y \in Seq(Steps) /\ AtOrBelow(x, g) /\ AtOrBelow(y, h)
                  BY <1>3, <1>4, BelowChildren, BelowOrder
            <3>2. QED
                  BY <3>1, CodeAfter
      <2>3. ~Before(h, g)
            BY <1>4, <2>1, <2>2, PastBefore, PastAsymmetric
      <2>4. QED
            BY <1>4, <2>3, Apart
<1>10. ASSUME t \in Definitions, NEW v \in Visits, NEW w \in Visits, AtOrBelow(v.n, g), AtOrBelow(w.n, h)
       PROVE  Past(v, w)
       BY <1>4, <1>9, <1>10, VisitFacts, PastBefore
<1>11. s \in Definitions <=> t \notin Definitions
       BY <1>1, <1>2, <1>5, <1>7
<1>12. QED
       BY <1>1, <1>2, <1>8, <1>9, <1>10, <1>11
-----------------------------------------------------------------------------
(* The steps that leave a table.                                           *)

(* When the head of a definition is done, all that is in its table was     *)
(* declared in it: of a prototype it has the same parameters.              *)
LEMMA HeadFilled ==
  ASSUME Tidy(tree), NEW d, NEW D, D \in Keyed(d), D \in Definitions, IsTime(d, Leave(Header(D))),
         NEW T, NEW ts, NEW p, NEW sy, NEW ta, SInv(T, d, ts, p, sy, ta)
  PROVE  Filled(T, D, ts, sy)
<1>1. /\ Header(D) \in Declarators /\ Region[Header(D)] = D /\ D \in Functions
      /\ Header(D) \in Seq(Steps) /\ OnPath(Leave(Header(D))) /\ IsNode(Header(D))
      BY DefinitionFacts, DeclaratorFacts, CodeAfter
<1>2. PICK g : g = Header(D)
      OBVIOUS
<1>3. /\ Scoped(T, d, ts, sy) /\ NamedOnce(ts, sy) /\ Entered(T, d, ts, sy) /\ IdsDone(d, sy)
      /\ Mapped(T, d, ts)
      BY DEF SInv, Entered, Shape
<1>4. ASSUME NEW k \in 1..Len(ts[T[D]].symbols)
      PROVE  \E x \in Decl(sy) : ScopeOf(x) = D /\ sy[x] = <<T[D], k>>
      <2>1. PICK e : e = NodeOf(ts, <<T[D], k>>)
            OBVIOUS
      <2>2. T[D] \in DOMAIN ts /\ Len(T[D]) = 1
            BY <1>1, <1>3 DEF Mapped
      <2>3. e \in Decl(sy) /\ sy[e] = <<T[D], k>>
            BY <1>3, <1>4, <2>1, <2>2 DEF NamedOnce
      <2>4. PICK s : s = ScopeOf(e)
            OBVIOUS
      <2>5. /\ e \in Identifiers /\ s \in Keyed(d) /\ T[s] = T[D]
            /\ SymbolAt(ts, <<T[D], k>>).name = At[e].string_data
            <3>1. e \in Identifiers /\ s \in Keyed(d) /\ sy[e] = <<T[s], sy[e][2]>>
                  /\ SymbolAt(ts, sy[e]).name = At[e].string_data
                  BY <1>3, <2>3, <2>4 DEF Scoped
            <3>2. QED
                  BY <2>3, <3>1
      <2>6. CASE s = D
            BY <2>3, <2>4, <2>6
      <2>7. CASE s # D
            <3>1. s \in Functions
                  <4>1. s # <<>>
                        <5>1. SUFFICES ASSUME s = <<>> PROVE FALSE
                              OBVIOUS
                        <5>2. T[<<>>] = <<>> /\ Len(<<>>) = 0
                              BY <1>3 DEF Mapped
                        <5>3. T[D] = <<>>
                              BY <2>5, <5>1, <5>2
                        <5>4. QED
                              BY <2>2, <5>2, <5>3
                  <4>2. s \in Blocks => Len(T[s]) >= 2
                        BY <1>3, <2>5 DEF Mapped
                  <4>3. s \notin Blocks
                        <5>1. SUFFICES ASSUME s \in Blocks PROVE FALSE
                              OBVIOUS
                        <5>2. PICK n : n = Len(T[D])
                              OBVIOUS
                        <5>3. n = 1 /\ n >= 2
                              BY <2>2, <2>5, <4>2, <5>1, <5>2
                        <5>4. QED
                              BY <5>3
                  <4>4. QED
                        BY <2>5, <4>1, <4>3 DEF Keyed, Keys
            <3>2. s \notin Definitions /\ At[Header(s)] = At[g] /\ s = Header(s)
                  BY <1>1, <1>2, <1>3, <2>5, <2>7, <3>1, SharedTable
            <3>3. s \in Declarators /\ ~Below(s, "FUNCTION_SPEC") /\ At[s] = At[g]
                  BY <3>1, <3>2, FunctionFacts
            <3>4. IsParameter(e)
                  <4>1. s # <<>> /\ s \notin Blocks
                        BY <3>1, FunctionFacts
                  <4>2. QED
                        BY <2>4, <2>5, <3>2, <4>1, ScopeFacts
            <3>5. AtOrBelow(e, s)
                  <4>1. s # <<>> /\ s \in Seq(Steps)
                        BY <3>1, FunctionFacts
                  <4>2. Inside(e, s)
                        BY <2>4, <2>5, <4>1, ScopeFacts
                  <4>3. IsWithin(e, s) /\ e \in Seq(Steps)
                        BY <2>5, <4>2, InsideWithin, IdentifierFacts
                  <4>4. QED
                        BY <4>1, <4>3, BelowOrder
            <3>6. PICK x \in Identifiers : /\ At[x] = At[e] /\ IsParameter(x) /\ AtOrBelow(x, g)
                                           /\ ScopeOf(x) = Region[g]
                  BY <1>1, <1>2, <2>5, <3>3, <3>4, <3>5, ParameterMirrored
            <3>7. /\ ScopeOf(x) = D /\ IsDeclared(x) /\ Middle(x) \in Visits /\ Middle(x).n = x
                  BY <1>1, <1>2, <3>6, ParameterFacts, IdentifierFacts
            <3>8. Past(Middle(x), Leave(g))
                  <4>1. Middle(x) # Leave(g)
                        BY VisitsDiffer
                  <4>2. QED
                        BY <1>1, <1>2, <3>6, <3>7, <4>1, LeftLast
            <3>9. x \in Decl(sy)
                  <4>1. Middle(x) \in d
                        BY <1>2, <3>7, <3>8 DEF IsTime
                  <4>2. x \in DOMAIN sy
                        BY <1>3, <4>1 DEF IdsDone
                  <4>3. QED
                        BY <3>7, <4>2 DEF Decl
            <3>10. PICK j : j = sy[x][2]
                   OBVIOUS
            <3>11. /\ sy[x] = <<T[D], j>> /\ Valid(ts, sy[x])
                   /\ SymbolAt(ts, sy[x]).name = At[e].string_data
                   BY <1>3, <3>6, <3>7, <3>9, <3>10 DEF Scoped
            <3>12. j \in 1..Len(ts[T[D]].symbols)
                   BY <3>11 DEF Valid
            <3>13. SymbolAt(ts, <<T[D], j>>).name = SymbolAt(ts, <<T[D], k>>).name
                   BY <2>5, <3>11
            <3>14. j = k
                   BY <1>3, <1>4, <2>2, <3>12, <3>13 DEF NamedOnce
            <3>15. QED
                   BY <3>7, <3>9, <3>11, <3>14
      <2>8. QED
            BY <2>6, <2>7
<1>5. QED
      BY <1>4 DEF Filled

(* A table is left.                                                        *)
IsLeave(h) == \E n : h = Leave(n)

(* Leaving the table of a part keeps the invariant, with the parent as     *)
(* the table of the moment.                                                *)
LEMMA ClosedTable ==
  ASSUME Tidy(tree), NEW d, NEW h, IsTime(d, h), NEW e, e = d \cup ({h} \cap Visits),
         NEW s \in Keys, h = Closer(s), IsLeave(h),
         NEW T, NEW ts, NEW p, NEW sy, NEW ta, SInv(T, d, ts, p, sy, ta), GoodTables(ts),
         NEW us, Kept(ts, us)
  PROVE  p # <<>> /\ T[s] = p /\ IsOpen(d, s) /\ s \in Keyed(d) /\ SInv(T, e, us, Parent(p), sy, ta)
<1>1. Mapped(T, d, ts) /\ Nested(T, d, p) /\ p \in DOMAIN ts
      BY DEF SInv, Shape
<1>2. PICK q : q = Parent(p)
      OBVIOUS
<1>3. /\ IsOpen(d, s) /\ T[s] = p /\ p # <<>> /\ Keyed(e) = Keyed(d)
      /\ Mapped(T, e, us) /\ Nested(T, e, q)
      <2>1. IsOpen(d, s) /\ T[s] = p /\ p # <<>> /\ Keyed(e) = Keyed(d)
            BY <1>1, Closing
      <2>2. Mapped(T, e, ts)
            BY <1>1, Closing
      <2>3. Nested(T, e, Parent(p))
            BY <1>1, Closing
      <2>4. Mapped(T, e, us)
            BY <2>2 DEF Mapped, Kept
      <2>5. QED
            BY <1>2, <2>1, <2>3, <2>4
<1>4. q \in DOMAIN us
      BY <1>1, <1>2, <1>3, TablePath DEF Kept
<1>5. Shape(T, e, us, q)
      BY <1>3, <1>4 DEF Shape
<1>6. IdsDone(e, sy)
      <2>1. \A x \in Identifiers : h # Middle(x)
            BY VisitsDiffer DEF IsLeave
      <2>2. QED
            BY <2>1, IdsKept DEF SInv
<1>7. BitsDone(e, ta)
      <2>1. \A g \in Declarators : h # Enter(g) /\ h # Middle(g)
            BY VisitsDiffer DEF IsLeave
      <2>2. BitsDone(d, ta)
            BY DEF SInv
      <2>3. QED
            BY <2>1, <2>2, BitKept
<1>8. Entered(T, e, us, sy)
      <2>1. IsFamily(ts)
            BY DEF GoodTables
      <2>2. Entered(T, d, us, sy)
            BY <1>1, <2>1, KeptEntered DEF SInv
      <2>3. QED
            BY <1>3, <2>2, SameKeyed
<1>9. AllFilled(T, e, us, sy)
      <2>1. ASSUME NEW D \in Keyed(d), D \in Definitions, h = Leave(Header(D)) PROVE Filled(T, D, ts, sy)
            BY <2>1, HeadFilled
      <2>2. AllFilled(T, d, ts, sy)
            BY DEF SInv
      <2>3. QED
            BY <1>1, <1>3, <2>1, <2>2, StillFilled
<1>10. SInv(T, e, us, q, sy, ta)
       BY <1>5, <1>6, <1>7, <1>8, <1>9 DEF SInv
<1>11. QED
       BY <1>2, <1>3, <1>10, OpenKeyed
-----------------------------------------------------------------------------
(* The steps that tie an identifier.                                       *)

(* Tables that are kept are as good.                                       *)
LEMMA KeptInvariant ==
  ASSUME NEW T, NEW d, NEW ts, NEW p, NEW sy, NEW ta, SInv(T, d, ts, p, sy, ta), IsFamily(ts),
         NEW us, Kept(ts, us)
  PROVE  SInv(T, d, us, p, sy, ta)
<1>1. Mapped(T, d, ts) /\ Nested(T, d, p) /\ p \in DOMAIN ts
      BY DEF SInv, Shape
<1>2. Shape(T, d, us, p)
      BY <1>1 DEF Shape, Mapped, Kept
<1>3. Entered(T, d, us, sy)
      BY <1>1, KeptEntered DEF SInv
<1>4. AllFilled(T, d, us, sy)
      <2>1. ASSUME NEW D \in Keyed(d), D \in Definitions, Leave(Header(D)) \in d
            PROVE  Filled(T, D, us, sy)
            <3>1. Filled(T, D, ts, sy)
                  BY <2>1 DEF SInv, AllFilled
            <3>2. T[D] \in DOMAIN ts
                  BY <1>1 DEF Mapped
            <3>3. QED
                  BY <3>1, <3>2, KeptFilled
      <2>2. QED
            BY <2>1 DEF AllFilled
<1>5. IdsDone(d, sy) /\ BitsDone(d, ta) /\ AllResolved(sy)
      BY DEF SInv
<1>6. QED
      BY <1>2, <1>3, <1>4, <1>5 DEF SInv

(* The walk comes to an identifier.                                        *)
IsTie(x, d, e) == x \in Identifiers /\ IsTime(d, Middle(x)) /\ e = d \cup ({Middle(x)} \cap Visits)

(* Nothing is opened or left there.                                        *)
LEMMA TiedTime ==
  ASSUME Tidy(tree), NEW x, NEW d, NEW e, IsTie(x, d, e), NEW h, h = Middle(x)
  PROVE  /\ h \in Visits /\ h \notin d /\ Keyed(e) = Keyed(d)
         /\ \A t : IsOpen(e, t) <=> IsOpen(d, t)
         /\ \A n : Leave(n) \in e <=> Leave(n) \in d
         /\ \A g \in Declarators : h # Enter(g) /\ h # Middle(g)
         /\ \A y : Middle(y) \in e <=> Middle(y) \in d \/ y = x
<1>1. h \in Visits /\ OnPath(h) /\ At[x].subtype = "NONE"
      BY IdentifierFacts DEF IsTie
<1>2. h \notin d
      BY <1>1, PastIrreflexive DEF IsTime, IsTie
<1>3. e = d \cup {h}
      BY <1>1 DEF IsTie
<1>4. x \notin Declarators
      BY <1>1 DEF Declarators
<1>5. ASSUME NEW s \in Keys PROVE h # Opener(s) /\ h # Closer(s)
      <2>1. /\ s \in Blocks => Opener(s) = Enter(s) /\ Closer(s) = Leave(s)
            /\ s \in Definitions => Opener(s) = Middle(Header(s)) /\ Closer(s) = Leave(Right(s))
            /\ s \in Functions \ Definitions => Opener(s) = Middle(s) /\ Closer(s) = Leave(s)
            BY KeyTimes
      <2>2. s \in Functions => Header(s) \in Declarators /\ (s \notin Definitions => s \in Declarators)
            BY FunctionFacts
      <2>3. CASE s \in Blocks
            BY <2>1, <2>3, VisitsDiffer
      <2>4. CASE s \in Definitions
            <3>1. s \in Functions
                  BY <2>4, DefinitionFacts
            <3>2. QED
                  BY <1>4, <2>1, <2>2, <2>4, <3>1, VisitsDiffer
      <2>5. CASE s \in Functions \ Definitions
            BY <1>4, <2>1, <2>2, <2>5, VisitsDiffer
      <2>6. QED
            BY <2>3, <2>4, <2>5 DEF Keys
<1>6. Keyed(e) = Keyed(d)
      BY <1>3, <1>5 DEF Keyed
<1>7. \A t : IsOpen(e, t) <=> IsOpen(d, t)
      BY <1>3, <1>5 DEF IsOpen
<1>8. \A n : Leave(n) \in e <=> Leave(n) \in d
      BY <1>3, VisitsDiffer
<1>9. \A g \in Declarators : h # Enter(g) /\ h # Middle(g)
      BY <1>4, VisitsDiffer
<1>10. \A y : Middle(y) \in e <=> Middle(y) \in d \/ y = x
       BY <1>3, VisitsDiffer
<1>11. QED
       BY <1>1, <1>2, <1>6, <1>7, <1>8, <1>9, <1>10

(* It is tied, and nothing else is.                                        *)
TiedTo(sy, sz, x, id) ==
  /\ x \notin DOMAIN sy /\ DOMAIN sz = DOMAIN sy \cup {x} /\ sz[x] = id
  /\ \A y \in DOMAIN sy : sz[y] = sy[y] /\ y # x

(* What does not depend on the symbol it is tied to.                       *)
LEMMA TiedRest ==
  ASSUME Tidy(tree), NEW x, NEW d, NEW e, IsTie(x, d, e),
         NEW T, NEW ts, NEW p, NEW sy, NEW ta, SInv(T, d, ts, p, sy, ta),
         NEW us, DOMAIN us = DOMAIN ts, NEW id, NEW sz, sz = Put(sy, x, id)
  PROVE  /\ TiedTo(sy, sz, x, id)
         /\ Shape(T, e, us, p) /\ IdsDone(e, sz) /\ BitsDone(e, ta)
<1>. PICK h : h = Middle(x)
     OBVIOUS
<1>1. /\ h \in Visits /\ h \notin d /\ Keyed(e) = Keyed(d)
      /\ \A t : IsOpen(e, t) <=> IsOpen(d, t)
      /\ \A g \in Declarators : h # Enter(g) /\ h # Middle(g)
      /\ \A y : Middle(y) \in e <=> Middle(y) \in d \/ y = x
      BY TiedTime
<1>2. IdsDone(d, sy) /\ BitsDone(d, ta) /\ Mapped(T, d, ts) /\ Nested(T, d, p) /\ p \in DOMAIN ts
      BY DEF SInv, Shape
<1>3. x \notin DOMAIN sy
      BY <1>1, <1>2 DEF IdsDone, IsTie
<1>4. /\ DOMAIN sz = DOMAIN sy \cup {x} /\ sz[x] = id
      /\ \A y \in DOMAIN sy : sz[y] = sy[y] /\ y # x
      BY <1>3 DEF Put
<1>5. Mapped(T, e, us)
      BY <1>1, <1>2 DEF Mapped
<1>6. Nested(T, e, p)
      BY <1>1, <1>2 DEF Nested
<1>7. IdsDone(e, sz)
      BY <1>1, <1>2, <1>4 DEF IdsDone, IsTie
<1>8. BitsDone(e, ta)
      BY <1>1, <1>2, BitKept DEF IsTie
<1>9. TiedTo(sy, sz, x, id)
      BY <1>3, <1>4 DEF TiedTo
<1>10. QED
       BY <1>2, <1>5, <1>6, <1>7, <1>8, <1>9 DEF Shape

(* A declared identifier is no other's declaration that is seen already.   *)
LEMMA StillResolved ==
  ASSUME NEW x, NEW sy, NEW sz, NEW id, TiedTo(sy, sz, x, id), AllResolved(sy),
         IsDeclared(x) \/ Resolved(x, sz)
  PROVE  AllResolved(sz)
<1>0. DOMAIN sz = DOMAIN sy \cup {x} /\ \A y \in DOMAIN sy : sz[y] = sy[y] /\ y # x
      BY DEF TiedTo
<1>1. ASSUME NEW u \in DOMAIN sz, ~IsDeclared(u) PROVE Resolved(u, sz)
      <2>1. CASE u = x
            BY <1>1, <2>1
      <2>2. CASE u \in DOMAIN sy
            <3>1. PICK c \in Seen(u) : /\ c \in DOMAIN sy /\ sy[u] = sy[c]
                                       /\ \A e \in Seen(u) : Len(ScopeOf(e)) <= Len(ScopeOf(c))
                  BY <1>1, <2>2 DEF AllResolved, Resolved
            <3>2. c \in DOMAIN sz /\ sz[u] = sz[c]
                  BY <1>0, <2>2, <3>1
            <3>3. QED
                  BY <3>1, <3>2 DEF Resolved
      <2>3. QED
            BY <1>0, <2>1, <2>2
<1>2. QED
      BY <1>1 DEF AllResolved

(* A table right below the file scope is a function's.                     *)
LEMMA TableOfFunction ==
  ASSUME NEW T, NEW d, NEW ts, Mapped(T, d, ts), NEW s \in Keyed(d), NEW t \in Keyed(d),
         t \in Functions, T[s] = T[t]
  PROVE  s \in Functions
<1>1. PICK n : n = Len(T[t])
      OBVIOUS
<1>2. n = 1
      BY <1>1 DEF Mapped
<1>3. s # <<>>
      <2>1. SUFFICES ASSUME s = <<>> PROVE FALSE
            OBVIOUS
      <2>2. T[<<>>] = <<>> /\ Len(<<>>) = 0
            BY DEF Mapped
      <2>3. T[t] = <<>>
            BY <2>1, <2>2
      <2>4. n = Len(<<>>)
            BY <1>1, <2>3
      <2>5. n = 0
            BY <2>2, <2>4
      <2>6. QED
            BY <1>2, <2>5
<1>4. s \notin Blocks
      <2>1. SUFFICES ASSUME s \in Blocks PROVE FALSE
            OBVIOUS
      <2>2. Len(T[s]) >= 2
            BY <2>1 DEF Mapped
      <2>3. n >= 2
            BY <1>1, <2>2
      <2>4. QED
            BY <1>2, <2>3
<1>5. QED
      BY <1>3, <1>4 DEF Keyed, Keys
-----------------------------------------------------------------------------
(* A symbol r is put at the end of the table p.                            *)
Enters(ts, us, p, r) ==
  /\ DOMAIN us = DOMAIN ts /\ p \in DOMAIN ts
  /\ \A q \in DOMAIN ts : /\ us[q].name = ts[q].name /\ us[q].tablefor = ts[q].tablefor
                          /\ us[q].children = ts[q].children
                          /\ q # p => us[q].symbols = ts[q].symbols
  /\ us[p].symbols = Append(ts[p].symbols, r)

(* All other symbols are those that were there.                            *)
LEMMA EntersSymbols ==
  ASSUME NEW ts, GoodTables(ts), NEW us, NEW p, NEW r, Enters(ts, us, p, r),
         NEW n, n = Len(ts[p].symbols)
  PROVE  /\ n \in Nat /\ Len(us[p].symbols) = n + 1
         /\ \A id : Valid(ts, id) => Valid(us, id) /\ SymbolAt(us, id) = SymbolAt(ts, id)
         /\ Valid(us, <<p, n + 1>>) /\ SymbolAt(us, <<p, n + 1>>) = r /\ ~Valid(ts, <<p, n + 1>>)
         /\ \A q \in DOMAIN us : \A k \in 1..Len(us[q].symbols) :
              k \in 1..Len(ts[q].symbols) \/ (q = p /\ k = n + 1)
<1>1. PICK old, new : old = ts[p].symbols /\ new = us[p].symbols
      OBVIOUS
<1>2. PICK S : old \in Seq(S)
      BY <1>1 DEF Enters, GoodTables, IsTable, GoodSymbols, IsSequence
<1>3. old \in Seq(S \cup {r}) /\ r \in S \cup {r}
      BY <1>2, SeqMonotonic
<1>4. new = Append(old, r) /\ n = Len(old)
      BY <1>1 DEF Enters
<1>5. /\ Len(new) = n + 1 /\ n \in Nat /\ new[n + 1] = r
      /\ \A j \in 1..n : new[j] = old[j]
      BY <1>3, <1>4, AppendProperties, LenProperties
<1>6. DOMAIN us = DOMAIN ts /\ p \in DOMAIN ts /\ \A q \in DOMAIN ts : q # p => us[q].symbols = ts[q].symbols
      BY DEF Enters
<1>7. ASSUME NEW id, Valid(ts, id) PROVE Valid(us, id) /\ SymbolAt(us, id) = SymbolAt(ts, id)
      <2>1. id[1] \in DOMAIN ts /\ id[2] \in 1..Len(ts[id[1]].symbols)
            BY <1>7 DEF Valid
      <2>2. CASE id[1] = p
            <3>1. id[2] \in 1..n
                  BY <2>1, <2>2
            <3>2. id[2] \in 1..(n + 1)
                  BY <1>5, <3>1
            <3>3. us[id[1]].symbols = new /\ ts[id[1]].symbols = old
                  BY <1>1, <2>2
            <3>4. QED
                  BY <1>5, <1>6, <2>1, <3>1, <3>2, <3>3 DEF Valid, SymbolAt
      <2>3. CASE id[1] # p
            BY <1>6, <2>1, <2>3 DEF Valid, SymbolAt
      <2>4. QED
            BY <2>2, <2>3
<1>8. Valid(us, <<p, n + 1>>) /\ SymbolAt(us, <<p, n + 1>>) = r
      <2>1. n + 1 \in 1..(n + 1)
            BY <1>5
      <2>2. QED
            BY <1>1, <1>5, <1>6, <2>1 DEF Valid, SymbolAt
<1>9. ~Valid(ts, <<p, n + 1>>)
      <2>1. n + 1 \notin 1..n
            BY <1>5
      <2>2. QED
            BY <2>1 DEF Valid
<1>10. ASSUME NEW q \in DOMAIN us, NEW k \in 1..Len(us[q].symbols)
       PROVE  k \in 1..Len(ts[q].symbols) \/ (q = p /\ k = n + 1)
       <2>1. CASE q = p
             <3>1. k \in 1..(n + 1)
                   BY <1>1, <1>5, <2>1
             <3>2. k \in 1..n \/ k = n + 1
                   BY <1>5, <3>1
             <3>3. QED
                   BY <2>1, <3>2
       <2>2. CASE q # p
             BY <1>6, <2>2
       <2>3. QED
             BY <2>1, <2>2
<1>11. Len(us[p].symbols) = n + 1
       BY <1>1, <1>5
<1>12. QED
       BY <1>5, <1>7, <1>8, <1>9, <1>10, <1>11

(* The symbol that insert_symbol makes of the identifier x.                *)
IsNewSymbol(x, r) ==
  /\ IsFull(r) /\ r.name = At[x].string_data /\ r.node = x /\ IsFunSymbol(r)
  /\ x \in Names /\ Below(x, "FUNCTION_SPEC") => r.funcinfo.is_defined

(* The name is not in the table.                                           *)
IsNewName(ts, p, x) == \A k \in 1..Len(ts[p].symbols) : SymbolAt(ts, <<p, k>>).name # At[x].string_data

(* What the tables have is what was entered, and the new symbol.           *)
LEMMA NewEntered ==
  ASSUME NEW T, NEW d, NEW e, NEW ts, NEW sy, Entered(T, d, ts, sy), GoodTables(ts), Keyed(e) = Keyed(d),
         Mapped(T, d, ts),
         NEW x \in Identifiers, IsDeclared(x), ScopeOf(x) \in Keyed(d),
         NEW p, T[ScopeOf(x)] = p, NEW us, NEW r, Enters(ts, us, p, r), IsNewSymbol(x, r),
         IsNewName(ts, p, x), NEW n, n = Len(ts[p].symbols),
         NEW id, id = <<p, n + 1>>, NEW sz, TiedTo(sy, sz, x, id)
  PROVE  Entered(T, e, us, sz)
<1>0. /\ DOMAIN sz = DOMAIN sy \cup {x} /\ sz[x] = <<p, n + 1>>
      /\ \A y \in DOMAIN sy : sz[y] = sy[y] /\ y # x
      BY DEF TiedTo
<1>1. /\ n \in Nat
      /\ \A i : Valid(ts, i) => Valid(us, i) /\ SymbolAt(us, i) = SymbolAt(ts, i)
      /\ Valid(us, <<p, n + 1>>) /\ SymbolAt(us, <<p, n + 1>>) = r /\ ~Valid(ts, <<p, n + 1>>)
      /\ \A q \in DOMAIN us : \A k \in 1..Len(us[q].symbols) :
           k \in 1..Len(ts[q].symbols) \/ (q = p /\ k = n + 1)
      /\ Len(us[p].symbols) = n + 1
      BY EntersSymbols
<1>2. DOMAIN us = DOMAIN ts /\ p \in DOMAIN ts
      /\ \A q \in DOMAIN ts : /\ us[q].name = ts[q].name /\ us[q].tablefor = ts[q].tablefor
                              /\ us[q].children = ts[q].children
      BY DEF Enters
<1>3. /\ Scoped(T, d, ts, sy) /\ NamedOnce(ts, sy) /\ Kinds(ts, sy) /\ Funs(ts)
      /\ Heads(ts) /\ Owners(T, d, ts, sy) /\ Defs(ts, sy)
      BY DEF Entered
<1>4. Decl(sz) = Decl(sy) \cup {x} /\ \A y \in Decl(sy) : sz[y] = sy[y] /\ y # x
      BY <1>0 DEF Decl
<1>5. ASSUME NEW y \in Decl(sz)
      PROVE  \/ y = x /\ sz[y] = <<p, n + 1>> /\ SymbolAt(us, sz[y]) = r
             \/ y \in Decl(sy) /\ sz[y] = sy[y] /\ Valid(ts, sy[y]) /\ SymbolAt(us, sz[y]) = SymbolAt(ts, sy[y])
                /\ sz[y] # <<p, n + 1>>
      <2>1. CASE y = x
            BY <1>0, <1>1, <2>1
      <2>2. CASE y \in Decl(sy)
            <3>1. sz[y] = sy[y] /\ Valid(ts, sy[y])
                  BY <1>3, <1>4, <2>2 DEF Scoped
            <3>2. QED
                  BY <1>1, <2>2, <3>1
      <2>3. QED
            BY <1>4, <2>1, <2>2
<1>6. Scoped(T, e, us, sz)
      <2>1. ASSUME NEW y \in Decl(sz)
            PROVE  /\ y \in Identifiers /\ ScopeOf(y) \in Keyed(e)
                   /\ Valid(us, sz[y]) /\ sz[y] = <<T[ScopeOf(y)], sz[y][2]>>
                   /\ SymbolAt(us, sz[y]).name = At[y].string_data
            <3>1. CASE y = x
                  <4>1. sz[y][2] = n + 1
                        BY <1>0, <3>1
                  <4>2. QED
                        BY <1>0, <1>1, <3>1, <4>1 DEF IsNewSymbol
            <3>2. CASE y # x
                  <4>1. /\ y \in Decl(sy) /\ sz[y] = sy[y] /\ Valid(ts, sy[y])
                        /\ SymbolAt(us, sz[y]) = SymbolAt(ts, sy[y])
                        BY <1>5, <3>2
                  <4>2. /\ y \in Identifiers /\ ScopeOf(y) \in Keyed(d)
                        /\ sy[y] = <<T[ScopeOf(y)], sy[y][2]>>
                        /\ SymbolAt(ts, sy[y]).name = At[y].string_data
                        BY <1>3, <4>1 DEF Scoped
                  <4>3. QED
                        BY <1>1, <4>1, <4>2
            <3>3. QED
                  BY <3>1, <3>2
      <2>2. QED
            BY <2>1 DEF Scoped
<1>7. NamedOnce(us, sz)
      <2>1. ASSUME NEW q \in DOMAIN us, NEW k \in 1..Len(us[q].symbols), k \in 1..Len(ts[q].symbols)
            PROVE  /\ SymbolAt(us, <<q, k>>) = SymbolAt(ts, <<q, k>>)
                   /\ IsFull(SymbolAt(us, <<q, k>>))
                   /\ NodeOf(us, <<q, k>>) \in Decl(sz) /\ sz[NodeOf(us, <<q, k>>)] = <<q, k>>
            <3>1. q \in DOMAIN ts /\ Valid(ts, <<q, k>>)
                  BY <1>2, <2>1 DEF Valid
            <3>2. SymbolAt(us, <<q, k>>) = SymbolAt(ts, <<q, k>>)
                  BY <1>1, <3>1
            <3>3. /\ IsFull(SymbolAt(ts, <<q, k>>))
                  /\ NodeOf(ts, <<q, k>>) \in Decl(sy) /\ sy[NodeOf(ts, <<q, k>>)] = <<q, k>>
                  BY <1>3, <2>1, <3>1 DEF NamedOnce
            <3>4. NodeOf(us, <<q, k>>) = NodeOf(ts, <<q, k>>)
                  BY <3>2 DEF NodeOf
            <3>5. QED
                  BY <1>4, <3>2, <3>3, <3>4
      <2>2. ASSUME NEW q \in DOMAIN us, NEW k \in 1..Len(us[q].symbols), NEW j \in 1..Len(us[q].symbols),
                   SymbolAt(us, <<q, j>>).name = SymbolAt(us, <<q, k>>).name
            PROVE  j = k
            <3>1. CASE k \in 1..Len(ts[q].symbols) /\ j \in 1..Len(ts[q].symbols)
                  <4>1. SymbolAt(us, <<q, k>>) = SymbolAt(ts, <<q, k>>) /\ SymbolAt(us, <<q, j>>) = SymbolAt(ts, <<q, j>>)
                        BY <2>1, <3>1
                  <4>2. q \in DOMAIN ts
                        BY <1>2
                  <4>3. QED
                        BY <1>3, <2>2, <3>1, <4>1, <4>2 DEF NamedOnce
            <3>2. CASE q = p /\ k = n + 1 /\ j # n + 1
                  <4>1. j \in 1..Len(ts[q].symbols)
                        BY <1>1, <3>2
                  <4>2. SymbolAt(us, <<q, j>>) = SymbolAt(ts, <<q, j>>)
                        BY <2>1, <4>1
                  <4>3. SymbolAt(us, <<q, k>>) = r
                        BY <1>1, <3>2
                  <4>4. QED
                        BY <2>2, <3>2, <4>1, <4>2, <4>3 DEF IsNewName, IsNewSymbol
            <3>3. CASE q = p /\ j = n + 1 /\ k # n + 1
                  <4>1. k \in 1..Len(ts[q].symbols)
                        BY <1>1, <3>3
                  <4>2. SymbolAt(us, <<q, k>>) = SymbolAt(ts, <<q, k>>)
                        BY <2>1, <4>1
                  <4>3. SymbolAt(us, <<q, j>>) = r
                        BY <1>1, <3>3
                  <4>4. QED
                        BY <2>2, <3>3, <4>1, <4>2, <4>3 DEF IsNewName, IsNewSymbol
            <3>4. QED
                  BY <1>1, <3>1, <3>2, <3>3
      <2>3. ASSUME NEW q \in DOMAIN us, NEW k \in 1..Len(us[q].symbols)
            PROVE  /\ IsFull(SymbolAt(us, <<q, k>>))
                   /\ NodeOf(us, <<q, k>>) \in Decl(sz) /\ sz[NodeOf(us, <<q, k>>)] = <<q, k>>
            <3>1. CASE k \in 1..Len(ts[q].symbols)
                  BY <2>1, <3>1
            <3>2. CASE q = p /\ k = n + 1
                  <4>1. SymbolAt(us, <<q, k>>) = r
                        BY <1>1, <3>2
                  <4>2. NodeOf(us, <<q, k>>) = x
                        BY <4>1 DEF NodeOf, IsNewSymbol
                  <4>3. QED
                        BY <1>0, <1>4, <3>2, <4>1, <4>2 DEF IsNewSymbol
            <3>3. QED
                  BY <1>1, <3>1, <3>2
      <2>4. QED
            BY <2>2, <2>3 DEF NamedOnce
<1>8. Kinds(us, sz)
      <2>1. ASSUME NEW y \in Decl(sz) PROVE SameKind(y, NodeOf(us, sz[y]))
            <3>1. CASE y = x
                  <4>1. NodeOf(us, sz[y]) = y
                        BY <1>0, <1>1, <3>1 DEF NodeOf, IsNewSymbol
                  <4>2. QED
                        BY <4>1 DEF SameKind
            <3>2. CASE y # x
                  <4>1. y \in Decl(sy) /\ SymbolAt(us, sz[y]) = SymbolAt(ts, sy[y])
                        BY <1>5, <3>2
                  <4>2. SameKind(y, NodeOf(ts, sy[y]))
                        BY <1>3, <4>1 DEF Kinds
                  <4>3. QED
                        BY <4>1, <4>2 DEF NodeOf
            <3>3. QED
                  BY <3>1, <3>2
      <2>2. QED
            BY <2>1 DEF Kinds
<1>9. Funs(us)
      <2>1. ASSUME NEW q \in DOMAIN us, NEW k \in 1..Len(us[q].symbols) PROVE IsFunSymbol(SymbolAt(us, <<q, k>>))
            <3>1. CASE k \in 1..Len(ts[q].symbols)
                  <4>1. q \in DOMAIN ts /\ Valid(ts, <<q, k>>)
                        BY <1>2, <3>1 DEF Valid
                  <4>2. SymbolAt(us, <<q, k>>) = SymbolAt(ts, <<q, k>>)
                        BY <1>1, <4>1
                  <4>3. QED
                        BY <1>3, <3>1, <4>1, <4>2 DEF Funs
            <3>2. CASE q = p /\ k = n + 1
                  BY <1>1, <3>2 DEF IsNewSymbol
            <3>3. QED
                  BY <1>1, <3>1, <3>2
      <2>2. QED
            BY <2>1 DEF Funs
<1>10. Heads(us)
       <2>1. <<>> \in DOMAIN ts /\ ts[<<>>].children \in Nat
             /\ \A k \in Numbers : Append(<<>>, k) \in DOMAIN ts <=> k <= ts[<<>>].children
             BY DEF GoodTables, IsFamily
       <2>2. ASSUME NEW j \in 1..us[<<>>].children PROVE IsHead(us, us[<<j>>])
             <3>1. j \in 1..ts[<<>>].children
                   BY <1>2, <2>1, <2>2
             <3>2. IsHead(ts, ts[<<j>>])
                   BY <1>3, <3>1 DEF Heads
             <3>3. <<j>> \in DOMAIN ts
                   <4>1. j \in Numbers /\ j <= ts[<<>>].children
                         BY <2>1, <3>1 DEF Numbers
                   <4>2. Append(<<>>, j) \in DOMAIN ts
                         BY <2>1, <4>1
                   <4>3. QED
                         BY <4>2
             <3>4. us[<<j>>].tablefor = ts[<<j>>].tablefor /\ us[<<j>>].name = ts[<<j>>].name
                   BY <1>2, <3>3
             <3>5. IsHead(ts, us[<<j>>])
                   BY <3>2, <3>4 DEF IsHead
             <3>6. QED
                   BY <1>1, <3>5 DEF IsHead
       <2>3. QED
             BY <2>2 DEF Heads
<1>11. Owners(T, e, us, sz)
       <2>1. ASSUME NEW s \in Keyed(e), s \in Functions
             PROVE  Left(Header(s)) \in Decl(sz) /\ us[T[s]].tablefor = sz[Left(Header(s))]
             <3>1. s \in Keyed(d) /\ Left(Header(s)) \in Decl(sy) /\ ts[T[s]].tablefor = sy[Left(Header(s))]
                   BY <1>3, <2>1 DEF Owners
             <3>2. T[s] \in DOMAIN ts
                   BY <3>1 DEF Mapped
             <3>3. QED
                   BY <1>2, <1>4, <3>1, <3>2
       <2>2. QED
             BY <2>1 DEF Owners
<1>12. Defs(us, sz)
       <2>1. ASSUME NEW y \in Decl(sz), y \in Names, Below(y, "FUNCTION_SPEC")
             PROVE  SymbolAt(us, sz[y]).funcinfo.is_defined
             <3>1. CASE y = x
                   BY <1>0, <1>1, <2>1, <3>1 DEF IsNewSymbol
             <3>2. CASE y # x
                   <4>1. y \in Decl(sy) /\ SymbolAt(us, sz[y]) = SymbolAt(ts, sy[y])
                         BY <1>5, <3>2
                   <4>2. SymbolAt(ts, sy[y]).funcinfo.is_defined
                         BY <1>3, <2>1, <4>1 DEF Defs
                   <4>3. QED
                         BY <4>1, <4>2
             <3>3. QED
                   BY <3>1, <3>2
       <2>2. ASSUME NEW y \in Decl(sz), y \in Names, NEW z \in Decl(sz), z \in Names, z # y, sz[z] = sz[y]
             PROVE  /\ Below(z, "FUNCTION_SPEC") <=> ~Below(y, "FUNCTION_SPEC")
                    /\ Below(y, "FUNCTION_SPEC") => Past(Middle(z), Middle(y))
             <3>1. y \in Decl(sy) /\ z \in Decl(sy) /\ sy[z] = sy[y]
                   BY <1>5, <2>2
             <3>2. QED
                   BY <1>3, <2>2, <3>1 DEF Defs
       <2>3. QED
             BY <2>1, <2>2 DEF Defs
<1>13. QED
       BY <1>6, <1>7, <1>8, <1>9, <1>10, <1>11, <1>12 DEF Entered
-----------------------------------------------------------------------------
(* A parameter is declared while the head of its function is not done, and *)
(* no other head that is done can have its table.                          *)
LEMMA NotFilledLater ==
  ASSUME Tidy(tree), NEW x \in Identifiers, IsDeclared(x), NEW d, NEW h, IsTime(d, h), h = Middle(x),
         NEW T, NEW ts, NEW sy, Entered(T, d, ts, sy), Mapped(T, d, ts), ScopeOf(x) \in Keyed(d),
         NEW D \in Keyed(d), D \in Definitions, Leave(Header(D)) \in d, T[D] = T[ScopeOf(x)]
  PROVE  ScopeOf(x) = D
<1>1. SUFFICES ASSUME ScopeOf(x) # D PROVE FALSE
      OBVIOUS
<1>2. PICK s : s = ScopeOf(x)
      OBVIOUS
<1>3. D \in Functions /\ Header(D) \in Declarators /\ Header(D) \in Seq(Steps)
      BY DefinitionFacts, DeclaratorFacts
<1>4. s \in Functions /\ s \in Keyed(d) /\ T[s] = T[D] /\ s # D
      BY <1>1, <1>2, <1>3, TableOfFunction
<1>5. /\ s = Header(s)
      /\ \A v, w \in Visits : AtOrBelow(v.n, Header(s)) /\ AtOrBelow(w.n, Header(D)) => Past(v, w)
      BY <1>3, <1>4, SharedTable
<1>6. AtOrBelow(x, s)
      <2>1. s # <<>> /\ s \in Seq(Steps)
            BY <1>4, FunctionFacts
      <2>2. Inside(x, s)
            BY <1>2, <2>1, ScopeFacts
      <2>3. IsWithin(x, s) /\ x \in Seq(Steps)
            BY <2>2, InsideWithin, IdentifierFacts
      <2>4. QED
            BY <2>1, <2>3, BelowOrder
<1>7. PICK w : w = Leave(Header(D))
      OBVIOUS
<1>8. w \in Visits /\ Past(w, h) /\ w.n = Header(D)
      <2>1. w \in d
            BY <1>7
      <2>2. Leave(Header(D)).n = Header(D)
            BY <1>3, CodeAfter
      <2>3. QED
            BY <1>7, <2>1, <2>2 DEF IsTime
<1>9. AtOrBelow(w.n, Header(D)) /\ h \in Visits /\ h.n = x
      BY <1>3, <1>8, BelowOrder, IdentifierFacts
<1>10. Past(h, w)
       <2>1. AtOrBelow(h.n, Header(s))
             BY <1>5, <1>6, <1>9
       <2>2. QED
             BY <1>5, <1>8, <1>9, <2>1
<1>11. QED
       BY <1>8, <1>9, <1>10, PastAsymmetric, VisitFacts

(* A name that its table does not have.                                    *)
LEMMA DeclaredNew ==
  ASSUME Tidy(tree), NEW x, IsDeclared(x), NEW d, NEW e, IsTie(x, d, e),
         NEW T, NEW ts, NEW p, NEW sy, NEW ta, SInv(T, d, ts, p, sy, ta), GoodTables(ts),
         NEW us, NEW r, Enters(ts, us, p, r), IsNewSymbol(x, r), IsNewName(ts, p, x),
         NEW n, n = Len(ts[p].symbols), NEW id, id = <<p, n + 1>>, NEW sz, sz = Put(sy, x, id)
  PROVE  SInv(T, e, us, p, sz, ta)
<1>1. DOMAIN us = DOMAIN ts /\ p \in DOMAIN ts
      BY DEF Enters
<1>2. TiedTo(sy, sz, x, id) /\ Shape(T, e, us, p) /\ IdsDone(e, sz) /\ BitsDone(e, ta)
      BY <1>1, TiedRest
<1>3. /\ DOMAIN sz = DOMAIN sy \cup {x} /\ sz[x] = id
      /\ \A y \in DOMAIN sy : sz[y] = sy[y] /\ y # x
      BY <1>2 DEF TiedTo
<1>4. Shape(T, d, ts, p) /\ Mapped(T, d, ts) /\ Entered(T, d, ts, sy) /\ AllFilled(T, d, ts, sy) /\ AllResolved(sy)
      BY DEF SInv, Shape
<1>5. ScopeOf(x) \in Keyed(d) /\ T[ScopeOf(x)] = p
      BY <1>4, TopTable DEF IsTie
<1>6. Keyed(e) = Keyed(d) /\ \A m : Leave(m) \in e <=> Leave(m) \in d
      <2>1. Keyed(e) = Keyed(d)
            BY TiedTime
      <2>2. \A m : Leave(m) \in e <=> Leave(m) \in d
            BY TiedTime
      <2>3. QED
            BY <2>1, <2>2
<1>7. Entered(T, e, us, sz)
      <2>1. x \in Identifiers
            BY DEF IsTie
      <2>2. QED
            BY <1>2, <1>4, <1>5, <1>6, <2>1, NewEntered
<1>8. AllFilled(T, e, us, sz)
      <2>1. ASSUME NEW D \in Keyed(e), D \in Definitions, Leave(Header(D)) \in e, NEW k \in 1..Len(us[T[D]].symbols)
            PROVE  \E y \in Decl(sz) : ScopeOf(y) = D /\ sz[y] = <<T[D], k>>
            <3>1. D \in Keyed(d) /\ Leave(Header(D)) \in d
                  BY <1>6, <2>1
            <3>2. T[D] \in DOMAIN us
                  BY <1>1, <1>4, <3>1 DEF Mapped
            <3>3. k \in 1..Len(ts[T[D]].symbols) \/ (T[D] = p /\ k = n + 1)
                  BY <2>1, <3>2, EntersSymbols
            <3>4. CASE k \in 1..Len(ts[T[D]].symbols)
                  <4>1. Filled(T, D, ts, sy)
                        BY <1>4, <2>1, <3>1 DEF AllFilled
                  <4>2. PICK y \in Decl(sy) : ScopeOf(y) = D /\ sy[y] = <<T[D], k>>
                        BY <3>4, <4>1 DEF Filled
                  <4>3. y \in Decl(sz) /\ sz[y] = sy[y]
                        BY <1>3, <4>2 DEF Decl
                  <4>4. QED
                        BY <4>2, <4>3
            <3>5. CASE T[D] = p /\ k = n + 1
                  <4>1. ScopeOf(x) = D
                        BY <1>4, <1>5, <2>1, <3>1, <3>5, NotFilledLater DEF IsTie
                  <4>2. x \in Decl(sz)
                        BY <1>3 DEF Decl
                  <4>3. sz[x] = <<T[D], k>>
                        BY <1>3, <3>5
                  <4>4. QED
                        BY <4>1, <4>2, <4>3
            <3>6. QED
                  BY <3>3, <3>4, <3>5
      <2>2. QED
            BY <2>1 DEF AllFilled, Filled
<1>9. AllResolved(sz)
      BY <1>2, <1>4, StillResolved
<1>10. QED
       BY <1>2, <1>7, <1>8, <1>9 DEF SInv

(* A symbol that the table has, and that may be declared again.            *)
MayDeclare(ts, us, x, id) ==
  /\ SymbolAt(ts, id).name = At[x].string_data /\ SameKind(x, NodeOf(ts, id))
  /\ x \in Names => /\ Below(x, "FUNCTION_SPEC") /\ SymbolAt(us, id).funcinfo.is_defined
                    /\ ~SymbolAt(ts, id).funcinfo.is_defined

(* An identifier is tied to a symbol that an earlier declaration made.     *)
LEMMA DeclaredAgain ==
  ASSUME Tidy(tree), NEW x, IsDeclared(x), NEW d, NEW e, IsTie(x, d, e),
         NEW T, NEW ts, NEW p, NEW sy, NEW ta, SInv(T, d, ts, p, sy, ta), GoodTables(ts),
         NEW us, Kept(ts, us), NEW k, NEW id, id = <<p, k>>, Valid(ts, id), MayDeclare(ts, us, x, id),
         NEW sz, sz = Put(sy, x, id)
  PROVE  SInv(T, e, us, p, sz, ta)
<1>1. DOMAIN us = DOMAIN ts /\ IsFamily(ts)
      BY DEF Kept, GoodTables
<1>2. SInv(T, d, us, p, sy, ta)
      BY <1>1, KeptInvariant
<1>0. TiedTo(sy, sz, x, id) /\ Shape(T, e, us, p) /\ IdsDone(e, sz) /\ BitsDone(e, ta)
      BY <1>1, TiedRest
<1>3. /\ DOMAIN sz = DOMAIN sy \cup {x} /\ sz[x] = id
      /\ \A y \in DOMAIN sy : sz[y] = sy[y] /\ y # x
      BY <1>0 DEF TiedTo
<1>4. Shape(T, d, us, p) /\ Mapped(T, d, us) /\ Entered(T, d, us, sy) /\ AllFilled(T, d, us, sy) /\ AllResolved(sy)
      BY <1>2 DEF SInv, Shape
<1>5. ScopeOf(x) \in Keyed(d) /\ T[ScopeOf(x)] = p
      <2>1. Shape(T, d, ts, p)
            BY DEF SInv
      <2>2. QED
            BY <2>1, TopTable DEF IsTie
<1>6. Keyed(e) = Keyed(d) /\ \A m : Leave(m) \in e <=> Leave(m) \in d
      <2>1. Keyed(e) = Keyed(d)
            BY TiedTime
      <2>2. \A m : Leave(m) \in e <=> Leave(m) \in d
            BY TiedTime
      <2>3. QED
            BY <2>1, <2>2
<1>7. Valid(us, id) /\ SameSymbol(SymbolAt(ts, id), SymbolAt(us, id))
      BY KeptSymbol
<1>8. SymbolAt(us, id).name = At[x].string_data /\ NodeOf(us, id) = NodeOf(ts, id)
      BY <1>7 DEF SameSymbol, MayDeclare, NodeOf
<1>9. Decl(sz) = Decl(sy) \cup {x} /\ \A y \in Decl(sy) : sz[y] = sy[y] /\ y # x
      BY <1>3 DEF Decl
<1>10. /\ Scoped(T, d, us, sy) /\ NamedOnce(us, sy) /\ Kinds(us, sy) /\ Funs(us)
       /\ Heads(us) /\ Owners(T, d, us, sy) /\ Defs(us, sy)
       BY <1>4 DEF Entered
<1>11. Scoped(T, e, us, sz)
       <2>1. ASSUME NEW y \in Decl(sz)
             PROVE  /\ y \in Identifiers /\ ScopeOf(y) \in Keyed(e)
                    /\ Valid(us, sz[y]) /\ sz[y] = <<T[ScopeOf(y)], sz[y][2]>>
                    /\ SymbolAt(us, sz[y]).name = At[y].string_data
             <3>1. CASE y = x
                   <4>1. sz[y] = <<T[ScopeOf(y)], sz[y][2]>>
                         BY <1>3, <1>5, <3>1
                   <4>2. y \in Identifiers
                         BY <3>1 DEF IsTie
                   <4>3. QED
                         BY <1>3, <1>5, <1>6, <1>7, <1>8, <3>1, <4>1, <4>2
             <3>2. CASE y \in Decl(sy)
                   BY <1>6, <1>9, <1>10, <3>2 DEF Scoped
             <3>3. QED
                   BY <1>9, <3>1, <3>2
       <2>2. QED
             BY <2>1 DEF Scoped
<1>12. NamedOnce(us, sz)
       BY <1>9, <1>10 DEF NamedOnce
<1>13. Kinds(us, sz)
       <2>1. ASSUME NEW y \in Decl(sz) PROVE SameKind(y, NodeOf(us, sz[y]))
             <3>1. CASE y = x
                   BY <1>3, <1>8, <3>1 DEF MayDeclare
             <3>2. CASE y \in Decl(sy)
                   BY <1>9, <1>10, <3>2 DEF Kinds
             <3>3. QED
                   BY <1>9, <3>1, <3>2
       <2>2. QED
             BY <2>1 DEF Kinds
<1>14. Owners(T, e, us, sz)
       BY <1>6, <1>9, <1>10 DEF Owners
<1>15. ASSUME x \in Names, NEW y \in Decl(sy), y \in Names, sy[y] = id
       PROVE  ~Below(y, "FUNCTION_SPEC") /\ Past(Middle(y), Middle(x))
       <2>1. ~SymbolAt(ts, sy[y]).funcinfo.is_defined
             BY <1>15 DEF MayDeclare
       <2>2. Defs(ts, sy) /\ IdsDone(d, sy)
             BY DEF SInv, Entered
       <2>3. ~Below(y, "FUNCTION_SPEC")
             BY <1>15, <2>1, <2>2 DEF Defs
       <2>4. Middle(y) \in d
             BY <1>15, <2>2 DEF IdsDone, Decl
       <2>5. QED
             BY <2>3, <2>4 DEF IsTime, IsTie
<1>16. Defs(us, sz)
       <2>1. ASSUME NEW y \in Decl(sz), y \in Names, Below(y, "FUNCTION_SPEC")
             PROVE  SymbolAt(us, sz[y]).funcinfo.is_defined
             <3>1. CASE y = x
                   BY <1>3, <2>1, <3>1 DEF MayDeclare
             <3>2. CASE y \in Decl(sy)
                   BY <1>9, <1>10, <2>1, <3>2 DEF Defs
             <3>3. QED
                   BY <1>9, <3>1, <3>2
       <2>2. ASSUME NEW y \in Decl(sz), y \in Names, NEW z \in Decl(sz), z \in Names, z # y, sz[z] = sz[y]
             PROVE  /\ Below(z, "FUNCTION_SPEC") <=> ~Below(y, "FUNCTION_SPEC")
                    /\ Below(y, "FUNCTION_SPEC") => Past(Middle(z), Middle(y))
             <3>1. CASE y = x
                   <4>1. z \in Decl(sy) /\ sy[z] = id
                         BY <1>3, <1>9, <2>2, <3>1
                   <4>2. Below(x, "FUNCTION_SPEC")
                         BY <2>2, <3>1 DEF MayDeclare
                   <4>3. QED
                         BY <1>15, <2>2, <3>1, <4>1, <4>2
             <3>2. CASE z = x
                   <4>1. y \in Decl(sy) /\ sy[y] = id
                         BY <1>3, <1>9, <2>2, <3>2
                   <4>2. Below(x, "FUNCTION_SPEC")
                         BY <2>2, <3>2 DEF MayDeclare
                   <4>3. QED
                         BY <1>15, <2>2, <3>2, <4>1, <4>2
             <3>3. CASE y \in Decl(sy) /\ z \in Decl(sy)
                   BY <1>9, <1>10, <2>2, <3>3 DEF Defs
             <3>4. QED
                   BY <1>9, <3>1, <3>2, <3>3
       <2>3. QED
             BY <2>1, <2>2 DEF Defs
<1>17. Entered(T, e, us, sz)
       <2>1. Funs(us) /\ Heads(us)
             BY <1>10
       <2>2. QED
             BY <1>11, <1>12, <1>13, <1>14, <1>16, <2>1 DEF Entered
<1>18. AllFilled(T, e, us, sz)
       <2>1. ASSUME NEW D \in Keyed(e), D \in Definitions, Leave(Header(D)) \in e PROVE Filled(T, D, us, sz)
             <3>1. D \in Keyed(d) /\ Leave(Header(D)) \in d
                   BY <1>6, <2>1
             <3>2. Filled(T, D, us, sy)
                   BY <1>4, <2>1, <3>1 DEF AllFilled
             <3>3. QED
                   BY <1>9, <3>2 DEF Filled
       <2>2. QED
             BY <2>1 DEF AllFilled
<1>19. AllResolved(sz)
       BY <1>0, <1>4, StillResolved
<1>20. QED
       BY <1>0, <1>17, <1>18, <1>19 DEF SInv
-----------------------------------------------------------------------------
(* What may be declared again, and what another identifier is tied to.     *)

(* The node of a symbol is declared where its table is.                    *)
LEMMA SymbolNode ==
  ASSUME NEW T, NEW d, NEW ts, NEW p, NEW sy, NEW ta, SInv(T, d, ts, p, sy, ta),
         NEW q, NEW k, NEW id, id = <<q, k>>, Valid(ts, id), NEW f, f = NodeOf(ts, id)
  PROVE  /\ f \in Decl(sy) /\ f \in Identifiers /\ IsDeclared(f) /\ sy[f] = id /\ Middle(f) \in d
         /\ ScopeOf(f) \in Keyed(d) /\ T[ScopeOf(f)] = q /\ IsFunSymbol(SymbolAt(ts, id))
         /\ SymbolAt(ts, id).name = At[f].string_data
<1>1. Scoped(T, d, ts, sy) /\ NamedOnce(ts, sy) /\ Funs(ts) /\ IdsDone(d, sy)
      BY DEF SInv, Entered
<1>2. q \in DOMAIN ts /\ k \in 1..Len(ts[q].symbols)
      BY DEF Valid
<1>3. f \in Decl(sy) /\ sy[f] = id /\ IsFunSymbol(SymbolAt(ts, id))
      BY <1>1, <1>2 DEF NamedOnce, Funs
<1>4. /\ f \in Identifiers /\ ScopeOf(f) \in Keyed(d) /\ sy[f] = <<T[ScopeOf(f)], sy[f][2]>>
      /\ SymbolAt(ts, sy[f]).name = At[f].string_data
      BY <1>1, <1>3 DEF Scoped
<1>5. T[ScopeOf(f)] = q
      BY <1>3, <1>4
<1>6. IsDeclared(f) /\ Middle(f) \in d
      BY <1>1, <1>3 DEF Decl, IdsDone
<1>7. QED
      BY <1>3, <1>4, <1>5, <1>6

(* The symbol of a function, for its definition.                           *)
LEMMA DefinitionAgain ==
  ASSUME Tidy(tree), NEW x, IsDeclared(x), NEW d, NEW e, IsTie(x, d, e), Below(x, "FUNCTION_SPEC"),
         NEW T, NEW ts, NEW p, NEW sy, NEW ta, SInv(T, d, ts, p, sy, ta), GoodTables(ts),
         NEW k, NEW id, id = <<p, k>>, Valid(ts, id), "FUNCTION" \in SymbolAt(ts, id).type,
         At[Parent(x)] = At[Parent(NodeOf(ts, id))]
  PROVE  x \in Names /\ SameKind(x, NodeOf(ts, id))
<1>1. PICK f : f = NodeOf(ts, id)
      OBVIOUS
<1>2. /\ f \in Identifiers /\ ScopeOf(f) \in Keyed(d) /\ T[ScopeOf(f)] = p
      /\ IsFunSymbol(SymbolAt(ts, id))
      BY <1>1, SymbolNode
<1>3. f \in Names
      BY <1>1, <1>2 DEF IsFunSymbol, NodeOf
<1>4. ScopeOf(f) = <<>> /\ x \in Identifiers
      BY <1>2, <1>3, ScopeFacts DEF IsTie
<1>5. Shape(T, d, ts, p) /\ Mapped(T, d, ts) /\ T[<<>>] = <<>>
      BY DEF SInv, Shape, Mapped
<1>6. p = <<>>
      BY <1>2, <1>4, <1>5
<1>7. ScopeOf(x) \in Keyed(d) /\ T[ScopeOf(x)] = p
      BY <1>5, TopTable DEF IsTie
<1>8. ~IsParameter(x)
      <2>1. SUFFICES ASSUME IsParameter(x) PROVE FALSE
            OBVIOUS
      <2>2. ScopeOf(x) \in Functions
            BY <1>4, <2>1, ScopeFacts
      <2>3. PICK n : n = Len(T[ScopeOf(x)])
            OBVIOUS
      <2>4. n = 1
            BY <1>5, <1>7, <2>2, <2>3 DEF Mapped
      <2>5. n = Len(<<>>) /\ Len(<<>>) = 0
            BY <1>6, <1>7, <2>3
      <2>6. QED
            BY <2>4, <2>5
<1>9. x \in Names
      <2>1. SUFFICES ASSUME x \notin Names PROVE FALSE
            OBVIOUS
      <2>2. IsPlainId(x)
            BY <1>4, <1>8, <2>1 DEF IsPlainId
      <2>3. QED
            BY <2>2, PlainFacts
<1>10. QED
       BY <1>1, <1>3, <1>8, <1>9 DEF SameKind, IsPlainId

(* The symbol of a parameter, for another.                                 *)
LEMMA ParameterAgain ==
  ASSUME Tidy(tree), NEW x, NEW d, NEW e, IsTie(x, d, e), IsParameter(x),
         NEW T, NEW ts, NEW p, NEW sy, NEW ta, SInv(T, d, ts, p, sy, ta), GoodTables(ts),
         NEW k, NEW id, id = <<p, k>>, Valid(ts, id)
  PROVE  x \notin Names /\ SameKind(x, NodeOf(ts, id))
<1>1. PICK f : f = NodeOf(ts, id)
      OBVIOUS
<1>2. PICK s, t : s = ScopeOf(x) /\ t = ScopeOf(f)
      OBVIOUS
<1>3. /\ f \in Identifiers /\ t \in Keyed(d) /\ T[t] = p /\ Middle(f) \in d
      BY <1>1, <1>2, SymbolNode
<1>4. x \in Identifiers /\ x \notin Names /\ s \in Functions
      BY <1>2, ScopeFacts DEF IsTie
<1>5. Shape(T, d, ts, p) /\ Mapped(T, d, ts) /\ Entered(T, d, ts, sy)
      BY DEF SInv, Shape
<1>6. s \in Keyed(d) /\ T[s] = p
      BY <1>2, <1>5, TopTable DEF IsTie
<1>7. t \in Functions
      BY <1>3, <1>4, <1>5, <1>6, TableOfFunction
<1>8. PICK h : h = Middle(x)
      OBVIOUS
<1>9. h \in Visits /\ OnPath(h) /\ h.n = x /\ x \in Seq(Steps) /\ IsTime(d, h)
      BY <1>4, <1>8, IdentifierFacts DEF IsTie
<1>10. Inside(x, s) /\ IsWithin(x, s) /\ s \in Seq(Steps) /\ s # <<>>
       /\ t # <<>> /\ t \in Seq(Steps) /\ t \notin Blocks /\ s \notin Blocks
       <2>1. s # <<>> /\ s \in Seq(Steps) /\ s \notin Blocks /\ t # <<>> /\ t \in Seq(Steps) /\ t \notin Blocks
             BY <1>4, <1>7, FunctionFacts
       <2>2. Inside(x, s)
             BY <1>2, <1>4, <2>1, ScopeFacts
       <2>3. QED
             BY <1>4, <2>1, <2>2, InsideWithin
<1>11. IsParameter(f)
       <2>1. CASE t \notin Definitions
             <3>1. t # <<>> /\ t \notin Blocks
                   BY <1>10
             <3>2. QED
                   BY <1>2, <1>3, <2>1, <3>1, ScopeFacts
       <2>2. CASE t \in Definitions /\ s # t
             <3>1. /\ s = Header(s)
                   /\ \A v, w \in Visits : AtOrBelow(v.n, Header(s)) /\ AtOrBelow(w.n, Header(t)) => Past(v, w)
                   BY <1>3, <1>4, <1>5, <1>6, <1>7, <2>2, SharedTable
             <3>2. PICK w : w = Middle(Header(t))
                   OBVIOUS
             <3>3. w \in d /\ w.n = Header(t) /\ Header(t) \in Seq(Steps)
                   <4>1. Opener(t) \in d
                         BY <1>3, <1>10 DEF Keyed
                   <4>2. t \in Keys /\ Header(t) \in Declarators
                         BY <1>7, FunctionFacts
                   <4>3. Opener(t) = w
                         BY <2>2, <3>2, <4>2, KeyTimes
                   <4>4. Header(t) \in Seq(Steps)
                         BY <4>2, DeclaratorFacts
                   <4>5. QED
                         BY <3>2, <4>1, <4>3, <4>4, CodeAfter
             <3>4. w \in Visits /\ Past(w, h)
                   BY <1>9, <3>3 DEF IsTime
             <3>5. AtOrBelow(w.n, Header(t)) /\ AtOrBelow(h.n, Header(s))
                   BY <1>9, <1>10, <3>1, <3>3, BelowOrder
             <3>6. Past(h, w)
                   BY <1>9, <3>1, <3>4, <3>5
             <3>7. QED
                   BY <1>9, <3>4, <3>6, PastAsymmetric, VisitFacts
       <2>3. CASE t \in Definitions /\ s = t
             <3>1. SUFFICES ASSUME ~IsParameter(f) PROVE FALSE
                   OBVIOUS
             <3>2. f \notin Names
                   BY <1>2, <1>3, <1>10, ScopeFacts
             <3>3. IsPlainId(f)
                   BY <1>3, <3>1, <3>2 DEF IsPlainId
             <3>4. AtOrBelow(f, Right(s))
                   <4>1. Inside(f, t) /\ t \in Keys
                         BY <1>2, <1>3, <1>7, <1>10, ScopeFacts DEF Keys
                   <4>2. IsWithin(f, t)
                         BY <1>3, <4>1, InsideWithin
                   <4>3. QED
                         BY <2>3, <3>3, <4>1, <4>2, PlainInside
             <3>5. AtOrBelow(x, Left(s))
                   <4>1. PICK g \in Declarators : AtOrBelow(x, Right(g)) /\ ScopeOf(x) = Region[g]
                         BY <1>4, ParameterFacts
                   <4>2. AtOrBelow(g, Left(s))
                         <5>1. g = Header(s)
                               BY <1>2, <1>4, <4>1, FunctionFacts
                         <5>2. QED
                               BY <2>3, <5>1, DefinitionFacts
                   <4>3. g \in Seq(Steps)
                         BY DeclaratorFacts
                   <4>4. Right(g) \in Seq(Steps) /\ Left(s) \in Seq(Steps) /\ AtOrBelow(x, g)
                         <5>1. Right(g) \in Seq(Steps) /\ Left(s) \in Seq(Steps)
                               BY <1>10, <4>3, BelowChildren
                         <5>2. IsWithin(x, g)
                               BY <1>9, <4>1, <4>3, BelowChildren
                         <5>3. QED
                               BY <1>9, <4>3, <5>1, <5>2, BelowOrder
                   <4>5. QED
                         BY <1>9, <4>2, <4>3, <4>4, BelowOrder
             <3>6. PICK w : w = Middle(f)
                   OBVIOUS
             <3>7. w \in Visits /\ Past(w, h) /\ OnPath(w) /\ w.n = f
                   <4>1. w \in Visits /\ OnPath(w) /\ w.n = f
                         BY <1>3, <3>6, IdentifierFacts
                   <4>2. QED
                         BY <1>3, <1>9, <3>6, <4>1 DEF IsTime
             <3>8. Past(h, Middle(s)) /\ Past(Middle(s), w) /\ OnPath(Middle(s))
                   BY <1>9, <1>10, <3>4, <3>5, <3>7, PastAtNode, CodeAfter
             <3>9. Past(h, w)
                   BY <1>9, <3>7, <3>8, PastTransitive
             <3>10. QED
                    BY <1>9, <3>7, <3>9, PastAsymmetric
       <2>4. QED
             BY <2>1, <2>2, <2>3
<1>12. QED
       BY <1>1, <1>4, <1>11 DEF SameKind, IsPlainId
-----------------------------------------------------------------------------
(* The name is in the table at K levels, and in none further in.           *)
IsInmost(ts, p, K, name, k) ==
  /\ K \in 0..Len(p) /\ Valid(ts, <<SubSeq(p, 1, K), k>>)
  /\ SymbolAt(ts, <<SubSeq(p, 1, K), k>>).name = name
  /\ \A j \in 0..Len(p) : \A i \in 1..Len(ts[SubSeq(p, 1, j)].symbols) :
       SymbolAt(ts, <<SubSeq(p, 1, j), i>>).name = name => j <= K

(* A declaration that u sees is done when the walk comes to u, and its     *)
(* part is open.                                                           *)
LEMMA SeenOpen ==
  ASSUME Tidy(tree), NEW u, IsPlainId(u), NEW d, NEW e, IsTie(u, d, e), NEW sy, IdsDone(d, sy),
         NEW c, c \in Seen(u)
  PROVE  c \in Decl(sy) /\ IsOpen(d, ScopeOf(c)) /\ At[c].string_data = At[u].string_data
<1>1. /\ c \in Identifiers /\ IsDeclared(c) /\ At[c].string_data = At[u].string_data
      /\ IsWithin(u, ScopeOf(c)) /\ Before(c, u) /\ u \in Identifiers
      BY DEF Seen, IsTie
<1>2. /\ Middle(c) \in Visits /\ OnPath(Middle(c)) /\ Middle(c).n = c /\ c \in Seq(Steps)
      /\ OnPath(Middle(u)) /\ Middle(u).n = u /\ u \in Seq(Steps)
      BY <1>1, IdentifierFacts
<1>3. Past(Middle(c), Middle(u))
      <2>1. AtOrBelow(Middle(c).n, c) /\ AtOrBelow(Middle(u).n, u)
            BY <1>2, BelowOrder
      <2>2. QED
            BY <1>1, <1>2, <2>1, PastBefore
<1>4. c \in Decl(sy)
      <2>1. Middle(c) \in d
            BY <1>2, <1>3 DEF IsTie, IsTime
      <2>2. QED
            BY <1>1, <2>1 DEF IdsDone, Decl
<1>5. IsOpen(d, ScopeOf(c))
      <2>1. CASE ScopeOf(c) = <<>>
            BY <2>1 DEF IsOpen
      <2>2. CASE ScopeOf(c) # <<>>
            <3>1. ScopeOf(c) \in Keys
                  BY <1>1, <2>2, ScopeFacts DEF Inside
            <3>2. Inside(u, ScopeOf(c))
                  BY <1>1, <3>1, PlainInside
            <3>3. QED
                  BY <1>1, <3>1, <3>2, OpenInside DEF IsTie
      <2>3. QED
            BY <2>1, <2>2
<1>6. QED
      BY <1>1, <1>4, <1>5

(* A declaration that is done and whose part is around u is seen.          *)
LEMMA SeenDone ==
  ASSUME Tidy(tree), NEW u, ~IsDeclared(u), NEW d, NEW e, IsTie(u, d, e), NEW sy, IdsDone(d, sy),
         NEW c \in Decl(sy), c \in Identifiers, At[c].string_data = At[u].string_data,
         IsWithin(u, ScopeOf(c))
  PROVE  c \in Seen(u)
<1>1. u \in Identifiers /\ IsDeclared(c) /\ Middle(c) \in d
      BY DEF IsTie, Decl, IdsDone
<1>2. /\ c \in Seq(Steps) /\ u \in Seq(Steps) /\ c \in NodePaths /\ u \in NodePaths
      /\ \A n \in NodePaths : AtOrBelow(n, u) => n = u
      /\ \A n \in NodePaths : AtOrBelow(n, c) => n = c
      BY <1>1, IdentifierFacts DEF Identifiers
<1>3. /\ OnPath(Middle(c)) /\ Middle(c).n = c /\ OnPath(Middle(u)) /\ Middle(u).n = u
      /\ Past(Middle(c), Middle(u))
      BY <1>1, IdentifierFacts DEF IsTie, IsTime
<1>4. c # u
      BY <1>1
<1>5. ~Before(u, c)
      <2>1. SUFFICES ASSUME Before(u, c) PROVE FALSE
            OBVIOUS
      <2>2. AtOrBelow(Middle(c).n, c) /\ AtOrBelow(Middle(u).n, u)
            BY <1>2, <1>3, BelowOrder
      <2>3. Past(Middle(u), Middle(c))
            BY <1>2, <1>3, <2>1, <2>2, PastBefore
      <2>4. QED
            BY <1>3, <2>3, PastAsymmetric
<1>6. Before(c, u)
      BY <1>2, <1>4, <1>5, Apart
<1>7. QED
      BY <1>1, <1>6 DEF Seen

(* The declaration whose symbol find_symbol finds, for each part.          *)
IsFoundAs(c, u, s, sy, id) ==
  c \in Identifiers /\ sy[c] = id /\ ScopeOf(c) = s /\ At[c].string_data = At[u].string_data

(* Where find_symbol looks, a symbol of that name has a declaration in     *)
(* that part.                                                              *)
LEMMA FoundDeclaration ==
  ASSUME Tidy(tree), NEW u, IsPlainId(u), NEW d, NEW e, IsTie(u, d, e),
         NEW T, NEW ts, NEW p, NEW sy, NEW ta, SInv(T, d, ts, p, sy, ta), GoodTables(ts),
         NEW s, IsOpen(d, s), NEW q, q = T[s], NEW k, NEW id, id = <<q, k>>, Valid(ts, id),
         SymbolAt(ts, id).name = At[u].string_data
  PROVE  \E c \in Decl(sy) : IsFoundAs(c, u, s, sy, id)
<1>1. q = T[s]
      OBVIOUS
<1>2. PICK f : f = NodeOf(ts, id)
      OBVIOUS
<1>3. /\ f \in Decl(sy) /\ f \in Identifiers /\ sy[f] = id
      /\ ScopeOf(f) \in Keyed(d) /\ T[ScopeOf(f)] = T[s]
      /\ At[f].string_data = At[u].string_data
      <2>1. id = <<q, k>>
            BY <1>1
      <2>2. QED
            BY <1>1, <1>2, <2>1, SymbolNode
<1>4. Mapped(T, d, ts) /\ Entered(T, d, ts, sy) /\ s \in Keyed(d)
      BY OpenKeyed DEF SInv, Shape
<1>5. CASE s \in Functions
      <2>1. s \in Keys
            BY <1>5 DEF Keys
      <2>2. Inside(u, s) /\ IsWithin(u, s)
            <3>1. u \in Identifiers
                  BY DEF IsTie
            <3>2. Inside(u, s)
                  BY <2>1, <3>1, OpenInside DEF IsTie
            <3>3. QED
                  BY <3>1, <3>2, InsideWithin
      <2>3. s \in Definitions /\ AtOrBelow(u, Right(s))
            <3>1. s \notin Blocks
                  BY <1>5, FunctionFacts
            <3>2. QED
                  BY <2>1, <2>2, <3>1, PlainInside
      <2>4. /\ Header(s) \in Declarators /\ AtOrBelow(Header(s), Left(s)) /\ s \in Seq(Steps)
            /\ Header(s) \in Seq(Steps) /\ IsNode(Header(s))
            BY <2>3, DefinitionFacts, DeclaratorFacts
      <2>5. PICK w, h : w = Leave(Header(s)) /\ h = Middle(u)
            OBVIOUS
      <2>6. w \in Visits /\ OnPath(w) /\ OnPath(h) /\ w.n = Header(s) /\ h.n = u
            <3>1. u \in Identifiers
                  BY DEF IsTie
            <3>2. QED
                  BY <2>4, <2>5, <3>1, IdentifierFacts, NodeVisits, CodeAfter
      <2>7. Past(w, Middle(s)) /\ Past(Middle(s), h) /\ OnPath(Middle(s))
            BY <2>3, <2>4, <2>6, PastAtNode, CodeAfter
      <2>8. Past(w, h)
            BY <2>6, <2>7, PastTransitive
      <2>9. w \in d
            BY <2>5, <2>6, <2>8 DEF IsTie, IsTime
      <2>10. Filled(T, s, ts, sy)
             BY <1>4, <2>3, <2>5, <2>9 DEF SInv, AllFilled
      <2>11. k \in 1..Len(ts[T[s]].symbols)
             BY DEF Valid
      <2>12. PICK c \in Decl(sy) : ScopeOf(c) = s /\ sy[c] = <<T[s], k>>
             BY <2>10, <2>11 DEF Filled
      <2>13. c \in Identifiers /\ SymbolAt(ts, sy[c]).name = At[c].string_data
             BY <1>4, <2>12 DEF Entered, Scoped
      <2>14. sy[c] = id
             BY <2>12
      <2>15. QED
             BY <2>12, <2>13, <2>14 DEF IsFoundAs
<1>6. CASE s \in Blocks
      <2>1. ScopeOf(f) = s
            BY <1>3, <1>4, <1>6 DEF Mapped
      <2>2. QED
            BY <1>3, <2>1 DEF IsFoundAs
<1>7. CASE s = <<>>
      <2>1. ScopeOf(f) \notin Functions
            <3>1. SUFFICES ASSUME ScopeOf(f) \in Functions PROVE FALSE
                  OBVIOUS
            <3>2. s \in Functions
                  BY <1>3, <1>4, <3>1, TableOfFunction
            <3>3. QED
                  BY <1>7, <3>2, FunctionFacts
      <2>2. ScopeOf(f) \notin Blocks
            <3>1. SUFFICES ASSUME ScopeOf(f) \in Blocks PROVE FALSE
                  OBVIOUS
            <3>2. s = ScopeOf(f)
                  BY <1>3, <1>4, <3>1 DEF Mapped
            <3>3. QED
                  BY <1>7, <3>1, <3>2, BlockFacts
      <2>3. ScopeOf(f) = <<>>
            BY <1>3, <2>1, <2>2 DEF Keyed, Keys
      <2>4. QED
            BY <1>3, <1>7, <2>3 DEF IsFoundAs
<1>8. QED
      BY <1>5, <1>6, <1>7 DEF IsOpen, Keys

(* So it is tied to that of the innermost declaration it sees.             *)
LEMMA UseResolved ==
  ASSUME Tidy(tree), NEW u, ~IsDeclared(u), NEW d, NEW e, IsTie(u, d, e),
         NEW T, NEW ts, NEW p, NEW sy, NEW ta, SInv(T, d, ts, p, sy, ta), GoodTables(ts),
         NEW K, NEW k, IsInmost(ts, p, K, At[u].string_data, k),
         NEW id, id = <<SubSeq(p, 1, K), k>>, NEW sz, TiedTo(sy, sz, u, id)
  PROVE  Resolved(u, sz)
<1>1. u \in Identifiers /\ u \in Seq(Steps) /\ IsPlainId(u)
      <2>1. u \in Identifiers
            BY DEF IsTie
      <2>2. u \notin Names /\ ~IsParameter(u)
            BY <2>1, ScopeFacts
      <2>3. QED
            BY <2>1, <2>2, IdentifierFacts DEF IsPlainId
<1>2. Mapped(T, d, ts) /\ Nested(T, d, p) /\ p \in DOMAIN ts /\ IdsDone(d, sy) /\ Scoped(T, d, ts, sy)
      BY DEF SInv, Shape, Entered
<1>3. /\ K \in 0..Len(p) /\ Valid(ts, id) /\ SymbolAt(ts, id).name = At[u].string_data
      BY DEF IsInmost
<1>4. PICK s : IsOpen(d, s) /\ Len(T[s]) = K
      BY <1>2, <1>3 DEF Nested
<1>5. SubSeq(p, 1, K) = T[s]
      BY <1>2, <1>4 DEF Nested
<1>6. id = <<T[s], k>>
      BY <1>5
<1>7. PICK c \in Decl(sy) : /\ c \in Identifiers /\ sy[c] = id /\ ScopeOf(c) = s
                            /\ At[c].string_data = At[u].string_data
      <2>1. PICK q : q = T[s]
            OBVIOUS
      <2>2. id = <<q, k>>
            BY <1>6, <2>1
      <2>3. \E c \in Decl(sy) : IsFoundAs(c, u, s, sy, id)
            BY <1>1, <1>3, <1>4, <2>1, <2>2, FoundDeclaration
      <2>4. QED
            BY <2>3 DEF IsFoundAs
<1>8. IsWithin(u, s)
      <2>1. CASE s = <<>>
            BY <1>1, <2>1, IdentifierFacts, BelowOrder, TidyRoot
      <2>2. CASE s # <<>>
            <3>1. Inside(u, s)
                  BY <1>1, <1>4, <2>2, OpenInside DEF IsTie, IsOpen
            <3>2. QED
                  BY <1>1, <3>1, InsideWithin
      <2>3. QED
            BY <2>1, <2>2
<1>9. c \in Seen(u)
      BY <1>2, <1>7, <1>8, SeenDone
<1>10. ASSUME NEW f \in Seen(u) PROVE Len(ScopeOf(f)) <= Len(s)
       <2>1. PICK t : t = ScopeOf(f)
             OBVIOUS
       <2>2. f \in Decl(sy) /\ IsOpen(d, t) /\ At[f].string_data = At[u].string_data
             BY <1>1, <1>2, <1>10, <2>1, SeenOpen
       <2>3. IsWithin(u, t) /\ t \in Seq(Steps) /\ s \in Seq(Steps)
             <3>1. IsWithin(u, t) /\ f \in Identifiers
                   BY <1>10, <2>1 DEF Seen
             <3>2. QED
                   BY <1>7, <2>1, <3>1, ScopeFacts
       <2>4. AtOrBelow(u, s) /\ AtOrBelow(u, t)
             BY <1>1, <1>8, <2>3, BelowOrder
       <2>5. Len(T[t]) <= Len(p) /\ SubSeq(p, 1, Len(T[t])) = T[t] /\ Len(T[t]) \in Nat
             <3>1. t \in Keyed(d)
                   BY <2>2, OpenKeyed
             <3>2. T[t] \in DOMAIN ts
                   BY <1>2, <3>1 DEF Mapped
             <3>3. QED
                   BY <1>2, <2>2, <3>2, TablePath DEF Nested
       <2>6. Len(T[t]) <= K
             <3>1. PICK i : i = sy[f][2]
                   OBVIOUS
             <3>2. /\ Valid(ts, sy[f]) /\ sy[f] = <<T[t], i>>
                   /\ SymbolAt(ts, sy[f]).name = At[u].string_data
                   BY <1>2, <2>1, <2>2, <3>1 DEF Scoped
             <3>3. PICK j : j = Len(T[t])
                   OBVIOUS
             <3>4. j \in 0..Len(p) /\ SubSeq(p, 1, j) = T[t]
                   <4>1. Len(p) \in Nat
                         BY <1>2, TablePath
                   <4>2. QED
                         BY <2>5, <3>3, <4>1
             <3>5. i \in 1..Len(ts[SubSeq(p, 1, j)].symbols) /\ SymbolAt(ts, <<SubSeq(p, 1, j), i>>).name = At[u].string_data
                   <4>1. Valid(ts, <<T[t], i>>) /\ SymbolAt(ts, <<T[t], i>>).name = At[u].string_data
                         BY <3>2
                   <4>2. i \in 1..Len(ts[T[t]].symbols)
                         BY <4>1 DEF Valid
                   <4>3. QED
                         BY <3>4, <4>1, <4>2
             <3>6. j <= K
                   BY <3>4, <3>5 DEF IsInmost
             <3>7. QED
                   BY <3>3, <3>6
       <2>7. ~IsWithin(t, s)
             <3>1. SUFFICES ASSUME IsWithin(t, s) PROVE FALSE
                   OBVIOUS
             <3>2. Len(T[s]) < Len(T[t])
                   BY <1>2, <1>4, <2>2, <3>1 DEF Nested
             <3>3. PICK j : j = Len(T[t])
                   OBVIOUS
             <3>4. K < j /\ j <= K /\ j \in Nat /\ K \in Nat
                   <4>1. K \in Nat
                         BY <1>3
                   <4>2. QED
                         BY <1>4, <2>5, <2>6, <3>2, <3>3, <4>1
             <3>5. QED
                   BY <3>4
       <2>8. AtOrBelow(s, t)
             BY <1>1, <2>3, <2>4, <2>7, AboveOne, BelowOrder
       <2>9. QED
             BY <2>1, <2>8 DEF AtOrBelow
<1>11. c \in DOMAIN sz /\ sz[u] = sz[c]
       <2>1. c \in DOMAIN sy
             BY <1>7 DEF Decl
       <2>2. QED
             BY <1>7, <2>1 DEF TiedTo
<1>12. QED
       BY <1>7, <1>9, <1>10, <1>11 DEF Resolved

(* The tables stay as they are.                                            *)
LEMMA UsedTable ==
  ASSUME Tidy(tree), NEW u, ~IsDeclared(u), NEW d, NEW e, IsTie(u, d, e),
         NEW T, NEW ts, NEW p, NEW sy, NEW ta, SInv(T, d, ts, p, sy, ta), GoodTables(ts),
         NEW K, NEW k, IsInmost(ts, p, K, At[u].string_data, k),
         NEW id, id = <<SubSeq(p, 1, K), k>>, NEW sz, sz = Put(sy, u, id)
  PROVE  SInv(T, e, ts, p, sz, ta)
<1>1. DOMAIN ts = DOMAIN ts
      OBVIOUS
<1>2. TiedTo(sy, sz, u, id) /\ Shape(T, e, ts, p) /\ IdsDone(e, sz) /\ BitsDone(e, ta)
      BY <1>1, TiedRest
<1>3. Decl(sz) = Decl(sy) /\ \A y \in Decl(sy) : sz[y] = sy[y]
      BY <1>2 DEF TiedTo, Decl
<1>4. Entered(T, d, ts, sy) /\ AllFilled(T, d, ts, sy) /\ AllResolved(sy)
      BY DEF SInv
<1>5. Keyed(e) = Keyed(d) /\ \A m : Leave(m) \in e <=> Leave(m) \in d
      <2>1. Keyed(e) = Keyed(d)
            BY TiedTime
      <2>2. \A m : Leave(m) \in e <=> Leave(m) \in d
            BY TiedTime
      <2>3. QED
            BY <2>1, <2>2
<1>6. Entered(T, e, ts, sz)
      <2>1. Entered(T, e, ts, sy)
            BY <1>4, <1>5, SameKeyed
      <2>2. Scoped(T, e, ts, sz)
            BY <1>3, <2>1 DEF Entered, Scoped
      <2>3. NamedOnce(ts, sz)
            BY <1>3, <2>1 DEF Entered, NamedOnce
      <2>4. Kinds(ts, sz)
            BY <1>3, <2>1 DEF Entered, Kinds
      <2>5. Owners(T, e, ts, sz)
            BY <1>3, <2>1 DEF Entered, Owners
      <2>6. Defs(ts, sz)
            <3>1. Defs(ts, sy)
                  BY <2>1 DEF Entered
            <3>2. ASSUME NEW y \in Decl(sz), y \in Names, Below(y, "FUNCTION_SPEC")
                  PROVE  SymbolAt(ts, sz[y]).funcinfo.is_defined
                  BY <1>3, <3>1, <3>2 DEF Defs
            <3>3. ASSUME NEW y \in Decl(sz), y \in Names, NEW z \in Decl(sz), z \in Names, z # y, sz[z] = sz[y]
                  PROVE  /\ Below(z, "FUNCTION_SPEC") <=> ~Below(y, "FUNCTION_SPEC")
                         /\ Below(y, "FUNCTION_SPEC") => Past(Middle(z), Middle(y))
                  <4>1. y \in Decl(sy) /\ z \in Decl(sy) /\ sy[z] = sy[y]
                        BY <1>3, <3>3
                  <4>2. QED
                        BY <3>1, <3>3, <4>1 DEF Defs
            <3>4. QED
                  BY <3>2, <3>3 DEF Defs
      <2>7. QED
            BY <2>1, <2>2, <2>3, <2>4, <2>5, <2>6 DEF Entered
<1>7. AllFilled(T, e, ts, sz)
      BY <1>3, <1>4, <1>5 DEF AllFilled, Filled
<1>8. AllResolved(sz)
      <2>1. Resolved(u, sz)
            BY <1>2, UseResolved
      <2>2. QED
            BY <1>2, <1>4, <2>1, StillResolved
<1>9. QED
      BY <1>2, <1>6, <1>7, <1>8 DEF SInv
-----------------------------------------------------------------------------
(* The steps of the walk.                                                  *)

(* The walk comes to its head.                                             *)
LEMMA AtTime ==
  ASSUME Linked(walk), walk # <<>>
  PROVE  /\ IsTime(Done(walk), Head(walk)) /\ Here \in Seq(Steps)
         /\ Head(walk).do = "enter"  => Head(walk) = Enter(Here)
         /\ Head(walk).do = "middle" => Head(walk) = Middle(Here)
         /\ Head(walk).do = "leave"  => Head(walk) = Leave(Here)
<1>1. IsSequence(walk)
      BY DEF Linked
<1>2. PICK S : walk \in Seq(S)
      BY <1>1 DEF IsSequence
<1>3. Len(walk) \in Nat /\ Len(walk) # 0 /\ Head(walk) = walk[1]
      BY <1>2, EmptySeq, LenProperties, HeadTailProperties
<1>4. 1 \in 1..Len(walk)
      BY <1>3
<1>5. PICK n \in Seq(Steps) : walk[1] = Enter(n) \/ walk[1] = Middle(n) \/ walk[1] = Leave(n)
      BY <1>4 DEF Linked
<1>6. Here = n /\ Here \in Seq(Steps)
      BY <1>3, <1>5 DEF Here, Enter, Middle, Leave
<1>7. /\ Head(walk).do = "enter"  => Head(walk) = Enter(Here)
      /\ Head(walk).do = "middle" => Head(walk) = Middle(Here)
      /\ Head(walk).do = "leave"  => Head(walk) = Leave(Here)
      BY <1>3, <1>5, <1>6 DEF Enter, Middle, Leave
<1>8. OnPath(Head(walk))
      BY <1>6 DEF OnPath, Here
<1>9. IsTime(Done(walk), Head(walk))
      BY <1>8 DEF IsTime, Done
<1>10. QED
       BY <1>6, <1>7, <1>9

(* All symbols have their fields.                                          *)
AllFull(ts) == \A p \in DOMAIN ts : \A k \in 1..Len(ts[p].symbols) : IsFull(ts[p].symbols[k])

(* The invariant says so of the tables of the moment.                      *)
LEMMA InvariantFull ==
  ASSUME NEW T, NEW d, NEW ts, NEW p, NEW sy, NEW ta, SInv(T, d, ts, p, sy, ta)
  PROVE  AllFull(ts) /\ p \in DOMAIN ts
<1>1. NamedOnce(ts, sy) /\ p \in DOMAIN ts
      BY DEF SInv, Entered, Shape
<1>2. ASSUME NEW q \in DOMAIN ts, NEW k \in 1..Len(ts[q].symbols) PROVE IsFull(ts[q].symbols[k])
      <2>1. IsFull(SymbolAt(ts, <<q, k>>))
            BY <1>1 DEF NamedOnce
      <2>2. QED
            BY <2>1 DEF SymbolAt
<1>3. QED
      BY <1>1, <1>2 DEF AllFull

(* Tables are kept when nothing is done to them,                           *)
LEMMA KeptSame ==
  ASSUME NEW ts, AllFull(ts)
  PROVE  Kept(ts, ts)
<1>1. ASSUME NEW p \in DOMAIN ts, NEW k \in 1..Len(ts[p].symbols)
      PROVE  SameSymbol(ts[p].symbols[k], ts[p].symbols[k])
      BY DEF AllFull, SameSymbol
<1>2. QED
      BY <1>1 DEF Kept, SameTable

(* and when one symbol changes in what is counted and set.                 *)
LEMMA KeptOne ==
  ASSUME NEW ts, AllFull(ts), GoodTables(ts), NEW id, Valid(ts, id), NEW r,
         SameSymbol(SymbolAt(ts, id), r), NEW us, us = WithSymbol(ts, id, r)
  PROVE  Kept(ts, us)
<1>1. PICK a, b : a = id[1] /\ b = id[2]
      OBVIOUS
<1>2. a \in DOMAIN ts /\ b \in 1..Len(ts[a].symbols) /\ IsTable(ts[a])
      BY <1>1 DEF Valid, GoodTables
<1>3. PICK S : ts[a].symbols \in Seq(S)
      BY <1>2 DEF IsTable, GoodSymbols, IsSequence
<1>4. PICK old, m : old = ts[a].symbols /\ m = Len(old)
      OBVIOUS
<1>5. DOMAIN old = 1..m /\ m \in Nat
      BY <1>3, <1>4, LenProperties
<1>6. PICK new : new = [old EXCEPT ![b] = r]
      OBVIOUS
<1>7. DOMAIN new = 1..m /\ \A k \in 1..m : new[k] = IF k = b THEN r ELSE old[k]
      BY <1>5, <1>6
<1>8. Len(new) = m
      <2>1. new \in Seq(S \cup {r})
            <3>1. \A k \in 1..m : old[k] \in S
                  BY <1>3, <1>4, <1>5, ElementOfSeq
            <3>2. new = [k \in 1..m |-> new[k]] /\ \A k \in 1..m : new[k] \in S \cup {r}
                  BY <1>6, <1>7, <3>1
            <3>3. QED
                  BY <1>5, <3>2, SeqDef
      <2>2. QED
            BY <1>5, <1>7, <2>1, LenProperties
<1>9. /\ DOMAIN us = DOMAIN ts /\ \A p \in DOMAIN ts : p # a => us[p] = ts[p]
      /\ us[a] = [ts[a] EXCEPT !.symbols = new]
      BY <1>1, <1>2, <1>4, <1>6 DEF WithSymbol
<1>10. /\ us[a].name = ts[a].name /\ us[a].tablefor = ts[a].tablefor
       /\ us[a].children = ts[a].children /\ us[a].symbols = new
       BY <1>2, <1>9 DEF IsTable
<1>11. SameTable(ts[a], us[a])
       <2>1. ASSUME NEW k \in 1..m PROVE SameSymbol(old[k], new[k])
             <3>1. CASE k = b
                   BY <1>1, <1>4, <1>7, <3>1 DEF SymbolAt
             <3>2. CASE k # b
                   <4>1. new[k] = old[k] /\ IsFull(old[k])
                         BY <1>2, <1>4, <1>7, <3>2 DEF AllFull
                   <4>2. QED
                         BY <4>1 DEF SameSymbol
             <3>3. QED
                   BY <3>1, <3>2
       <2>2. QED
             BY <1>4, <1>8, <1>10, <2>1 DEF SameTable
<1>12. Kept(ts, ts)
       BY KeptSame
<1>13. QED
       BY <1>9, <1>11, <1>12 DEF Kept

(* They keep them.                                                         *)
LEMMA KeptFull ==
  ASSUME NEW ts, NEW us, Kept(ts, us)
  PROVE  AllFull(us)
BY DEF Kept, SameTable, SameSymbol, AllFull

(* An item at which nothing is opened, left or tied.                       *)
Resting(h) ==
  /\ \A s \in Keys : h # Opener(s) /\ h # Closer(s)
  /\ \A x \in Identifiers : h # Middle(x)
  /\ \A D \in Definitions : h # Leave(Header(D))

(* So is the entry of a node that is no block,                             *)
LEMMA RestingEnter ==
  ASSUME Tidy(tree), NEW n, n \notin Blocks, NEW h, h = Enter(n)
  PROVE  Resting(h)
<1>1. ASSUME NEW s \in Keys PROVE h # Opener(s) /\ h # Closer(s)
      BY VisitsDiffer DEF Opener, Closer
<1>2. QED
      BY <1>1, VisitsDiffer DEF Resting

(* the middle of a node that is neither a declarator nor an identifier,    *)
LEMMA RestingMiddle ==
  ASSUME Tidy(tree), NEW n, n \notin Declarators, n \notin Identifiers, NEW h, h = Middle(n)
  PROVE  Resting(h)
<1>1. ASSUME NEW s \in Keys PROVE h # Opener(s) /\ h # Closer(s)
      <2>1. CASE s \in Blocks
            BY <2>1, VisitsDiffer DEF Opener, Closer
      <2>2. CASE s \notin Blocks
            <3>1. s \in Functions
                  BY <2>2, KeyFacts
            <3>2. Header(s) \in Declarators
                  BY <3>1, FunctionFacts
            <3>3. QED
                  BY <2>2, <3>2, VisitsDiffer DEF Opener, Closer
      <2>3. QED
            BY <2>1, <2>2
<1>2. QED
      BY <1>1, VisitsDiffer DEF Resting

(* and the end of one that has no table.                                   *)
LEMMA RestingLeave ==
  ASSUME Tidy(tree), NEW n, At[n].subtype \notin {"LIST_BLOCK", "FUNCTION_DECL"}, NEW h, h = Leave(n)
  PROVE  Resting(h)
<1>1. ASSUME NEW s \in Keys PROVE h # Opener(s) /\ h # Closer(s)
      <2>1. h # Opener(s)
            BY VisitsDiffer DEF Opener
      <2>2. CASE s \in Definitions
            <3>1. At[Right(s)].subtype = "LIST_BLOCK"
                  BY <2>2, DefinitionFacts
            <3>2. QED
                  BY <2>1, <2>2, <3>1, VisitsDiffer DEF Closer
      <2>3. CASE s \notin Definitions
            <3>1. At[s].subtype \in {"LIST_BLOCK", "FUNCTION_DECL"}
                  <4>1. CASE s \in Blocks
                        BY <4>1, BlockFacts
                  <4>2. CASE s \notin Blocks
                        <5>1. s \in Declarators
                              BY <2>3, <4>2, KeyFacts
                        <5>2. QED
                              BY <5>1 DEF Declarators
                  <4>3. QED
                        BY <4>1, <4>2
            <3>2. QED
                  BY <2>1, <2>3, <3>1, VisitsDiffer DEF Closer
      <2>4. QED
            BY <2>2, <2>3
<1>2. ASSUME NEW D \in Definitions PROVE h # Leave(Header(D))
      <2>1. Header(D) \in Declarators
            BY DefinitionFacts
      <2>2. At[Header(D)].subtype = "FUNCTION_DECL"
            BY <2>1 DEF Declarators
      <2>3. QED
            BY <2>2, VisitsDiffer
<1>3. QED
      BY <1>1, <1>2, VisitsDiffer DEF Resting

(* Nothing changes there but the type bits.                                *)
LEMMA Rests ==
  ASSUME Tidy(tree), NEW d, NEW h, Resting(h), NEW e, e = d \cup ({h} \cap Visits),
         NEW T, NEW ts, NEW p, NEW sy, NEW ta, SInv(T, d, ts, p, sy, ta), GoodTables(ts),
         NEW tb, BitsDone(e, tb)
  PROVE  SInv(T, e, ts, p, sy, tb)
<1>1. /\ \A s \in Keys : h # Opener(s) /\ h # Closer(s)
      /\ \A x \in Identifiers : h # Middle(x)
      BY DEF Resting
<1>2. Kept(ts, ts)
      BY InvariantFull, KeptSame
<1>3. \A D \in Keyed(d) : D \in Definitions /\ h = Leave(Header(D)) => Filled(T, D, ts, sy)
      BY DEF Resting
<1>4. QED
      BY <1>1, <1>2, <1>3, RestingStep
-----------------------------------------------------------------------------
(* The steps that rest.                                                    *)

(* What is known before a step, and what is to hold after it.              *)
Going    == Tidy(tree) /\ StateOK /\ Linked(walk)
Holds(T) == SInv(T, Done(walk), tables, currenttable, symbol, typearray)
DoneNext == Done(walk) \cup ({Head(walk)} \cap Visits)
HoldsNext(T) == SInv(T, DoneNext, tables', currenttable', symbol', typearray')

(* A step at an item where nothing is opened, left or tied.                *)
LEMMA RestsStep ==
  ASSUME Going, NEW T, Holds(T), Resting(Head(walk)),
         tables' = tables, currenttable' = currenttable, symbol' = symbol,
         BitsDone(DoneNext, typearray')
  PROVE  HoldsNext(T)
<1>1. PICK d, h, e, ts, p, sy, ta, tb :
        /\ d = Done(walk) /\ h = Head(walk) /\ e = DoneNext /\ ts = tables /\ p = currenttable
        /\ sy = symbol /\ ta = typearray /\ tb = typearray'
      OBVIOUS
<1>2. SInv(T, d, ts, p, sy, ta)
      BY <1>1 DEF Holds
<1>3. e = d \cup ({h} \cap Visits) /\ Resting(h) /\ GoodTables(ts) /\ BitsDone(e, tb) /\ Tidy(tree)
      BY <1>1 DEF DoneNext, Going, StateOK
<1>4. SInv(T, e, ts, p, sy, tb)
      BY <1>2, <1>3, Rests
<1>5. QED
      BY <1>1, <1>4 DEF HoldsNext

(* The bit stays where no declarator is entered or its name passed.        *)
LEMMA BitStays ==
  ASSUME NEW T, Holds(T), \A g \in Declarators : Head(walk) # Enter(g) /\ Head(walk) # Middle(g),
         "FUNCTION" \in typearray' <=> "FUNCTION" \in typearray
  PROVE  BitsDone(DoneNext, typearray')
<1>1. PICK d, h, e, ta, tb :
        /\ d = Done(walk) /\ h = Head(walk) /\ e = DoneNext /\ ta = typearray /\ tb = typearray'
      OBVIOUS
<1>2. BitsDone(d, ta)
      BY <1>1 DEF Holds, SInv
<1>3. /\ e = d \cup ({h} \cap Visits)
      /\ "FUNCTION" \in tb <=> "FUNCTION" \in ta
      /\ \A g \in Declarators : h # Enter(g) /\ h # Middle(g)
      BY <1>1 DEF DoneNext
<1>4. BitsDone(e, tb)
      BY <1>2, <1>3, BitKept
<1>5. QED
      BY <1>1, <1>4

(* There is nothing to do below a missing child.                           *)
LEMMA NullStep ==
  ASSUME Going, NEW T, Holds(T), EnterNull
  PROVE  HoldsNext(T)
<1>1. /\ walk # <<>> /\ Head(walk).do = "enter" /\ IsNull(Here)
      /\ tables' = tables /\ currenttable' = currenttable /\ symbol' = symbol
      /\ typearray' = typearray
      BY DEF EnterNull, Doing, types
<1>2. Head(walk) = Enter(Here)
      BY <1>1, AtTime DEF Going
<1>3. Head(walk) \notin Visits
      <2>1. ASSUME Head(walk) \in Visits PROVE FALSE
            <3>1. IsNode(Head(walk).n)
                  BY <2>1, VisitFacts
            <3>2. QED
                  BY <1>1, <3>1 DEF IsNode, Here
      <2>2. QED
            BY <2>1
<1>4. DoneNext = Done(walk)
      BY <1>3 DEF DoneNext
<1>5. QED
      BY <1>1, <1>4 DEF Holds, HoldsNext

(* What is known of the node at the middle and the end.                    *)
LEMMA AtNode ==
  ASSUME Going, walk # <<>>
  PROVE  /\ Declarable(tree) /\ GoodTables(tables)
         /\ Head(walk).do = "enter" /\ ~IsNull(Here) => IsNode(Here)
         /\ Head(walk).do # "enter" => IsNode(Here)
         /\ IsNode(Here) => /\ Here \in NodePaths
                            /\ Here \in Declarators <=> At[Here].subtype = "FUNCTION_DECL"
                            /\ Here \in Identifiers <=> At[Here].type = "IDENTIFIER"
                            /\ Here \in Blocks <=> IsInnerBlock(Here)
<1>1. Declarable(tree) /\ StateOK
      BY TidyRoot DEF Going
<1>2. /\ Head(walk).do = "enter" /\ ~IsNull(Here) => IsNode(Here)
      /\ Head(walk).do # "enter" => IsNode(Here)
      BY <1>1, AtHead
<1>3. ASSUME IsNode(Here) PROVE Here \in NodePaths
      <2>1. IsPlace(Here)
            BY <1>3 DEF IsNode
      <2>2. QED
            BY <1>3, <2>1, PlaceFacts DEF NodePaths
<1>4. GoodTables(tables)
      BY <1>1 DEF StateOK
<1>5. QED
      BY <1>1, <1>2, <1>3, <1>4 DEF Declarators, Identifiers, Blocks

(* A node that opens no table is entered.                                  *)
LEMMA NodeStep ==
  ASSUME Going, NEW T, Holds(T), EnterNode
  PROVE  HoldsNext(T)
<1>1. /\ walk # <<>> /\ Head(walk).do = "enter" /\ ~IsNull(Here) /\ ~IsInnerBlock(Here)
      /\ tables' = tables /\ currenttable' = currenttable /\ symbol' = symbol
      BY DEF EnterNode, Doing
<1>2. PICK h, n : h = Head(walk) /\ n = Here
      OBVIOUS
<1>3. /\ h = Enter(n) /\ n \notin Blocks /\ Tidy(tree)
      /\ n \in Declarators <=> At[n].subtype = "FUNCTION_DECL"
      BY <1>1, <1>2, AtTime, AtNode DEF Going
<1>4. Resting(h)
      BY <1>3, RestingEnter
<1>5. BitsDone(DoneNext, typearray')
      <2>1. CASE n \in Declarators
            <3>1. "FUNCTION" \in typearray'
                  BY <1>2, <1>3, <2>1 DEF EnterNode, SubtypeIs
            <3>2. PICK d, e, ta : d = Done(walk) /\ e = DoneNext /\ ta = typearray'
                  OBVIOUS
            <3>3. IsTime(d, h) /\ e = d \cup ({h} \cap Visits) /\ "FUNCTION" \in ta
                  BY <1>1, <1>2, <3>1, <3>2, AtTime DEF Going, DoneNext
            <3>4. BitsDone(e, ta)
                  BY <1>3, <2>1, <3>3, BitSet
            <3>5. QED
                  BY <3>2, <3>4
      <2>2. CASE n \notin Declarators
            <3>1. At[Here].subtype # "FUNCTION_DECL"
                  BY <1>2, <1>3, <2>2
            <3>2. typearray' = typearray \cup {"POINTER"} \/ typearray' = typearray \cup {}
                  BY <3>1 DEF EnterNode, SubtypeIs
            <3>3. "FUNCTION" \in typearray' <=> "FUNCTION" \in typearray
                  BY <3>2
            <3>4. \A g \in Declarators : Head(walk) # Enter(g) /\ Head(walk) # Middle(g)
                  BY <1>2, <1>3, <2>2, VisitsDiffer
            <3>5. QED
                  BY <3>3, <3>4, BitStays
      <2>3. QED
            BY <2>1, <2>2
<1>6. QED
      BY <1>1, <1>2, <1>4, <1>5, RestsStep

(* The middle of a node that is no identifier and no declarator.           *)
LEMMA MiddleStep ==
  ASSUME Going, NEW T, Holds(T), SetType \/ CountPointer \/ MiddleOther
  PROVE  HoldsNext(T)
<1>1. /\ walk # <<>> /\ Head(walk).do = "middle"
      /\ tables' = tables /\ currenttable' = currenttable /\ symbol' = symbol
      BY DEF SetType, CountPointer, MiddleOther, Doing
<1>2. IsNode(Here) /\ Declarable(tree) /\ Head(walk) = Middle(Here)
      BY <1>1, AtTime, AtNode DEF Going
<1>3. At[Here].type # "IDENTIFIER" /\ At[Here].subtype # "FUNCTION_DECL"
      <2>1. CASE SetType
            BY <1>2, <2>1, DeclaredNode DEF SetType
      <2>2. CASE CountPointer
            BY <1>2, <2>2, DeclaredNode DEF CountPointer, IsPointer
      <2>3. CASE MiddleOther
            BY <2>3 DEF MiddleOther, SubtypeIs
      <2>4. QED
            BY <2>1, <2>2, <2>3
<1>4. "FUNCTION" \in typearray' <=> "FUNCTION" \in typearray
      <2>1. CASE SetType
            <3>1. At[Here].subtype \in TYPEBITS
                  BY <1>2, <2>1, DeclaredNode DEF SetType
            <3>2. At[Here].subtype # "FUNCTION"
                  BY <3>1 DEF TYPEBITS
            <3>3. QED
                  BY <2>1, <3>2 DEF SetType
      <2>2. CASE CountPointer
            BY <2>2 DEF CountPointer
      <2>3. CASE MiddleOther
            BY <2>3 DEF MiddleOther, types
      <2>4. QED
            BY <2>1, <2>2, <2>3
<1>5. PICK h, n : h = Head(walk) /\ n = Here
      OBVIOUS
<1>6. h = Middle(n) /\ n \notin Declarators /\ n \notin Identifiers /\ Tidy(tree)
      BY <1>1, <1>2, <1>3, <1>5, AtNode DEF Going
<1>7. Resting(h)
      BY <1>6, RestingMiddle
<1>8. \A g \in Declarators : Head(walk) # Enter(g) /\ Head(walk) # Middle(g)
      BY <1>5, <1>6, VisitsDiffer
<1>9. BitsDone(DoneNext, typearray')
      BY <1>4, <1>8, BitStays
<1>10. QED
       BY <1>1, <1>5, <1>7, <1>9, RestsStep

(* The end of a node that is no block and no declarator.                   *)
LEMMA LeaveStep ==
  ASSUME Going, NEW T, Holds(T), LeaveDeclaration \/ LeavePointer \/ LeaveOther
  PROVE  HoldsNext(T)
<1>1. /\ walk # <<>> /\ Head(walk).do = "leave"
      /\ tables' = tables /\ currenttable' = currenttable /\ symbol' = symbol
      BY DEF LeaveDeclaration, LeavePointer, LeaveOther, Doing
<1>2. At[Here].subtype \notin {"LIST_BLOCK", "FUNCTION_DECL"}
      BY DEF LeaveDeclaration, LeavePointer, LeaveOther, SubtypeIs
<1>3. "FUNCTION" \in typearray' <=> "FUNCTION" \in typearray
      <2>1. "FUNCTION" \notin TYPEBITS
            BY DEF TYPEBITS
      <2>2. QED
            BY <2>1 DEF LeaveDeclaration, LeavePointer, LeaveOther, types
<1>4. PICK h, n : h = Head(walk) /\ n = Here
      OBVIOUS
<1>5. h = Leave(n) /\ At[n].subtype \notin {"LIST_BLOCK", "FUNCTION_DECL"} /\ Tidy(tree)
      BY <1>1, <1>2, <1>4, AtTime DEF Going
<1>6. Resting(h)
      BY <1>5, RestingLeave
<1>7. \A g \in Declarators : Head(walk) # Enter(g) /\ Head(walk) # Middle(g)
      BY <1>4, <1>5, VisitsDiffer
<1>8. BitsDone(DoneNext, typearray')
      BY <1>3, <1>7, BitStays
<1>9. QED
      BY <1>1, <1>4, <1>6, <1>8, RestsStep
-----------------------------------------------------------------------------
(* The steps that open and leave a table.                                  *)

(* AddTable adds a table below that of the moment.                         *)
LEMMA AddingTable ==
  ASSUME GoodTables(tables), currenttable \in DOMAIN tables, NEW name, NEW id, AddTable(NewTable(name, id))
  PROVE  Adds(tables, currenttable, name, id, tables', currenttable')
<1>1. PICK a, c, parent, table : /\ a = currenttable /\ c = tables[a].children
                                 /\ parent = [tables[a] EXCEPT !.children = @ + 1]
                                 /\ table = NewTable(name, id)
      OBVIOUS
<1>2. "children" \in DOMAIN tables[a]
      BY <1>1 DEF GoodTables, IsTable
<1>3. parent.children = c + 1
      BY <1>1, <1>2
<1>4. tables' = Put(Put(tables, a, parent), Append(a, parent.children), table)
      BY <1>1 DEF AddTable
<1>5. tables' = Opened(tables, a, table)
      BY <1>1, <1>3, <1>4 DEF Opened
<1>6. currenttable' = Append(a, c + 1)
      BY <1>1, <1>3 DEF AddTable
<1>7. QED
      BY <1>1, <1>5, <1>6 DEF Adds

(* A block is entered.                                                     *)
LEMMA BlockStep ==
  ASSUME Going, NEW T, Holds(T), EnterBlock
  PROVE  \E U : HoldsNext(U)
<1>1. /\ walk # <<>> /\ Head(walk).do = "enter" /\ ~IsNull(Here) /\ IsInnerBlock(Here)
      /\ symbol' = symbol /\ typearray' = typearray
      BY DEF EnterBlock, Doing, types
<1>2. PICK d, h, e, ts, p, sy, ta, s, name :
        /\ d = Done(walk) /\ h = Head(walk) /\ e = DoneNext /\ ts = tables /\ p = currenttable
        /\ sy = symbol /\ ta = typearray /\ s = Here /\ name = NoName
      OBVIOUS
<1>3. /\ Tidy(tree) /\ IsTime(d, h) /\ e = d \cup ({h} \cap Visits) /\ h = Enter(s) /\ s \in Blocks
      /\ SInv(T, d, ts, p, sy, ta) /\ GoodTables(ts)
      BY <1>1, <1>2, AtTime, AtNode DEF Going, DoneNext, Holds
<1>4. p \in DOMAIN ts
      BY <1>3, InvariantFull
<1>5. AddTable(NewTable(name, NoSymbol))
      BY <1>2 DEF EnterBlock
<1>6. Adds(tables, currenttable, name, NoSymbol, tables', currenttable')
      BY <1>2, <1>3, <1>4, <1>5, AddingTable
<1>7. PICK us, q : us = tables' /\ q = currenttable'
      OBVIOUS
<1>8. Adds(ts, p, name, NoSymbol, us, q)
      BY <1>2, <1>6, <1>7
<1>9. PICK U : SInv(U, e, us, q, sy, ta)
      BY <1>3, <1>8, BlockOpened
<1>10. HoldsNext(U)
       BY <1>1, <1>2, <1>7, <1>9 DEF HoldsNext
<1>11. QED
       BY <1>10

(* The table of a function is made or found.                               *)
LEMMA FunctionStep ==
  ASSUME Going, NEW T, Holds(T), OpenFunction
  PROVE  \E U : HoldsNext(U)
<1>1. /\ walk # <<>> /\ Head(walk).do = "middle" /\ At[Here].subtype = "FUNCTION_DECL"
      /\ symbol' = symbol /\ typearray' = {}
      BY DEF OpenFunction, Doing, SubtypeIs
<1>2. PICK d, h, e, ts, p, sy, ta, g, us, q :
        /\ d = Done(walk) /\ h = Head(walk) /\ e = DoneNext /\ ts = tables /\ p = currenttable
        /\ sy = symbol /\ ta = typearray /\ g = Here /\ us = tables' /\ q = currenttable'
      OBVIOUS
<1>3. /\ Tidy(tree) /\ IsTime(d, h) /\ e = d \cup ({h} \cap Visits) /\ h = Middle(g) /\ g \in Declarators
      /\ SInv(T, d, ts, p, sy, ta) /\ GoodTables(ts)
      BY <1>1, <1>2, AtTime, AtNode DEF Going, DoneNext, Holds
<1>4. p \in DOMAIN ts
      BY <1>3, InvariantFull
<1>5. PICK name, id, N : name = At[Left(g)].string_data /\ id = sy[Left(g)] /\ N = TablesOf(name)
      OBVIOUS
<1>6. \E U : SInv(U, e, us, q, sy, {})
      <2>1. CASE N = {}
            <3>1. AddTable(NewTable(name, id))
                  BY <1>2, <1>5, <2>1 DEF OpenFunction
            <3>2. Adds(tables, currenttable, name, id, tables', currenttable')
                  BY <1>2, <1>3, <1>4, <3>1, AddingTable
            <3>3. Adds(ts, p, name, id, us, q)
                  BY <1>2, <3>2
            <3>4. AddsFor(g, sy, ts, p, us, q)
                  BY <1>5, <3>3 DEF AddsFor
            <3>5. QED
                  BY <1>3, <3>4, FunctionAdded
      <2>2. CASE N # {}
            <3>1. PICK k, c : k = Least(N) /\ c = ts[<<>>].children
                  OBVIOUS
            <3>2. us = ts /\ q = <<k>>
                  BY <1>2, <1>5, <2>2, <3>1 DEF OpenFunction
            <3>3. c \in Nat
                  BY <1>3, <3>1 DEF GoodTables, IsFamily
            <3>4. N = {i \in 1..c : ts[<<i>>].name = name}
                  BY <1>2, <1>5, <3>1 DEF TablesOf
            <3>5. N \subseteq Nat
                  BY <3>3, <3>4
            <3>6. k \in N
                  BY <2>2, <3>1, <3>5, LeastOf
            <3>7. k \in 1..ts[<<>>].children /\ ts[<<k>>].name = At[Left(g)].string_data
                  BY <1>5, <3>1, <3>4, <3>6
            <3>8. \E U : SInv(U, e, ts, <<k>>, sy, {})
                  BY <1>3, <3>7, FunctionFound
            <3>9. QED
                  BY <3>2, <3>8
      <2>3. QED
            BY <2>1, <2>2
<1>7. PICK U : SInv(U, e, us, q, sy, {})
      BY <1>6
<1>8. HoldsNext(U)
      BY <1>1, <1>2, <1>7 DEF HoldsNext
<1>9. QED
      BY <1>8

(* A block or the body of a definition is left.                            *)
LEMMA BlockLeft ==
  ASSUME Going, NEW T, Holds(T), LeaveBlock
  PROVE  \E U : HoldsNext(U)
<1>1. /\ walk # <<>> /\ Head(walk).do = "leave" /\ At[Here].subtype = "LIST_BLOCK"
      /\ symbol' = symbol /\ typearray' = typearray /\ tables' = tables
      /\ currenttable' = IF currenttable = <<>> THEN Nowhere ELSE Parent(currenttable)
      BY DEF LeaveBlock, Doing, SubtypeIs, types
<1>2. PICK d, h, e, ts, p, sy, ta, n :
        /\ d = Done(walk) /\ h = Head(walk) /\ e = DoneNext /\ ts = tables /\ p = currenttable
        /\ sy = symbol /\ ta = typearray /\ n = Here
      OBVIOUS
<1>3. /\ Tidy(tree) /\ IsTime(d, h) /\ e = d \cup ({h} \cap Visits) /\ h = Leave(n) /\ IsNode(n)
      /\ n \in NodePaths /\ n \in Seq(Steps)
      /\ n \in Blocks <=> IsInnerBlock(n)
      BY <1>1, <1>2, AtTime, AtNode DEF Going, DoneNext
<1>4. SInv(T, d, ts, p, sy, ta) /\ GoodTables(ts)
      BY <1>1, <1>2, AtNode DEF Holds
<1>5. PICK s \in Keys : h = Closer(s)
      <2>1. CASE n \in Blocks
            <3>1. n \in Keys /\ Closer(n) = Leave(n)
                  BY <1>3, <2>1, KeyTimes DEF Keys
            <3>2. QED
                  BY <1>3, <3>1
      <2>2. CASE n \notin Blocks
            <3>1. At[Parent(n)].subtype = "FUNCTION_DEF"
                  BY <1>1, <1>2, <1>3, <2>2 DEF IsInnerBlock
            <3>2. n # <<>>
                  BY <1>1, <1>2, <1>3, TidyRoot
            <3>3. PICK D : D = Parent(n)
                  OBVIOUS
            <3>4. D \in Seq(Steps) /\ IsWithin(n, D) /\ (n = Left(D) \/ n = Right(D))
                  BY <1>3, <3>2, <3>3, WithinParent
            <3>5. IsNode(D) /\ D \in NodePaths
                  BY <1>3, <3>4, NodeAbove DEF IsNode, NodePaths
            <3>6. D \in Definitions /\ At[Left(D)].subtype = "FUNCTION_SPEC"
                  BY <1>3, <3>1, <3>3, <3>5, DefinitionNode
            <3>7. n = Right(D)
                  BY <1>1, <1>2, <3>4, <3>6
            <3>8. D \in Keys
                  BY <1>3, <3>6, DefinitionFacts DEF Keys
            <3>9. Closer(D) = Leave(Right(D))
                  BY <3>6 DEF Closer
            <3>10. QED
                   BY <1>3, <3>7, <3>8, <3>9
      <2>3. QED
            BY <2>1, <2>2
<1>6. IsLeave(h) /\ Kept(ts, ts)
      BY <1>3, <1>4, InvariantFull, KeptSame DEF IsLeave
<1>7. p # <<>> /\ SInv(T, e, ts, Parent(p), sy, ta)
      <2>1. IsTime(d, h) /\ e = d \cup ({h} \cap Visits) /\ Tidy(tree)
            BY <1>3
      <2>2. IsOpen(d, s)
            BY <2>1, <1>4, <1>5, <1>6, ClosedTable
      <2>3. p # <<>>
            BY <2>1, <1>4, <1>5, <1>6, ClosedTable
      <2>4. PICK us, q : us = ts /\ q = Parent(p)
            OBVIOUS
      <2>6. Kept(ts, us)
            BY <1>6, <2>4
      <2>7. SInv(T, e, us, Parent(p), sy, ta)
            BY <2>1, <1>4, <1>5, <1>6, <2>6, ClosedTable
      <2>5. QED
            BY <2>3, <2>4, <2>7
<1>8. HoldsNext(T)
      BY <1>1, <1>2, <1>7 DEF HoldsNext
<1>9. QED
      BY <1>8
-----------------------------------------------------------------------------
(* The end of a function declarator.                                       *)

(* The table of a function is for a symbol of its.                         *)
LEMMA FunctionSymbol ==
  ASSUME Tidy(tree), NEW d, NEW T, NEW ts, NEW p, NEW sy, NEW ta, SInv(T, d, ts, p, sy, ta),
         NEW s, s \in Keyed(d), s \in Functions, NEW id, id = ts[T[s]].tablefor
  PROVE  /\ id # NoSymbol /\ Valid(ts, id) /\ id = sy[Left(Header(s))]
         /\ SymbolAt(ts, id).funcinfo.declnode # <<>> /\ IsFunSymbol(SymbolAt(ts, id))
<1>1. /\ Scoped(T, d, ts, sy) /\ Kinds(ts, sy) /\ Funs(ts) /\ Owners(T, d, ts, sy)
      BY DEF SInv, Entered
<1>2. PICK x : x = Left(Header(s))
      OBVIOUS
<1>3. x \in Decl(sy) /\ id = sy[x]
      BY <1>1, <1>2 DEF Owners
<1>4. Valid(ts, id) /\ id = <<T[ScopeOf(x)], id[2]>>
      BY <1>1, <1>3 DEF Scoped
<1>5. id # NoSymbol
      BY <1>4 DEF NoSymbol
<1>6. x \in Names
      <2>1. Header(s) \in Declarators
            BY FunctionFacts
      <2>2. QED
            BY <1>2, <2>1 DEF Names
<1>7. NodeOf(ts, id) \in Names
      <2>1. SameKind(x, NodeOf(ts, id))
            BY <1>1, <1>3 DEF Kinds
      <2>2. QED
            BY <1>6, <2>1 DEF SameKind
<1>8. IsFunSymbol(SymbolAt(ts, id))
      <2>1. PICK a, b : a = id[1] /\ b = id[2]
            OBVIOUS
      <2>2. a \in DOMAIN ts /\ b \in 1..Len(ts[a].symbols)
            BY <1>4, <2>1 DEF Valid
      <2>3. IsFunSymbol(SymbolAt(ts, <<a, b>>))
            BY <1>1, <2>2 DEF Funs
      <2>4. QED
            BY <2>1, <2>3 DEF SymbolAt
<1>9. SymbolAt(ts, id).funcinfo.declnode = Parent(NodeOf(ts, id))
      BY <1>7, <1>8 DEF IsFunSymbol, NodeOf
<1>10. PICK h \in Declarators : NodeOf(ts, id) = Left(h)
       BY <1>7 DEF Names
<1>11. Parent(NodeOf(ts, id)) = h /\ h # <<>>
       BY <1>10, NameFacts, DeclaratorFacts
<1>12. QED
       BY <1>2, <1>3, <1>4, <1>5, <1>8, <1>9, <1>11

(* The flag that the end of a declarator sets is one that is not kept.     *)
LEMMA FlagKept ==
  ASSUME NEW ts, AllFull(ts), GoodTables(ts), NEW id, Valid(ts, id), NEW us,
         us = [ts EXCEPT ![id[1]].symbols[id[2]].funcinfo.params_inserted = TRUE]
  PROVE  Kept(ts, us)
<1>1. PICK old, s, ws : /\ old = SymbolAt(ts, id)
                        /\ s = [old EXCEPT !.funcinfo = [@ EXCEPT !.params_inserted = TRUE]]
                        /\ ws = WithSymbol(ts, id, s)
      OBVIOUS
<1>2. us = ws
      BY <1>1 DEF WithSymbol, SymbolAt
<1>3. IsFull(old)
      <2>1. id[1] \in DOMAIN ts /\ id[2] \in 1..Len(ts[id[1]].symbols)
            BY DEF Valid
      <2>2. QED
            BY <1>1, <2>1 DEF AllFull, SymbolAt
<1>4. SameSymbol(old, s)
      BY <1>1, <1>3 DEF IsFull, SameSymbol, SymbolFields, InfoFields
<1>5. QED
      BY <1>1, <1>2, <1>4, KeptOne

(* A definition stays in its table, a prototype leaves it.                 *)
LEMMA DeclaratorLeft ==
  ASSUME Going, NEW T, Holds(T), CloseFunction
  PROVE  \E U : HoldsNext(U)
<1>1. /\ walk # <<>> /\ Head(walk).do = "leave" /\ At[Here].subtype = "FUNCTION_DECL"
      /\ symbol' = symbol /\ typearray' = typearray
      BY DEF CloseFunction, Doing, SubtypeIs, types
<1>2. PICK d, h, e, ts, p, sy, ta, g, us, q, id :
        /\ d = Done(walk) /\ h = Head(walk) /\ e = DoneNext /\ ts = tables /\ p = currenttable
        /\ sy = symbol /\ ta = typearray /\ g = Here /\ us = tables' /\ q = currenttable'
        /\ id = Owner
      OBVIOUS
<1>3. /\ Tidy(tree) /\ IsTime(d, h) /\ e = d \cup ({h} \cap Visits) /\ h = Leave(g) /\ g \in Declarators
      /\ SInv(T, d, ts, p, sy, ta) /\ GoodTables(ts)
      BY <1>1, <1>2, AtTime, AtNode DEF Going, DoneNext, Holds
<1>4. p \in DOMAIN ts /\ AllFull(ts)
      BY <1>3, InvariantFull
<1>5. IsRef(ts, id) /\ id = ts[p].tablefor
      BY <1>2, <1>3, <1>4 DEF Owner, GoodTables
<1>6. Kept(ts, us)
      <2>1. CASE OwnerInfo = NoFuncinfo
            <3>1. us = ts
                  BY <1>2, <2>1 DEF CloseFunction
            <3>2. QED
                  BY <1>4, <3>1, KeptSame
      <2>2. CASE OwnerInfo # NoFuncinfo
            <3>1. us = [ts EXCEPT ![id[1]].symbols[id[2]].funcinfo.params_inserted = TRUE]
                  BY <1>2, <2>2 DEF CloseFunction
            <3>2. Valid(ts, id)
                  BY <1>2, <1>5, <2>2 DEF IsRef, OwnerInfo
            <3>3. QED
                  BY <1>3, <1>4, <3>1, <3>2, FlagKept
      <2>3. QED
            BY <2>1, <2>2
<1>7. PICK s : s = Region[g] /\ s \in Functions
      BY <1>3 DEF Functions
<1>8. s \in Keys /\ Header(s) = g /\ (s \notin Definitions => s = g)
      BY <1>3, <1>7, FunctionFacts
<1>9. CASE s \in Definitions
      <2>1. Below(Here, "FUNCTION_SPEC")
            BY <1>2, <1>3, <1>7, <1>8, <1>9, FunctionFacts
      <2>2. q = p
            BY <1>2, <2>1 DEF CloseFunction
      <2>3. \A t \in Keys : h # Opener(t) /\ h # Closer(t)
            <3>1. ASSUME NEW t \in Keys PROVE h # Opener(t) /\ h # Closer(t)
                  <4>1. h # Opener(t)
                        BY <1>3, VisitsDiffer DEF Opener
                  <4>2. CASE t \in Definitions
                        <5>1. At[Right(t)].subtype = "LIST_BLOCK"
                              BY <1>3, <4>2, DefinitionFacts
                        <5>2. QED
                              BY <1>1, <1>2, <1>3, <4>1, <4>2, <5>1, VisitsDiffer DEF Closer
                  <4>3. CASE t \in Blocks
                        <5>1. At[t].subtype = "LIST_BLOCK" /\ t \notin Definitions
                              BY <1>3, <4>3, BlockFacts
                        <5>2. QED
                              BY <1>1, <1>2, <1>3, <4>1, <5>1, VisitsDiffer DEF Closer
                  <4>4. CASE t \notin Definitions /\ t \notin Blocks
                        <5>1. t \in Functions /\ t = Header(t) /\ Region[Header(t)] = t
                              BY <1>3, <4>4, KeyFacts, FunctionFacts
                        <5>2. t # g
                              BY <1>7, <1>9, <4>4, <5>1
                        <5>3. QED
                              BY <1>3, <4>1, <4>4, <5>2, VisitsDiffer DEF Closer
                  <4>5. QED
                        BY <4>2, <4>3, <4>4
            <3>2. QED
                  BY <3>1
      <2>4. \A x \in Identifiers : h # Middle(x)
            BY <1>3, VisitsDiffer
      <2>5. \A D \in Keyed(d) : D \in Definitions /\ h = Leave(Header(D)) => Filled(T, D, ts, sy)
            <3>1. ASSUME NEW D, D \in Keyed(d), D \in Definitions, h = Leave(Header(D))
                  PROVE  Filled(T, D, ts, sy)
                  <4>1. IsTime(d, Leave(Header(D)))
                        BY <1>3, <3>1
                  <4>2. QED
                        BY <1>3, <3>1, <4>1, HeadFilled
            <3>2. QED
                  BY <3>1
      <2>6. BitsDone(e, ta)
            <3>1. \A f \in Declarators : h # Enter(f) /\ h # Middle(f)
                  BY <1>3, VisitsDiffer
            <3>2. BitsDone(d, ta)
                  BY <1>3 DEF SInv
            <3>3. QED
                  BY <1>3, <3>1, <3>2, BitKept
      <2>7. SInv(T, e, us, p, sy, ta)
            BY <1>3, <1>6, <2>3, <2>4, <2>5, <2>6, RestingStep
      <2>8. HoldsNext(T)
            BY <1>1, <1>2, <2>2, <2>7 DEF HoldsNext
      <2>9. QED
            BY <2>8
<1>10. CASE s \notin Definitions
      <2>1. h = Closer(s) /\ IsLeave(h) /\ s = g
            <3>1. s = g /\ s \in Functions \ Definitions
                  BY <1>7, <1>8, <1>10
            <3>2. Closer(s) = Leave(s)
                  BY <1>10 DEF Closer
            <3>3. QED
                  BY <1>3, <3>1, <3>2 DEF IsLeave
      <2>2. p # <<>> /\ T[s] = p /\ s \in Keyed(d)
            <3>1. Mapped(T, d, ts) /\ Nested(T, d, p)
                  BY <1>3 DEF SInv, Shape
            <3>2. IsOpen(d, s) /\ T[s] = p /\ p # <<>>
                  <4>1. PICK r : r = s /\ r \in Keys /\ h = Closer(r)
                        BY <1>8, <2>1
                  <4>2. IsOpen(d, r) /\ T[r] = p /\ p # <<>>
                        BY <1>3, <1>4, <3>1, <4>1, Closing
                  <4>3. QED
                        BY <4>1, <4>2
            <3>3. QED
                  BY <3>2, OpenKeyed
      <2>3. id # NoSymbol /\ SymbolAt(ts, id).funcinfo.declnode # <<>>
            <3>1. id = ts[T[s]].tablefor
                  BY <1>5, <2>2
            <3>2. QED
                  BY <1>3, <1>7, <2>2, <3>1, FunctionSymbol
      <2>4. OwnerInfo # NoFuncinfo
            BY <1>2, <2>3 DEF OwnerInfo, NoFuncinfo
      <2>5. ~Below(Here, "FUNCTION_SPEC")
            BY <1>2, <1>3, <1>7, <1>8, <1>10, FunctionFacts
      <2>6. q = Parent(p)
            BY <1>2, <2>4, <2>5 DEF CloseFunction
      <2>7. SInv(T, e, us, Parent(p), sy, ta)
            BY <1>3, <1>6, <1>8, <2>1, ClosedTable
      <2>8. HoldsNext(T)
            BY <1>1, <1>2, <2>6, <2>7 DEF HoldsNext
      <2>9. QED
            BY <2>8
<1>11. QED
       BY <1>9, <1>10
-----------------------------------------------------------------------------
(* The steps that tie an identifier.                                       *)

(* More dimensions, and the count of a parameter, are not kept.            *)
LEMMA DimensionsKept ==
  ASSUME NEW ts, AllFull(ts), GoodTables(ts), NEW id, Valid(ts, id), NEW n
  PROVE  Kept(ts, add_array_dimensions(ts, id, n))
<1>1. PICK old, s, us : /\ old = SymbolAt(ts, id) /\ s = [old EXCEPT !.dims = @ \o Dimensions(n)]
                        /\ us = WithSymbol(ts, id, s)
      OBVIOUS
<1>2. IsFull(old)
      <2>1. id[1] \in DOMAIN ts /\ id[2] \in 1..Len(ts[id[1]].symbols)
            BY DEF Valid
      <2>2. QED
            BY <1>1, <2>1 DEF AllFull, SymbolAt
<1>3. SameSymbol(old, s)
      BY <1>1, <1>2 DEF IsFull, SameSymbol, SymbolFields
<1>4. Kept(ts, us)
      BY <1>1, <1>3, KeptOne
<1>5. add_array_dimensions(ts, id, n) = us
      BY <1>1 DEF add_array_dimensions, SymbolAt, WithSymbol
<1>6. QED
      BY <1>4, <1>5

(* Counting a parameter changes nothing in a symbol but the counts.        *)
LEMMA CountKept ==
  ASSUME NEW ts, AllFull(ts), GoodTables(ts), Valid(ts, Owner)
  PROVE  Kept(ts, append_symbol_param(ts))
<1>1. CASE OwnerInfo.params_inserted
      BY <1>1, KeptSame DEF append_symbol_param
<1>2. CASE ~OwnerInfo.params_inserted
  <2>1. PICK id, v : id = Owner /\ v = SymbolAt(ts, id).params + 1
        OBVIOUS
  <2>2. PICK old, s, us : /\ old = SymbolAt(ts, id)
                          /\ s = [old EXCEPT !.params = @ + 1, !.size = v]
                          /\ us = WithSymbol(ts, id, s)
        OBVIOUS
  <2>3. IsFull(old)
        <3>1. id[1] \in DOMAIN ts /\ id[2] \in 1..Len(ts[id[1]].symbols)
              BY <2>1 DEF Valid
        <3>2. QED
              BY <2>2, <3>1 DEF AllFull, SymbolAt
  <2>4. SameSymbol(old, s)
        BY <2>2, <2>3 DEF IsFull, SameSymbol, SymbolFields
  <2>5. Kept(ts, us)
        BY <2>1, <2>2, <2>4, KeptOne
  <2>6. us = [ts EXCEPT ![id[1]].symbols[id[2]].params = @ + 1, ![id[1]].symbols[id[2]].size = v]
        BY <2>2 DEF WithSymbol, SymbolAt
  <2>7. append_symbol_param(ts) = us
        BY <1>2, <2>1, <2>6 DEF append_symbol_param
  <2>8. QED
        BY <2>5, <2>7
<1>3. QED
      BY <1>1, <1>2

(* So the tables with the parameter counted are kept.                      *)
LEMMA CountedKept ==
  ASSUME StateOK, Declares, AllFull(tables)
  PROVE  Kept(tables, Counted)
<1>1. GoodTables(tables) /\ currenttable \in DOMAIN tables
      BY DEF Declares, StateOK, CurrentOK
<1>2. CASE IsParameter(Here)
      <2>1. OwnerInfo # NoFuncinfo
            BY <1>2 DEF Declares
      <2>2. Owner # NoSymbol
            BY <2>1 DEF OwnerInfo
      <2>3. Valid(tables, Owner)
            BY <1>1, <2>2 DEF GoodTables, Owner, IsRef
      <2>4. QED
            BY <1>1, <1>2, <2>3, CountKept DEF Counted
<1>3. CASE ~IsParameter(Here)
      BY <1>3, KeptSame DEF Counted
<1>4. QED
      BY <1>2, <1>3

(* The walk is at an identifier.                                           *)
LEMMA AtIdentifier ==
  ASSUME Going, walk # <<>>, Head(walk).do = "middle", At[Here].type = "IDENTIFIER"
  PROVE  IsTie(Here, Done(walk), DoneNext)
<1>1. /\ Head(walk) = Middle(Here) /\ IsTime(Done(walk), Head(walk)) /\ Here \in Identifiers
      BY AtTime, AtNode DEF Going
<1>2. QED
      BY <1>1 DEF IsTie, DoneNext

(* The symbol of the name in the table, if there is one.                   *)
LEMMA KnownName ==
  ASSUME GoodTables(tables), currenttable \in DOMAIN tables, Known(Here) # {}
  PROVE  SymbolAt(tables, <<currenttable, Least(Known(Here))>>).name = At[Here].string_data
<1>1. PICK p, N, name : p = currenttable /\ N = Known(Here) /\ name = At[Here].string_data
      OBVIOUS
<1>2. GoodSymbols(tables[p].symbols)
      BY <1>1 DEF GoodTables, IsTable
<1>3. PICK S : tables[p].symbols \in Seq(S)
      BY <1>2 DEF GoodSymbols, IsSequence
<1>4. DOMAIN tables[p].symbols = 1..Len(tables[p].symbols) /\ Len(tables[p].symbols) \in Nat
      BY <1>3, LenProperties
<1>5. N = {k \in DOMAIN tables[p].symbols : tables[p].symbols[k].name = name}
      BY <1>1 DEF Known, Named
<1>6. N \subseteq Nat /\ N # {}
      BY <1>1, <1>4, <1>5
<1>7. Least(N) \in N
      BY <1>6, LeastOf
<1>8. tables[p].symbols[Least(N)].name = name
      BY <1>5, <1>7
<1>9. QED
      BY <1>1, <1>8 DEF SymbolAt

(* The new symbol is one of its identifier.                                *)
LEMMA NewSymbolFacts ==
  ASSUME Tidy(tree), NEW x, NEW d, NEW e, IsTie(x, d, e), BitsDone(d, typearray), IsDeclared(x)
  PROVE  IsNewSymbol(x, NewSymbol(x))
<1>1. x \in Identifiers /\ IsTime(d, Middle(x))
      BY DEF IsTie
<1>2. PICK h, ta : h = Middle(x) /\ ta = typearray
      OBVIOUS
<1>3. "FUNCTION" \in ta <=> x \in Names
      BY <1>1, <1>2, BitAtName
<1>4. PICK r : r = NewSymbol(x)
      OBVIOUS
<1>5. /\ DOMAIN r = SymbolFields /\ r.name = At[x].string_data /\ r.node = x /\ r.type = ta
      /\ r.funcinfo = IF "FUNCTION" \in typearray
                      THEN [declnode |-> Parent(x), is_prototyped |-> ~Below(x, "FUNCTION_SPEC"),
                            is_defined |-> Below(x, "FUNCTION_SPEC"), params_inserted |-> FALSE]
                      ELSE NoFuncinfo
      BY <1>2, <1>4 DEF NewSymbol, SymbolFields
<1>6. DOMAIN r.funcinfo = InfoFields
      BY <1>5 DEF NoFuncinfo, InfoFields
<1>7. x \in Names => r.funcinfo.declnode = Parent(x) /\ r.funcinfo.is_defined = Below(x, "FUNCTION_SPEC")
      BY <1>2, <1>3, <1>5
<1>8. IsFunSymbol(r)
      BY <1>3, <1>5, <1>7 DEF IsFunSymbol
<1>9. IsFull(r)
      BY <1>5, <1>6 DEF IsFull
<1>10. QED
       BY <1>4, <1>5, <1>7, <1>8, <1>9 DEF IsNewSymbol

(* What find_symbol finds is the innermost.                                *)
LEMMA FoundInmost ==
  ASSUME GoodTables(tables), NEW path, path \in DOMAIN tables, NEW name,
         find_symbol(path, name) # NoSymbol
  PROVE  \E K, k : /\ IsInmost(tables, path, K, name, k)
                   /\ find_symbol(path, name) = <<SubSeq(path, 1, K), k>>
<1>1. PICK m : m = Len(path)
      OBVIOUS
<1>2. PICK depths : depths = {k \in 0..m : Named(SubSeq(path, 1, k), name) # {}}
      OBVIOUS
<1>3. depths # {}
      BY <1>1, <1>2 DEF find_symbol
<1>4. path \in Seq(Numbers) /\ m \in Nat
      BY <1>1, LenProperties DEF GoodTables, IsFamily
<1>5. depths \subseteq 0..m
      BY <1>2
<1>6. \E k \in depths : \A j \in depths : j <= k
      BY <1>3, <1>4, <1>5, GreatestOf
<1>7. PICK K : K = CHOOSE k \in depths : \A j \in depths : j <= k
      OBVIOUS
<1>8. K \in depths /\ \A j \in depths : j <= K
      BY <1>6, <1>7
<1>9. PICK p, N : p = SubSeq(path, 1, K) /\ N = Named(p, name)
      OBVIOUS
<1>10. p \in DOMAIN tables /\ N # {}
       BY <1>1, <1>2, <1>8, <1>9 DEF GoodTables, IsFamily
<1>11. \A q \in DOMAIN tables :
         /\ DOMAIN tables[q].symbols = 1..Len(tables[q].symbols)
         /\ Len(tables[q].symbols) \in Nat
       <2>1. ASSUME NEW q \in DOMAIN tables
             PROVE  /\ DOMAIN tables[q].symbols = 1..Len(tables[q].symbols)
                    /\ Len(tables[q].symbols) \in Nat
             <3>1. GoodSymbols(tables[q].symbols)
                   BY DEF GoodTables, IsTable
             <3>2. PICK S : tables[q].symbols \in Seq(S)
                   BY <3>1 DEF GoodSymbols, IsSequence
             <3>3. QED
                   BY <3>2, LenProperties
       <2>2. QED
             BY <2>1
<1>12. PICK k : k = Least(N)
       OBVIOUS
<1>13. N = {i \in DOMAIN tables[p].symbols : tables[p].symbols[i].name = name}
       BY <1>9 DEF Named
<1>14. k \in N /\ k \in 1..Len(tables[p].symbols)
       <2>1. N \subseteq Nat
             BY <1>10, <1>11, <1>13
       <2>2. k \in N
             BY <1>10, <1>12, <2>1, LeastOf
       <2>3. QED
             BY <1>10, <1>11, <1>13, <2>2
<1>15. find_symbol(path, name) = <<p, k>>
       BY <1>1, <1>2, <1>3, <1>7, <1>9, <1>12 DEF find_symbol
<1>16. ASSUME NEW j \in 0..Len(path), NEW i \in 1..Len(tables[SubSeq(path, 1, j)].symbols),
              SymbolAt(tables, <<SubSeq(path, 1, j), i>>).name = name
       PROVE  j <= K
       <2>1. PICK q : q = SubSeq(path, 1, j)
             OBVIOUS
       <2>2. q \in DOMAIN tables
             BY <1>4, <2>1 DEF GoodTables, IsFamily
       <2>3. i \in DOMAIN tables[q].symbols /\ tables[q].symbols[i].name = name
             BY <1>11, <1>16, <2>1, <2>2 DEF SymbolAt
       <2>4. i \in Named(q, name)
             BY <2>3 DEF Named
       <2>5. j \in depths
             BY <1>1, <1>2, <2>1, <2>4
       <2>6. QED
             BY <1>8, <2>5
<1>17. K \in 0..Len(path)
       BY <1>1, <1>5, <1>8
<1>18. Valid(tables, <<p, k>>) /\ SymbolAt(tables, <<p, k>>).name = name
       BY <1>10, <1>13, <1>14 DEF Valid, SymbolAt
<1>19. IsInmost(tables, path, K, name, k)
       BY <1>9, <1>16, <1>17, <1>18 DEF IsInmost
<1>20. QED
       BY <1>9, <1>15, <1>19
-----------------------------------------------------------------------------
(* A new name is declared.                                                 *)
LEMMA NewStep ==
  ASSUME Going, NEW T, Holds(T), DeclareNew
  PROVE  \E U : HoldsNext(U)
<1>1. /\ walk # <<>> /\ Head(walk).do = "middle" /\ At[Here].type = "IDENTIFIER" /\ Declares
      /\ IsDeclared(Here) /\ typearray' = typearray /\ currenttable' = currenttable
      /\ Known(Here) = {}
      BY DEF DeclareNew, Declaring, Declares, Doing, Tie, types
<1>2. PICK d, e, ts, p, sy, ta, x, us, sz, cs, m, id, r :
        /\ d = Done(walk) /\ e = DoneNext /\ ts = tables /\ p = currenttable
        /\ sy = symbol /\ ta = typearray /\ x = Here /\ us = tables' /\ sz = symbol'
        /\ cs = Counted /\ m = Len(tables[p].symbols) /\ id = <<p, m + 1>> /\ r = NewSymbol(x)
      OBVIOUS
<1>3. /\ Tidy(tree) /\ IsTie(x, d, e) /\ SInv(T, d, ts, p, sy, ta) /\ GoodTables(ts) /\ StateOK
      /\ IsDeclared(x)
      BY <1>1, <1>2, AtIdentifier, AtNode DEF Going, Holds
<1>4. p \in DOMAIN ts /\ AllFull(ts)
      BY <1>3, InvariantFull
<1>5. Kept(ts, cs) /\ GoodTables(cs) /\ DOMAIN cs = DOMAIN ts
      BY <1>1, <1>2, <1>3, <1>4, CountedKept, CountedTables
<1>6. AllFull(cs) /\ IsFamily(ts) /\ IsFamily(cs)
      BY <1>3, <1>5, KeptFull DEF GoodTables
<1>7. SInv(T, d, cs, p, sy, ta)
      BY <1>3, <1>5, <1>6, KeptInvariant
<1>8. PICK old, syms, ws : /\ old = cs[p].symbols /\ syms = Append(old, r)
                           /\ ws = WithSymbols(cs, p, syms)
      OBVIOUS
<1>9. GoodSymbols(old) /\ IsTable(cs[p])
      BY <1>4, <1>5, <1>8 DEF GoodTables, IsTable
<1>10. BitsDone(d, ta)
       BY <1>3 DEF SInv
<1>11. IsNewSymbol(x, r)
       BY <1>2, <1>3, <1>10, NewSymbolFacts
<1>12. IsSymbol(r)
      <2>1. "dims" \in DOMAIN r /\ r.dims = <<>>
            BY <1>2 DEF NewSymbol
      <2>2. <<>> \in Seq(Numbers)
            BY EmptySeq
      <2>3. QED
            BY <2>1, <2>2 DEF IsSymbol
<1>13. GoodSymbols(syms) /\ 1..Len(old) \subseteq 1..Len(syms)
       BY <1>8, <1>9, <1>12, SymbolAdded
<1>14. GoodTables(ws)
       <2>1. 1..Len(cs[p].symbols) \subseteq 1..Len(syms)
             BY <1>8, <1>13
       <2>2. QED
             BY <1>4, <1>5, <1>8, <1>13, <2>1, SymbolsPut
<1>15. Enters(cs, ws, p, r)
       <2>1. /\ DOMAIN ws = DOMAIN cs /\ \A q \in DOMAIN cs : q # p => ws[q] = cs[q]
             /\ ws[p] = [cs[p] EXCEPT !.symbols = syms]
             BY <1>4, <1>5, <1>8 DEF WithSymbols
       <2>2. /\ ws[p].name = cs[p].name /\ ws[p].tablefor = cs[p].tablefor
             /\ ws[p].children = cs[p].children /\ ws[p].symbols = syms
             BY <1>9, <2>1 DEF IsTable
       <2>3. QED
             BY <1>4, <1>5, <1>8, <2>1, <2>2 DEF Enters
<1>16. Len(cs[p].symbols) = m /\ m \in Nat
       <2>1. Len(cs[p].symbols) = m
             BY <1>2, <1>4, <1>5 DEF Kept, SameTable
       <2>2. PICK S : old \in Seq(S)
             BY <1>9 DEF GoodSymbols, IsSequence
       <2>3. QED
             BY <1>8, <2>1, <2>2, LenProperties
<1>17. IsNewName(cs, p, x)
       <2>1. ASSUME NEW k \in 1..Len(cs[p].symbols), SymbolAt(cs, <<p, k>>).name = At[x].string_data
             PROVE  FALSE
             <3>1. k \in 1..Len(ts[p].symbols) /\ SameSymbol(ts[p].symbols[k], cs[p].symbols[k])
                   BY <1>2, <1>4, <1>5, <1>16 DEF Kept, SameTable
             <3>2. ts[p].symbols[k].name = At[x].string_data
                   BY <2>1, <3>1 DEF SameSymbol, SymbolAt
             <3>3. GoodSymbols(ts[p].symbols)
                   BY <1>3, <1>4 DEF GoodTables, IsTable
             <3>4. PICK S : ts[p].symbols \in Seq(S)
                   BY <3>3 DEF GoodSymbols, IsSequence
             <3>5. k \in DOMAIN ts[p].symbols
                   BY <3>1, <3>4, LenProperties
             <3>6. k \in Known(Here)
                   BY <1>2, <3>2, <3>5 DEF Known, Named
             <3>7. QED
                   BY <1>1, <3>6
       <2>2. QED
             BY <2>1 DEF IsNewName
<1>18. /\ us = add_array_dimensions(ws, id, x) /\ sz = Put(sy, x, id)
       <2>1. ws = [Counted EXCEPT ![currenttable].symbols = Append(@, NewSymbol(Here))]
             BY <1>2, <1>8 DEF WithSymbols
       <2>2. QED
             BY <1>2, <2>1 DEF DeclareNew, Tie
<1>19. SInv(T, e, ws, p, sz, ta)
       <2>1. PICK n : n = Len(cs[p].symbols)
             OBVIOUS
       <2>2. id = <<p, n + 1>>
             BY <1>2, <1>16, <2>1
       <2>3. QED
             BY <1>3, <1>5, <1>7, <1>11, <1>15, <1>17, <1>18, <2>1, <2>2, DeclaredNew
<1>20. Kept(ws, us)
       <2>1. AllFull(ws)
             BY <1>19, InvariantFull
       <2>2. Valid(ws, id)
             <3>1. PICK n : n = Len(cs[p].symbols)
                   OBVIOUS
             <3>2. Valid(ws, <<p, n + 1>>)
                   BY <1>5, <1>15, <3>1, EntersSymbols
             <3>3. QED
                   BY <1>2, <1>16, <3>1, <3>2
       <2>3. QED
             BY <1>14, <1>18, <2>1, <2>2, DimensionsKept
<1>21. SInv(T, e, us, p, sz, ta)
       BY <1>14, <1>19, <1>20, KeptInvariant DEF GoodTables
<1>22. HoldsNext(T)
       BY <1>1, <1>2, <1>21 DEF HoldsNext
<1>23. QED
       BY <1>22

(* A name that the table has is tied to its symbol.                        *)
LEMMA KnownStep ==
  ASSUME Going, NEW T, Holds(T), Declares, Known(Here) # {}, NEW ws, NEW id,
         id = <<currenttable, Least(Known(Here))>>, Tie(ws, id), Kept(tables, ws), GoodTables(ws),
         SameKind(Here, NodeOf(tables, id)),
         Here \in Names => /\ Below(Here, "FUNCTION_SPEC") /\ SymbolAt(ws, id).funcinfo.is_defined
                           /\ ~SymbolAt(tables, id).funcinfo.is_defined
  PROVE  \E U : HoldsNext(U)
<1>1. /\ walk # <<>> /\ Head(walk).do = "middle" /\ At[Here].type = "IDENTIFIER"
      /\ IsDeclared(Here) /\ typearray' = typearray /\ currenttable' = currenttable
      BY DEF Declares, Doing, Tie, types
<1>2. PICK d, e, ts, p, sy, ta, x, us, sz, k :
        /\ d = Done(walk) /\ e = DoneNext /\ ts = tables /\ p = currenttable
        /\ sy = symbol /\ ta = typearray /\ x = Here /\ us = tables' /\ sz = symbol'
        /\ k = Least(Known(Here))
      OBVIOUS
<1>3. /\ Tidy(tree) /\ IsTie(x, d, e) /\ SInv(T, d, ts, p, sy, ta) /\ GoodTables(ts) /\ StateOK
      /\ IsDeclared(x) /\ id = <<p, k>>
      BY <1>1, <1>2, AtIdentifier, AtNode DEF Going, Holds
<1>4. p \in DOMAIN ts /\ AllFull(ws)
      BY <1>2, <1>3, InvariantFull, KeptFull
<1>5. Valid(ts, id) /\ SymbolAt(ts, id).name = At[x].string_data
      BY <1>2, <1>3, <1>4, KnownTied, KnownName
<1>6. us = add_array_dimensions(ws, id, x) /\ sz = Put(sy, x, id)
      BY <1>2 DEF Tie
<1>7. Kept(ts, ws)
      BY <1>2
<1>8. Valid(ws, id)
      BY <1>5, <1>7, KeptSymbol
<1>9. Kept(ws, us)
      BY <1>4, <1>6, <1>8, DimensionsKept
<1>10. Kept(ts, us)
       BY <1>7, <1>9, KeptTwice
<1>11. MayDeclare(ts, us, x, id)
       <2>1. SameSymbol(SymbolAt(ws, id), SymbolAt(us, id))
             BY <1>8, <1>9, KeptSymbol
       <2>2. QED
             BY <1>2, <1>5, <2>1 DEF MayDeclare, SameSymbol
<1>12. SInv(T, e, us, p, sz, ta)
       BY <1>3, <1>5, <1>6, <1>10, <1>11, DeclaredAgain
<1>13. HoldsNext(T)
       BY <1>1, <1>2, <1>12 DEF HoldsNext
<1>14. QED
       BY <1>13

(* A function is defined after its prototype.                              *)
LEMMA DefinitionStep ==
  ASSUME Going, NEW T, Holds(T), DeclareDefinition
  PROVE  \E U : HoldsNext(U)
<1>1. /\ walk # <<>> /\ Head(walk).do = "middle" /\ At[Here].type = "IDENTIFIER" /\ Declares
      /\ IsDeclared(Here) /\ Known(Here) # {}
      BY DEF DeclareDefinition, Declaring, Declares, Doing
<1>2. PICK d, e, ts, p, sy, ta, x, cs, k, id :
        /\ d = Done(walk) /\ e = DoneNext /\ ts = tables /\ p = currenttable
        /\ sy = symbol /\ ta = typearray /\ x = Here
        /\ cs = Counted /\ k = Least(Known(Here)) /\ id = <<p, k>>
      OBVIOUS
<1>3. /\ Tidy(tree) /\ IsTie(x, d, e) /\ SInv(T, d, ts, p, sy, ta) /\ GoodTables(ts) /\ StateOK
      /\ IsDeclared(x)
      BY <1>1, <1>2, AtIdentifier, AtNode DEF Going, Holds
<1>4. p \in DOMAIN ts /\ AllFull(ts)
      BY <1>3, InvariantFull
<1>5. Kept(ts, cs) /\ GoodTables(cs) /\ Valid(ts, id) /\ Valid(cs, id)
      BY <1>1, <1>2, <1>3, <1>4, CountedKept, CountedTables, KnownTied
<1>6. Redefines(k) /\ ~IsDefined(k)
      BY <1>2 DEF DeclareDefinition
<1>7. PICK old, s, ws : /\ old = SymbolAt(cs, id)
                        /\ s = [old EXCEPT !.funcinfo = [@ EXCEPT !.is_defined = TRUE]]
                        /\ ws = WithSymbol(cs, id, s)
      OBVIOUS
<1>8. AllFull(cs) /\ IsFull(old)
      <2>1. AllFull(cs) /\ id[1] \in DOMAIN cs /\ id[2] \in 1..Len(cs[id[1]].symbols)
            BY <1>5, KeptFull DEF Valid
      <2>2. QED
            BY <1>7, <2>1 DEF AllFull, SymbolAt
<1>9. SameSymbol(old, s) /\ s.funcinfo.is_defined
      BY <1>7, <1>8 DEF IsFull, SameSymbol, SymbolFields, InfoFields
<1>10. Kept(cs, ws)
       BY <1>5, <1>7, <1>8, <1>9, KeptOne
<1>11. Kept(ts, ws)
       BY <1>5, <1>10, KeptTwice
<1>12. GoodTables(ws) /\ SymbolAt(ws, id) = s
       <2>1. IsSymbol(old)
             BY <1>5, <1>7, RefSymbol
       <2>2. IsSymbol(s)
             BY <1>7, <2>1 DEF IsSymbol
       <2>3. QED
             BY <1>5, <1>7, <2>2, SymbolPut
<1>13. Tie(ws, id)
       <2>1. id[1] = currenttable /\ id[2] = k
             BY <1>2
       <2>2. ws = [Counted EXCEPT ![currenttable].symbols[k].funcinfo.is_defined = TRUE]
             BY <1>2, <1>7, <2>1 DEF WithSymbol, SymbolAt
       <2>3. QED
             BY <1>2, <2>2 DEF DeclareDefinition
<1>14. /\ Below(x, "FUNCTION_SPEC") /\ "FUNCTION" \in SymbolAt(ts, id).type
       /\ At[Parent(x)] = At[Parent(NodeOf(ts, id))] /\ ~SymbolAt(ts, id).funcinfo.is_defined
       BY <1>2, <1>6 DEF Redefines, SameFunction, compare_subtrees, SymbolAt, NodeOf, IsDefined
<1>15. x \in Names /\ SameKind(x, NodeOf(ts, id))
       BY <1>2, <1>3, <1>5, <1>14, DefinitionAgain
<1>16. SymbolAt(ws, id).funcinfo.is_defined
       BY <1>9, <1>12
<1>17. /\ id = <<currenttable, Least(Known(Here))>> /\ Kept(tables, ws)
       /\ SameKind(Here, NodeOf(tables, id))
       /\ Here \in Names => /\ Below(Here, "FUNCTION_SPEC") /\ SymbolAt(ws, id).funcinfo.is_defined
                            /\ ~SymbolAt(tables, id).funcinfo.is_defined
       BY <1>2, <1>11, <1>14, <1>15, <1>16
<1>18. QED
       BY <1>1, <1>12, <1>13, <1>17, KnownStep

(* A parameter that the table has.                                         *)
LEMMA ParameterStep ==
  ASSUME Going, NEW T, Holds(T), DeclareParameter
  PROVE  \E U : HoldsNext(U)
<1>1. /\ walk # <<>> /\ Head(walk).do = "middle" /\ At[Here].type = "IDENTIFIER" /\ Declares
      /\ IsDeclared(Here) /\ Known(Here) # {} /\ IsParameter(Here)
      BY DEF DeclareParameter, Declaring, Declares, Doing
<1>2. PICK d, e, ts, p, sy, ta, x, cs, k, id :
        /\ d = Done(walk) /\ e = DoneNext /\ ts = tables /\ p = currenttable
        /\ sy = symbol /\ ta = typearray /\ x = Here
        /\ cs = Counted /\ k = Least(Known(Here)) /\ id = <<p, k>>
      OBVIOUS
<1>3. /\ Tidy(tree) /\ IsTie(x, d, e) /\ SInv(T, d, ts, p, sy, ta) /\ GoodTables(ts) /\ StateOK
      /\ IsParameter(x)
      BY <1>1, <1>2, AtIdentifier, AtNode DEF Going, Holds
<1>4. p \in DOMAIN ts /\ AllFull(ts)
      BY <1>3, InvariantFull
<1>5. Kept(ts, cs) /\ GoodTables(cs) /\ Valid(ts, id)
      BY <1>1, <1>2, <1>3, <1>4, CountedKept, CountedTables, KnownTied
<1>6. Tie(cs, id)
      BY <1>2 DEF DeclareParameter
<1>7. x \notin Names /\ SameKind(x, NodeOf(ts, id))
      BY <1>2, <1>3, <1>5, ParameterAgain
<1>8. /\ id = <<currenttable, Least(Known(Here))>> /\ Kept(tables, cs)
      /\ SameKind(Here, NodeOf(tables, id)) /\ Here \notin Names
      BY <1>2, <1>5, <1>7
<1>9. QED
      BY <1>1, <1>5, <1>6, <1>8, KnownStep

(* Any other identifier that is found.                                     *)
LEMMA FoundStep ==
  ASSUME Going, NEW T, Holds(T), Use, errors = {}, errors' = {}
  PROVE  \E U : HoldsNext(U)
<1>1. /\ walk # <<>> /\ Head(walk).do = "middle" /\ At[Here].type = "IDENTIFIER"
      /\ ~IsDeclared(Here) /\ typearray' = typearray /\ currenttable' = currenttable
      /\ tables' = tables
      BY DEF Use, Doing, types
<1>2. PICK d, e, ts, p, sy, ta, x, sz, name, id :
        /\ d = Done(walk) /\ e = DoneNext /\ ts = tables /\ p = currenttable
        /\ sy = symbol /\ ta = typearray /\ x = Here /\ sz = symbol'
        /\ name = At[x].string_data /\ id = find_symbol(p, name)
      OBVIOUS
<1>3. /\ Tidy(tree) /\ IsTie(x, d, e) /\ SInv(T, d, ts, p, sy, ta) /\ GoodTables(ts)
      /\ ~IsDeclared(x)
      BY <1>1, <1>2, AtIdentifier, AtNode DEF Going, Holds
<1>4. p \in DOMAIN ts
      BY <1>3, InvariantFull
<1>5. sz = Put(sy, x, id) /\ (id = NoSymbol => Here \in errors')
      BY <1>2 DEF Use
<1>6. id # NoSymbol
      BY <1>5
<1>7. PICK K, k : IsInmost(ts, p, K, name, k) /\ id = <<SubSeq(p, 1, K), k>>
      BY <1>2, <1>3, <1>4, <1>6, FoundInmost
<1>8. IsInmost(ts, p, K, At[x].string_data, k)
      BY <1>2, <1>7
<1>9. SInv(T, e, ts, p, sz, ta)
      BY <1>3, <1>5, <1>7, <1>8, UsedTable
<1>10. HoldsNext(T)
       BY <1>1, <1>2, <1>9 DEF HoldsNext
<1>11. QED
       BY <1>10
-----------------------------------------------------------------------------
(* The tree does not change, nor does what is said of it.                  *)
LEMMA StillTree ==
  ASSUME tree' = tree
  PROVE  /\ At' = At /\ NodePaths' = NodePaths /\ Visits' = Visits
         /\ Identifiers' = Identifiers /\ Declarators' = Declarators /\ Names' = Names
         /\ Blocks' = Blocks /\ Region' = Region /\ BlockScope' = BlockScope
<1>1. At' = At
      BY DEF At
<1>2. NodePaths' = NodePaths
      BY <1>1 DEF NodePaths, IsNode, IsPlace, IsNull
<1>3. Visits' = Visits
      BY <1>2 DEF Visits
<1>4. Identifiers' = Identifiers /\ Declarators' = Declarators
      BY <1>1, <1>2 DEF Identifiers, Declarators
<1>5. Names' = Names
      BY <1>4 DEF Names
<1>6. Blocks' = Blocks
      BY <1>1, <1>2 DEF Blocks, IsInnerBlock
<1>7. Region' = Region
      BY <1>1 DEF Region, Below, Nearest
<1>8. BlockScope' = BlockScope
      BY <1>1 DEF BlockScope
<1>9. QED
      BY <1>1, <1>2, <1>3, <1>4, <1>5, <1>6, <1>7, <1>8

(* The tree does not change, so what is defined of it alone does not       *)
(* either.                                                                 *)
LEMMA StillFunctions ==
  ASSUME tree' = tree
  PROVE  Functions' = Functions /\ Definitions' = Definitions /\ Keys' = Keys
<1>1. Functions' = Functions
      BY StillTree DEF Functions
<1>2. Definitions' = Definitions
      BY StillTree DEF Definitions, Below
<1>3. QED
      BY <1>1, <1>2, StillTree DEF Keys

(* So what holds of the values that the variables get holds after a step.  *)
LEMMA StillShape ==
  ASSUME tree' = tree, NEW T
  PROVE  (Shape(T, Done(walk), tables, currenttable))' <=>
           Shape(T, Done(walk'), tables', currenttable')
<1>1. (Done(walk))' = Done(walk')
      BY StillTree DEF Done
<1>2. QED
      BY <1>1, StillTree, StillFunctions
      DEF Shape, Mapped, Nested, IsOpen, Keyed, Header, Opener, Closer

(* What is done at the next state is what is left out of the walk then.    *)
LEMMA StillDone ==
  ASSUME tree' = tree
  PROVE  /\ IdsDone(Done(walk), symbol)' <=> IdsDone(Done(walk'), symbol')
         /\ BitsDone(Done(walk), typearray)' <=> BitsDone(Done(walk'), typearray')
<1>1. (Done(walk))' = Done(walk')
      BY StillTree DEF Done
<1>2. QED
      BY <1>1, StillTree, StillFunctions DEF IdsDone, BitsDone

(* The same for the entries,                                               *)
LEMMA StillEntered ==
  ASSUME tree' = tree, NEW T
  PROVE  Entered(T, Done(walk), tables, symbol)' <=> Entered(T, Done(walk'), tables', symbol')
<1>1. (Done(walk))' = Done(walk')
      BY StillTree DEF Done
<1>2. Scoped(T, Done(walk), tables, symbol)' <=> Scoped(T, Done(walk'), tables', symbol')
      BY <1>1, StillTree, StillFunctions
      DEF Scoped, Decl, Keyed, Opener, Header, ScopeOf, IsDeclared, IsParameter, Below, Nearest
<1>3. NamedOnce(tables, symbol)' <=> NamedOnce(tables', symbol')
      BY StillTree DEF NamedOnce, Decl, IsDeclared, Below
<1>4. Kinds(tables, symbol)' <=> Kinds(tables', symbol')
      BY StillTree DEF Kinds, Decl, IsDeclared, Below, SameKind, IsPlainId, IsParameter
<1>5. Funs(tables)' <=> Funs(tables')
      BY StillTree DEF Funs, IsFunSymbol
<1>6. Heads(tables)' <=> Heads(tables')
      BY DEF Heads
<1>7. Owners(T, Done(walk), tables, symbol)' <=> Owners(T, Done(walk'), tables', symbol')
      BY <1>1, StillTree, StillFunctions DEF Owners, Decl, Keyed, Opener, Header, IsDeclared, Below
<1>8. Defs(tables, symbol)' <=> Defs(tables', symbol')
      BY StillTree DEF Defs, Decl, IsDeclared, Below
<1>9. QED
      BY <1>2, <1>3, <1>4, <1>5, <1>6, <1>7, <1>8 DEF Entered

(* for the definitions done and the uses,                                  *)
LEMMA StillResting ==
  ASSUME tree' = tree, NEW T
  PROVE  /\ AllFilled(T, Done(walk), tables, symbol)' <=>
              AllFilled(T, Done(walk'), tables', symbol')
         /\ AllResolved(symbol)' <=> AllResolved(symbol')
<1>1. (Done(walk))' = Done(walk')
      BY StillTree DEF Done
<1>2. AllFilled(T, Done(walk), tables, symbol)' <=> AllFilled(T, Done(walk'), tables', symbol')
      <2>1. ASSUME NEW D
            PROVE  Filled(T, D, tables, symbol)' <=> Filled(T, D, tables', symbol')
            BY StillTree
            DEF Filled, Decl, ScopeOf, IsDeclared, IsParameter, Below, Nearest
      <2>2. Keyed(Done(walk))' = Keyed(Done(walk'))
            BY <1>1, StillTree, StillFunctions DEF Keyed, Opener, Header
      <2>3. QED
            BY <1>1, <2>1, <2>2, StillTree, StillFunctions DEF AllFilled, Header
<1>3. AllResolved(symbol)' <=> AllResolved(symbol')
      BY StillTree DEF AllResolved, Resolved, Seen, ScopeOf, IsDeclared, IsParameter, Below, Nearest
<1>4. QED
      BY <1>2, <1>3

(* and for the invariant.                                                  *)
LEMMA StillInvariant ==
  ASSUME tree' = tree, NEW T, SInv(T, Done(walk'), tables', currenttable', symbol', typearray')
  PROVE  Holds(T)'
BY StillShape, StillDone, StillEntered, StillResting DEF Holds, SInv
-----------------------------------------------------------------------------
(* The invariant of the walk.                                              *)

(* What no step changes is the tree, and what it does not take back is an  *)
(* error.                                                                  *)
LEMMA StepsKeep ==
  ASSUME Next
  PROVE  tree' = tree /\ errors \subseteq errors' /\ (crashed => crashed' \/ walk # <<>>)
<1>1. tree' = tree /\ errors \subseteq errors'
      BY DEF Next, vars, EnterNull, EnterBlock, EnterNode, SetType, CountPointer, NowhereCrash,
             DeclareCrash, DimensionCrash, Crash, DeclareNew, DeclareDefinition, DeclareParameter,
             Redeclare, Tie, Use, OpenFunction, OpenCrash, MiddleOther, CloseFunction,
             LeaveDeclaration, LeavePointer, LeaveBlock, LeaveOther
<1>2. walk # <<>>
      BY DEF Next, Doing, EnterNull, EnterBlock, EnterNode, SetType, CountPointer, NowhereCrash,
             DeclareCrash, DimensionCrash, DeclareNew, DeclareDefinition, DeclareParameter,
             Redeclare, Use, OpenFunction, OpenCrash, MiddleOther, CloseFunction,
             LeaveDeclaration, LeavePointer, LeaveBlock, LeaveOther, Declaring, Declares, ReadsTable
<1>3. QED
      BY <1>1, <1>2

(* A step goes on with the walk, or reads a NULL pointer.                  *)
LEMMA StepsWalk ==
  ASSUME Next
  PROVE  \/ crashed' /\ walk' = <<>>
         \/ /\ walk # <<>> /\ crashed' = crashed
            /\ \/ Then(<<>>) /\ (Head(walk).do = "enter" => IsNull(Here))
               \/ Then(Children(Here)) /\ Head(walk).do = "enter" /\ ~IsNull(Here)
<1>1. CASE NowhereCrash \/ DeclareCrash \/ DimensionCrash \/ OpenCrash
      BY <1>1 DEF NowhereCrash, DeclareCrash, DimensionCrash, OpenCrash, Crash
<1>2. CASE EnterNull
      BY <1>2 DEF EnterNull, Doing
<1>3. CASE EnterBlock \/ EnterNode
      BY <1>3 DEF EnterBlock, EnterNode, Doing
<1>4. CASE SetType \/ CountPointer \/ MiddleOther \/ Use \/ OpenFunction
      <2>1. Doing("middle") /\ Then(<<>>) /\ crashed' = crashed
            BY <1>4 DEF SetType, CountPointer, MiddleOther, Use, OpenFunction
      <2>2. QED
            BY <2>1 DEF Doing
<1>5. CASE DeclareNew \/ DeclareDefinition \/ DeclareParameter \/ Redeclare
      <2>1. Doing("middle") /\ Then(<<>>) /\ crashed' = crashed
            BY <1>5 DEF DeclareNew, DeclareDefinition, DeclareParameter, Redeclare, Declaring, Declares, Tie
      <2>2. QED
            BY <2>1 DEF Doing
<1>6. CASE CloseFunction \/ LeaveDeclaration \/ LeavePointer \/ LeaveBlock \/ LeaveOther
      <2>1. Doing("leave") /\ Then(<<>>) /\ crashed' = crashed
            BY <1>6 DEF CloseFunction, LeaveDeclaration, LeavePointer, LeaveBlock, LeaveOther
      <2>2. QED
            BY <2>1 DEF Doing
<1>7. QED
      BY <1>1, <1>2, <1>3, <1>4, <1>5, <1>6 DEF Next

(* What is left to walk follows the tree after a step, and what is done    *)
(* has grown by one item.                                                  *)
LEMMA StillLinked ==
  ASSUME Going, Next
  PROVE  Linked(walk') /\ (~crashed' => walk # <<>> /\ crashed' = crashed /\ Done(walk') = DoneNext)
<1>1. CASE crashed' /\ walk' = <<>>
      <2>1. PICK w : w = walk'
            OBVIOUS
      <2>2. w = <<>> /\ Len(w) = 0 /\ w \in Seq({})
            BY <1>1, <2>1, EmptySeq
      <2>3. Linked(w)
            BY <2>2 DEF Linked, IsSequence
      <2>4. QED
            BY <1>1, <2>1, <2>3
<1>2. CASE walk # <<>> /\ \E new : IsNew(new) /\ Then(new)
      <2>1. PICK new : IsNew(new) /\ Then(new)
            BY <1>2
      <2>2. IsNode(<<>>) /\ Linked(walk)
            BY TidyRoot DEF Going
      <2>3. Linked(walk') /\ Done(walk') = DoneNext
            BY <1>2, <2>1, <2>2, LinkedStep DEF DoneNext
      <2>4. crashed' \/ crashed' = crashed
            BY StepsWalk
      <2>5. QED
            BY <1>2, <2>3, <2>4
<1>3. Declarable(tree) /\ StateOK
      BY TidyRoot DEF Going
<1>4. QED
      <2>1. ASSUME walk # <<>>, Then(<<>>), Head(walk).do = "enter" => IsNull(Here)
            PROVE  \E new : IsNew(new) /\ Then(new)
            <3>1. IsNew(<<>>)
                  BY <1>3, <2>1, AtHead
            <3>2. QED
                  BY <2>1, <3>1
      <2>2. ASSUME walk # <<>>, Then(Children(Here)), Head(walk).do = "enter" /\ ~IsNull(Here)
            PROVE  \E new : IsNew(new) /\ Then(new)
            <3>1. IsNew(Children(Here))
                  BY <1>3, <2>2, AtHead
            <3>2. QED
                  BY <2>2, <3>1
      <2>3. QED
            BY <1>1, <1>2, <2>1, <2>2, StepsWalk

(* Each step that prints no error keeps what is said of the tables.        *)
LEMMA StepsHold ==
  ASSUME Going, NEW T, Holds(T), Next, errors = {}, errors' = {}, ~crashed'
  PROVE  \E U : HoldsNext(U)
<1>1. CASE EnterNull \/ EnterNode
      BY <1>1, NullStep, NodeStep
<1>2. CASE SetType \/ CountPointer \/ MiddleOther
      BY <1>2, MiddleStep
<1>3. CASE LeaveDeclaration \/ LeavePointer \/ LeaveOther
      BY <1>3, LeaveStep
<1>4. CASE EnterBlock
      BY <1>4, BlockStep
<1>5. CASE OpenFunction
      BY <1>5, FunctionStep
<1>6. CASE LeaveBlock
      BY <1>6, BlockLeft
<1>7. CASE CloseFunction
      BY <1>7, DeclaratorLeft
<1>8. CASE DeclareNew
      BY <1>8, NewStep
<1>9. CASE DeclareDefinition
      BY <1>9, DefinitionStep
<1>10. CASE DeclareParameter
       BY <1>10, ParameterStep
<1>11. CASE Use
       BY <1>11, FoundStep
<1>12. CASE Redeclare
       BY <1>12 DEF Redeclare
<1>13. CASE NowhereCrash \/ DeclareCrash \/ DimensionCrash \/ OpenCrash
       BY <1>13 DEF NowhereCrash, DeclareCrash, DimensionCrash, OpenCrash, Crash
<1>14. QED
       BY <1>1, <1>2, <1>3, <1>4, <1>5, <1>6, <1>7, <1>8, <1>9, <1>10, <1>11, <1>12, <1>13 DEF Next

(* The invariant: while there is no error, some T maps the parts of the    *)
(* program that the walk has come to to their tables, so that the tables   *)
(* have what those parts declare.                                          *)
InOrder == errors = {} /\ ~crashed => \E T : Holds(T)
SymInv  == Tidy(tree) => StateOK /\ Linked(walk) /\ InOrder

(* No step breaks the invariant.                                           *)
LEMMA NextSym == SymInv /\ [Next]_vars => SymInv'
<1> SUFFICES ASSUME SymInv, [Next]_vars PROVE SymInv'
    OBVIOUS
<1>1. tree' = tree
      BY StepsKeep DEF vars
<1>2. ASSUME Tidy(tree) PROVE (StateOK /\ Linked(walk) /\ InOrder)'
      <2>1. StateOK /\ Linked(walk) /\ InOrder /\ Declarable(tree) /\ Going
            BY <1>2, TidyRoot DEF SymInv, Going
      <2>2. StateOK'
            <3>1. IInv'
                  BY <2>1, NextInv DEF IInv
            <3>2. (Declarable(tree))'
                  BY <1>1, <2>1
            <3>3. QED
                  BY <3>1, <3>2 DEF IInv
      <2>3. CASE UNCHANGED vars
            <3>1. /\ walk' = walk /\ tables' = tables /\ currenttable' = currenttable
                  /\ typearray' = typearray /\ symbol' = symbol /\ errors' = errors /\ crashed' = crashed
                  BY <2>3 DEF vars, types
            <3>2. Linked(walk)'
                  BY <2>1, <3>1
            <3>3. ASSUME NEW T, Holds(T) PROVE Holds(T)'
                  <4>1. SInv(T, Done(walk'), tables', currenttable', symbol', typearray')
                        BY <3>1, <3>3 DEF Holds
                  <4>2. QED
                        BY <1>1, <4>1, StillInvariant
            <3>4. InOrder'
                  <4>1. ASSUME (errors = {} /\ ~crashed)' PROVE (\E T : Holds(T))'
                        <5>1. PICK T : Holds(T)
                              BY <2>1, <3>1, <4>1 DEF InOrder
                        <5>2. Holds(T)'
                              BY <3>3, <5>1
                        <5>3. QED
                              BY <5>2
                  <4>2. QED
                        BY <4>1 DEF InOrder
            <3>5. QED
                  BY <2>2, <3>2, <3>4
      <2>4. CASE Next
            <3>1. /\ Linked(walk')
                  /\ ~crashed' => walk # <<>> /\ crashed' = crashed /\ Done(walk') = DoneNext
                  BY <2>1, <2>4, StillLinked
            <3>2. ASSUME (errors = {} /\ ~crashed)' PROVE (\E T : Holds(T))'
                  <4>1. errors = {} /\ errors' = {} /\ ~crashed /\ ~crashed'
                        BY <2>4, <3>1, <3>2, StepsKeep
                  <4>2. PICK T : Holds(T)
                        BY <2>1, <4>1 DEF InOrder
                  <4>3. PICK U : HoldsNext(U)
                        BY <2>1, <2>4, <4>1, <4>2, StepsHold
                  <4>4. SInv(U, Done(walk'), tables', currenttable', symbol', typearray')
                        BY <3>1, <4>1, <4>3 DEF HoldsNext
                  <4>5. Holds(U)'
                        BY <1>1, <4>4, StillInvariant
                  <4>6. QED
                        BY <4>5
            <3>3. InOrder'
                  BY <3>2 DEF InOrder
            <3>4. QED
                  BY <2>2, <3>1, <3>3
      <2>5. QED
            BY <2>3, <2>4
<1>3. (Tidy(tree))' <=> Tidy(tree)
      BY <1>1
<1>4. QED
      BY <1>2, <1>3 DEF SymInv

(* At the start nothing is done and nothing is in the one table.           *)
LEMMA InitSym == Init => SymInv
<1> SUFFICES ASSUME Init, Tidy(tree) PROVE StateOK /\ Linked(walk) /\ InOrder
    BY DEF SymInv
<1>1. Declarable(tree) /\ StateOK
      BY TidyRoot, InitInv DEF IInv
<1>2. PICK h, d, ts, sy, ta, p, t, w : 
        /\ w = walk /\ h = Enter(<<>>) /\ d = Done(walk) /\ ts = tables /\ sy = symbol /\ ta = typearray
        /\ p = currenttable /\ t = NewTable("file scope", NoSymbol)
      OBVIOUS
<1>3. /\ w = <<h>> /\ ts = [q \in {<<>>} |-> t] /\ p = <<>> /\ ta = {} /\ sy = [n \in {} |-> NoSymbol]
      BY <1>2 DEF Init, Start
<1>4. /\ w \in Seq({h}) /\ Len(w) = 1 /\ w[1] = h /\ w # <<>> /\ Head(w) = h
      BY <1>3
<1>5. /\ <<>> \in Seq(Steps) /\ h.n = <<>> /\ h.do = "enter" /\ h = Enter(<<>>) /\ OnPath(h)
      BY <1>2, EmptySeq DEF Enter, OnPath
<1>6. Linked(walk)
      <2>1. IsSequence(w)
            BY <1>4 DEF IsSequence
      <2>2. \A i \in 1..Len(w) : i = 1
            BY <1>4
      <2>3. \A i \in 1..Len(w) : \E n \in Seq(Steps) : w[i] = Enter(n)
            BY <1>4, <1>5, <2>2
      <2>4. \A i \in 1..(Len(w) - 1) : FALSE
            BY <1>4
      <2>5. Len(w) # 0 => w[Len(w)].n = <<>> /\ w[Len(w)].do # "middle"
            BY <1>4, <1>5
      <2>6. Linked(w)
            BY <2>1, <2>3, <2>4, <2>5 DEF Linked
      <2>7. QED
            BY <1>2, <2>6
<1>7. \A v \in Visits : v \notin d
      <2>1. ASSUME NEW v \in Visits PROVE ~Past(v, h)
            <3>1. OnPath(v) /\ AtOrBelow(v.n, <<>>)
                  BY VisitFacts, BelowOrder
            <3>2. v = h \/ Past(h, v)
                  BY <1>5, <3>1, EnteredFirst
            <3>3. QED
                  BY <1>5, <3>1, <3>2, PastIrreflexive, PastAsymmetric
      <2>2. QED
            BY <1>2, <1>4, <2>1 DEF Done
<1>8. /\ Keyed(d) = {<<>>} /\ \A s : IsOpen(d, s) <=> s = <<>>
      <2>1. \A s \in Keys : Opener(s) \notin d
            BY <1>7, KeyTimes
      <2>2. QED
            BY <2>1 DEF Keyed, IsOpen
<1>9. <<>> \notin Functions /\ <<>> \notin Blocks
      BY FunctionFacts, BlockFacts
<1>10. PICK T : T = [s \in {<<>>} |-> <<>>]
       OBVIOUS
<1>11. /\ DOMAIN ts = {<<>>} /\ ts[<<>>] = t /\ t.symbols = <<>> /\ t.children = 0 /\ Len(t.symbols) = 0
       <2>1. Len(<<>>) = 0
             BY EmptySeq
       <2>2. QED
             BY <1>2, <1>3, <2>1 DEF NewTable
<1>12. Shape(T, d, ts, p)
       <2>1. Mapped(T, d, ts)
             BY <1>8, <1>9, <1>10, <1>11 DEF Mapped
       <2>2. Nested(T, d, p)
             <3>1. p = <<>> /\ Len(p) = 0 /\ SubSeq(p, 1, Len(p)) = p /\ T[<<>>] = p /\ p \in Seq(Steps)
                   <4>1. p = <<>> /\ p \in Seq(Steps) /\ Len(p) = 0
                         BY <1>3, EmptySeq
                   <4>2. SubSeq(p, 1, Len(p)) = p
                         BY <4>1, SubSeqFull
                   <4>3. QED
                         BY <1>10, <4>1, <4>2
             <3>2. \A s : IsOpen(d, s) => T[s] = p /\ s = p
                   BY <1>8, <3>1
             <3>3. IsOpen(d, p)
                   BY <1>8, <3>1
             <3>4. ~IsWithin(p, p)
                   BY <3>1, BelowOrder
             <3>5. PICK n : n = Len(p) /\ n = 0
                   BY <3>1
             <3>6. \A s : IsOpen(d, s) => Len(T[s]) <= Len(p) /\ SubSeq(p, 1, Len(T[s])) = T[s]
                   <4>1. ASSUME NEW s, IsOpen(d, s)
                         PROVE  Len(T[s]) <= Len(p) /\ SubSeq(p, 1, Len(T[s])) = T[s]
                         <5>1. T[s] = p /\ Len(T[s]) = n
                               BY <3>2, <3>5, <4>1
                         <5>2. SubSeq(p, 1, n) = p /\ n <= n
                               BY <3>1, <3>5
                         <5>3. QED
                               BY <3>5, <5>1, <5>2
                   <4>2. QED
                         BY <4>1
             <3>7. \A j \in 0..Len(p) : \E s : IsOpen(d, s) /\ Len(T[s]) = j
                   <4>1. \A j \in 0..n : j = n
                         BY <3>5
                   <4>2. T[p] = p
                         BY <3>2, <3>3
                   <4>3. QED
                         BY <3>3, <3>5, <4>1, <4>2
             <3>8. \A s, u : ~(IsOpen(d, s) /\ IsOpen(d, u) /\ IsWithin(s, u))
                   BY <3>2, <3>4
             <3>9. QED
                   BY <3>6, <3>7, <3>8 DEF Nested
       <2>3. QED
             BY <1>3, <1>11, <2>1, <2>2 DEF Shape
<1>13. DOMAIN sy = {} /\ Decl(sy) = {}
       BY <1>3 DEF Decl
<1>14. IdsDone(d, sy)
       <2>1. \A x \in Identifiers : Middle(x) \notin d
             BY <1>7, IdentifierFacts
       <2>2. QED
             BY <1>13, <2>1 DEF IdsDone
<1>15. BitsDone(d, ta)
       <2>1. \A g \in Declarators : Enter(g) \notin d
             BY <1>7, DeclaratorFacts, NodeVisits
       <2>2. QED
             BY <1>3, <2>1 DEF BitsDone
<1>16. \A q \in DOMAIN ts : \A k \in 1..Len(ts[q].symbols) : FALSE
       BY <1>11
<1>17. \A j \in 1..ts[<<>>].children : FALSE
       BY <1>11
<1>18. Entered(T, d, ts, sy)
       <2>1. Scoped(T, d, ts, sy) /\ Defs(ts, sy) /\ Kinds(ts, sy)
             BY <1>13 DEF Scoped, Defs, Kinds
       <2>2. NamedOnce(ts, sy) /\ Funs(ts)
             BY <1>16 DEF NamedOnce, Funs
       <2>3. Heads(ts)
             BY <1>17 DEF Heads
       <2>4. Owners(T, d, ts, sy)
             BY <1>8, <1>9 DEF Owners
       <2>5. QED
             BY <2>1, <2>2, <2>3, <2>4 DEF Entered
<1>19. AllFilled(T, d, ts, sy) /\ AllResolved(sy)
       <2>1. <<>> \notin Definitions
             BY <1>9, DefinitionFacts
       <2>2. QED
             BY <1>8, <1>13, <2>1 DEF AllFilled, AllResolved
<1>20. Holds(T)
       BY <1>2, <1>12, <1>14, <1>15, <1>18, <1>19 DEF Holds, SInv
<1>21. QED
       BY <1>1, <1>6, <1>20 DEF InOrder

(* So it holds at all times.                                               *)
THEOREM AlwaysInOrder == Spec => []SymInv
BY InitSym, NextSym, PTL DEF Spec
-----------------------------------------------------------------------------
(* What holds of the tables of a program that was accepted.                *)

(* All of it was walked.                                                   *)
LEMMA WalkEnded ==
  ASSUME Tidy(tree), SymInv, Accepted
  PROVE  /\ \E T : SInv(T, Visits, tables, currenttable, symbol, typearray)
         /\ GoodTables(tables)
         /\ DOMAIN symbol = Identifiers /\ Keyed(Visits) = {<<>>} \cup Keys
<1>1. Done(walk) = Visits
      BY DEF Done, Accepted
<1>2. PICK T : Holds(T)
      BY DEF Accepted, SymInv, InOrder
<1>3. SInv(T, Visits, tables, currenttable, symbol, typearray)
      BY <1>1, <1>2 DEF Holds
<1>4. DOMAIN symbol = Identifiers
      <2>1. IdsDone(Visits, symbol)
            BY <1>3 DEF SInv
      <2>2. \A x \in Identifiers : Middle(x) \in Visits
            BY IdentifierFacts
      <2>3. QED
            BY <2>1, <2>2 DEF IdsDone
<1>5. Keyed(Visits) = {<<>>} \cup Keys
      <2>1. \A s \in Keys : Opener(s) \in Visits
            BY KeyTimes
      <2>2. QED
            BY <2>1 DEF Keyed
<1>6. GoodTables(tables)
      BY DEF SymInv, StateOK
<1>7. QED
      BY <1>3, <1>4, <1>5, <1>6

(* What the properties say of declarations is what the invariant says.     *)
LEMMA SameTerms ==
  ASSUME Tidy(tree), DOMAIN symbol = Identifiers
  PROVE  /\ Declared = Decl(symbol) /\ Used = {u \in Identifiers : ~IsDeclared(u)}
         /\ \A c \in Declared : c \in Identifiers /\ IsDeclared(c) /\ Scope[c] = ScopeOf(c)
         /\ \A u : Visible(u) = Seen(u)
<1>1. Declared = Decl(symbol) /\ Used = {u \in Identifiers : ~IsDeclared(u)}
      BY DEF Declared, Decl, Used
<1>2. ASSUME NEW c \in Declared
      PROVE  c \in Identifiers /\ IsDeclared(c) /\ Scope[c] = ScopeOf(c)
      <2>1. c \in Identifiers /\ IsDeclared(c)
            BY DEF Declared
      <2>2. Scope[c] = ScopeOf(c)
            BY DEF Scope, ScopeOf
      <2>3. QED
            BY <2>1, <2>2
<1>3. ASSUME NEW u PROVE Visible(u) = Seen(u)
      <2>1. ASSUME NEW c PROVE c \in Visible(u) <=> c \in Seen(u)
            <3>1. c \in Declared <=> c \in Identifiers /\ IsDeclared(c)
                  BY DEF Declared
            <3>2. c \in Declared => Scope[c] = ScopeOf(c)
                  BY <1>2
            <3>3. QED
                  BY <3>1, <3>2 DEF Visible, Seen
      <2>2. QED
            BY <2>1
<1>4. QED
      BY <1>1, <1>2, <1>3

(* The symbols of two declarations that are the same are of one scope, or  *)
(* of a parameter.                                                         *)
LEMMA SymbolShared ==
  ASSUME Tidy(tree), NEW T, NEW d, NEW ts, NEW sy, Entered(T, d, ts, sy),
         NEW b, b \in Decl(sy), NEW c, c \in Decl(sy), sy[b] = sy[c]
  PROVE  ScopeOf(b) = ScopeOf(c) \/ (IsParameter(b) /\ IsParameter(c))
<1>1. PICK e : e = NodeOf(ts, sy[b])
      OBVIOUS
<1>2. SameKind(b, e) /\ SameKind(c, e) /\ b \in Identifiers /\ c \in Identifiers
      BY <1>1 DEF Entered, Kinds, Scoped
<1>3. \A x \in Identifiers : x \in Names => ScopeOf(x) = <<>> /\ ~IsParameter(x)
      BY ScopeFacts
<1>4. Names \subseteq Identifiers
      BY DeclaratorFacts DEF Names
<1>5. \A x \in {b, c} : \/ IsParameter(x) /\ IsParameter(e)
                        \/ IsPlainId(x) /\ x = e
                        \/ x \in Names /\ e \in Names /\ ~IsParameter(x)
      BY <1>2, <1>3 DEF SameKind, IsPlainId
<1>6. e \in Names => ~IsPlainId(e) /\ ~IsParameter(e)
      BY <1>3, <1>4 DEF IsPlainId
<1>7. IsPlainId(e) => ~IsParameter(e)
      BY DEF IsPlainId
<1>8. QED
      BY <1>3, <1>4, <1>5, <1>6, <1>7

(* Lexical scope.                                                          *)
LEMMA ScopeHolds ==
  ASSUME Tidy(tree), SymInv
  PROVE  LexicalScope
<1> SUFFICES ASSUME Accepted
             PROVE  /\ \A u \in Used : \E c \in Visible(u) :
                         /\ symbol[u] = symbol[c]
                         /\ \A e \in Visible(u) : Len(Scope[e]) <= Len(Scope[c])
                    /\ \A b, c \in Declared :
                         symbol[b] = symbol[c] => Scope[b] = Scope[c] \/ SameParameter(b, c)
    BY DEF LexicalScope
<1>1. PICK T : SInv(T, Visits, tables, currenttable, symbol, typearray)
      BY WalkEnded
<1>2. /\ DOMAIN symbol = Identifiers
      /\ Declared = Decl(symbol) /\ Used = {u \in Identifiers : ~IsDeclared(u)}
      /\ \A c \in Declared : c \in Identifiers /\ IsDeclared(c) /\ Scope[c] = ScopeOf(c)
      /\ \A u : Visible(u) = Seen(u)
      BY WalkEnded, SameTerms
<1>3. ASSUME NEW u \in Used
      PROVE  \E c \in Visible(u) : /\ symbol[u] = symbol[c]
                                   /\ \A e \in Visible(u) : Len(Scope[e]) <= Len(Scope[c])
      <2>1. Resolved(u, symbol)
            BY <1>1, <1>2 DEF SInv, AllResolved
      <2>2. PICK c \in Seen(u) : /\ symbol[u] = symbol[c]
                                 /\ \A e \in Seen(u) : Len(ScopeOf(e)) <= Len(ScopeOf(c))
            BY <2>1 DEF Resolved
      <2>3. \A e \in Seen(u) : e \in Declared
            BY <1>2 DEF Visible
      <2>4. \A e \in Seen(u) : Scope[e] = ScopeOf(e)
            BY <1>2, <2>3
      <2>5. QED
            BY <1>2, <2>2, <2>4
<1>4. ASSUME NEW b \in Declared, NEW c \in Declared, symbol[b] = symbol[c]
      PROVE  Scope[b] = Scope[c] \/ SameParameter(b, c)
      <2>1. ScopeOf(b) = ScopeOf(c) \/ (IsParameter(b) /\ IsParameter(c))
            BY <1>1, <1>2, <1>4, SymbolShared DEF SInv
      <2>2. QED
            BY <1>2, <1>4, <2>1 DEF SameParameter
<1>5. QED
      BY <1>3, <1>4

(* The function whose declarator has the table that p is in: the name of   *)
(* f is tied to the symbol that the table is for, and s is the function's  *)
(* part of the program.                                                    *)
LEMMA TableOwner ==
  ASSUME Tidy(tree), NEW T, NEW d, NEW ts, NEW p, NEW sy, NEW ta, SInv(T, d, ts, p, sy, ta),
         GoodTables(ts), NEW s, s \in Keyed(d), s \in Functions,
         NEW q, q \in DOMAIN ts, q # <<>>, T[s][1] = q[1]
  PROVE  \E f \in Decl(sy) : sy[f] = ts[<<q[1]>>].tablefor /\ Region[Parent(f)] = s
<1>1. Header(s) \in Declarators /\ Region[Header(s)] = s
      BY FunctionFacts
<1>2. Parent(Left(Header(s))) = Header(s)
      BY <1>1, NameFacts
<1>3. T[s] \in DOMAIN ts /\ Len(T[s]) = 1
      BY DEF SInv, Shape, Mapped
<1>4. T[s] = <<q[1]>>
      <2>1. PICK r, n : r = T[s] /\ n = q[1]
            OBVIOUS
      <2>2. r \in Seq(Numbers) /\ Len(r) = 1 /\ r[1] = n
            BY <1>3, <2>1, TablePath
      <2>3. r = <<n>>
            BY <2>2
      <2>4. QED
            BY <2>1, <2>3
<1>5. Left(Header(s)) \in Decl(sy) /\ ts[T[s]].tablefor = sy[Left(Header(s))]
      BY DEF SInv, Entered, Owners
<1>6. QED
      BY <1>1, <1>2, <1>4, <1>5

(* A function's tables have what is declared in it.                        *)
LEMMA ContentsHold ==
  ASSUME Tidy(tree), SymInv
  PROVE  OwnContents
<1> SUFFICES ASSUME Accepted, NEW p \in DOMAIN tables \ {<<>>}, NEW k \in DOMAIN tables[p].symbols
             PROVE  \E f \in Declared :
                      /\ symbol[f] = tables[<<p[1]>>].tablefor
                      /\ IsWithin(tables[p].symbols[k].node, Region[Parent(f)])
    BY DEF OwnContents
<1>1. PICK T : SInv(T, Visits, tables, currenttable, symbol, typearray)
      BY WalkEnded
<1>2. /\ GoodTables(tables) /\ Declared = Decl(symbol) /\ Keyed(Visits) = {<<>>} \cup Keys
      BY WalkEnded, SameTerms
<1>3. PICK id, e : id = <<p, k>> /\ e = NodeOf(tables, id)
      OBVIOUS
<1>4. tables[p].symbols[k].node = e
      BY <1>3 DEF NodeOf, SymbolAt
<1>5. Valid(tables, id)
      <2>1. IsTable(tables[p])
            BY <1>2 DEF GoodTables
      <2>2. k \in 1..Len(tables[p].symbols)
            <3>1. PICK S : tables[p].symbols \in Seq(S)
                  BY <2>1 DEF IsTable, GoodSymbols, IsSequence
            <3>2. QED
                  BY <3>1
      <2>3. QED
            BY <1>3, <2>2 DEF Valid
<1>6. /\ e \in Decl(symbol) /\ e \in Identifiers
      /\ ScopeOf(e) \in Keyed(Visits) /\ T[ScopeOf(e)] = p
      BY <1>1, <1>3, <1>5, SymbolNode
<1>7. PICK s : s = ScopeOf(e)
      OBVIOUS
<1>8. T[<<>>] = <<>>
      BY <1>1 DEF SInv, Shape, Mapped
<1>9. s # <<>> /\ Inside(e, s)
      BY <1>6, <1>7, <1>8, ScopeFacts
<1>10. s \in Keys /\ IsWithin(e, s) /\ T[s] = p
       BY <1>6, <1>7, <1>9, InsideWithin
<1>11. CASE s \in Functions
       BY <1>1, <1>2, <1>4, <1>10, <1>11, TableOwner
<1>12. CASE s \in Blocks
       <2>1. PICK D \in Definitions : IsWithin(s, Right(D))
             BY <1>12, BlockFacts
       <2>2. D \in Functions /\ D \in Keys /\ D \in Seq(Steps) /\ s \in Seq(Steps) /\ e \in Seq(Steps)
             BY <1>6, <1>10, <2>1, DefinitionFacts, FunctionFacts, KeyFacts, IdentifierFacts
       <2>3. T[s][1] = T[D][1]
             BY <1>1, <1>2, <1>10, <1>12, <2>1, <2>2 DEF SInv, Shape, Mapped
       <2>4. \E f \in Decl(symbol) : symbol[f] = tables[<<p[1]>>].tablefor /\ Region[Parent(f)] = D
             BY <1>1, <1>2, <1>10, <2>2, <2>3, TableOwner
       <2>5. IsWithin(e, D)
             <3>1. Right(D) \in Seq(Steps) /\ AtOrBelow(Right(D), D)
                   <4>1. Right(D) \in Seq(Steps)
                         BY <2>2, BelowChildren
                   <4>2. AtOrBelow(Right(D), Right(D))
                         BY <4>1, BelowOrder
                   <4>3. IsWithin(Right(D), D)
                         BY <2>2, <4>1, <4>2, BelowChildren
                   <4>4. QED
                         BY <2>2, <4>1, <4>3, BelowOrder
             <3>2. AtOrBelow(s, Right(D)) /\ AtOrBelow(e, s) /\ e # s
                   BY <1>10, <2>1, <2>2, <3>1, BelowOrder
             <3>3. AtOrBelow(s, D)
                   BY <2>2, <3>1, <3>2, BelowOrder
             <3>4. AtOrBelow(e, D)
                   BY <2>2, <3>2, <3>3, BelowOrder
             <3>5. e # D
                   BY <2>2, <3>2, <3>3, BelowOrder
             <3>6. QED
                   BY <2>2, <3>4, <3>5, BelowOrder
       <2>6. QED
             BY <1>2, <1>4, <2>4, <2>5
<1>13. QED
       BY <1>10, <1>11, <1>12 DEF Keys

(***************************************************************************)
(* In a tidy program that is accepted, whatever is declared in it and      *)
(* however its blocks are nested, find_symbol ties each use to the symbol  *)
(* of the innermost declaration of its name that stands before it in a     *)
(* scope around it, and insert_symbol gives declarations of different      *)
(* scopes different symbols, unless they declare one parameter twice.      *)
(***************************************************************************)
THEOREM AlwaysLexicalScope == Spec => [](Tidy(tree) => LexicalScope)
<1>1. SymInv => (Tidy(tree) => LexicalScope)
      BY ScopeHolds
<1>2. QED
      BY <1>1, AlwaysInOrder, PTL

(***************************************************************************)
(* In such a program the table of a function, and those of the blocks in   *)
(* it, have symbols only for what is declared in a definition or           *)
(* prototype of that function (node.c:255): each table is left where it    *)
(* should be.                                                              *)
(***************************************************************************)
THEOREM AlwaysOwnContents == Spec => [](Tidy(tree) => OwnContents)
<1>1. SymInv => (Tidy(tree) => OwnContents)
      BY ContentsHold
<1>2. QED
      BY <1>1, AlwaysInOrder, PTL
-----------------------------------------------------------------------------
(* The parameters of a declarator: the ways from it to them.               *)
Params(h) == {q \in Seq(Steps) : h \o q \in Identifiers /\ IsParameter(h \o q)}

(* The place of a parameter among those of its declarator.                 *)
Rank(q, R) == 1 + Cardinality({c \in R : Before(c, q)})

(* The order of paths that begin alike is that of the rest.                *)
LEMMA JoinedBefore ==
  ASSUME NEW k \in Seq(Steps), NEW r \in Seq(Steps), NEW q \in Seq(Steps)
  PROVE  Before(k \o r, k \o q) <=> Before(r, q)
<1>1. PICK a, b, c : a = Len(k) /\ b = Len(r) /\ c = Len(q)
      OBVIOUS
<1>2. a \in Nat /\ b \in Nat /\ c \in Nat
      BY <1>1, LenProperties
<1>3. PICK m, n : m = k \o r /\ n = k \o q
      OBVIOUS
<1>4. /\ m \in Seq(Steps) /\ Len(m) = a + b
      /\ n \in Seq(Steps) /\ Len(n) = a + c
      BY <1>1, <1>3, ConcatProperties
<1>5. /\ \A i \in 1..(a + b) : m[i] = IF i <= a THEN k[i] ELSE r[i - a]
      /\ \A i \in 1..(a + c) : n[i] = IF i <= a THEN k[i] ELSE q[i - a]
      BY <1>1, <1>3, ConcatProperties
<1>6. ASSUME NEW i \in 1..b PROVE m[a + i] = r[i]
      <2>1. a + i \in 1..(a + b) /\ ~(a + i <= a) /\ (a + i) - a = i
            BY <1>2
      <2>2. QED
            BY <1>5, <2>1
<1>7. ASSUME NEW i \in 1..c PROVE n[a + i] = q[i]
      <2>1. a + i \in 1..(a + c) /\ ~(a + i <= a) /\ (a + i) - a = i
            BY <1>2
      <2>2. QED
            BY <1>5, <2>1
<1>8. ASSUME Before(m, n) PROVE Before(r, q)
      <2>1. \E j \in 1..Len(m) : /\ j <= Len(n) /\ m[j] = "L" /\ n[j] = "R"
                                 /\ \A i \in 1..(j - 1) : m[i] = n[i]
            BY <1>4, <1>8, BeforeAt
      <2>2. PICK j \in 1..(a + b) : /\ j <= a + c /\ m[j] = "L" /\ n[j] = "R"
                                    /\ \A i \in 1..(j - 1) : m[i] = n[i]
            BY <1>4, <2>1
      <2>3. j \in 1..(a + c)
            BY <1>2, <2>2
      <2>4. ~(j <= a)
            BY <1>5, <2>2, <2>3
      <2>5. PICK l : l = j - a
            OBVIOUS
      <2>6. l \in 1..b /\ l \in 1..c /\ a + l = j /\ l <= c
            BY <1>2, <2>3, <2>4, <2>5
      <2>7. r[l] = "L" /\ q[l] = "R"
            BY <1>6, <1>7, <2>2, <2>6
      <2>8. ASSUME NEW i \in 1..(l - 1) PROVE r[i] = q[i]
            <3>1. i \in 1..b /\ i \in 1..c /\ a + i \in 1..(j - 1)
                  BY <1>2, <2>6
            <3>2. m[a + i] = n[a + i]
                  BY <2>2, <3>1
            <3>3. QED
                  BY <1>6, <1>7, <3>1, <3>2
      <2>9. \A i \in 1..(l - 1) : r[i] = q[i]
            BY <2>8
      <2>10. \E i \in 1..Len(r) : /\ i <= Len(q) /\ r[i] = "L" /\ q[i] = "R"
                                 /\ \A o \in 1..(i - 1) : r[o] = q[o]
            BY <1>1, <2>6, <2>7, <2>9
      <2>11. QED
             BY <2>10, BeforeAt
<1>9. ASSUME Before(r, q) PROVE Before(m, n)
      <2>1. \E l \in 1..Len(r) : /\ l <= Len(q) /\ r[l] = "L" /\ q[l] = "R"
                                 /\ \A i \in 1..(l - 1) : r[i] = q[i]
            BY <1>9, BeforeAt
      <2>2. PICK l \in 1..b : /\ l <= c /\ r[l] = "L" /\ q[l] = "R"
                              /\ \A i \in 1..(l - 1) : r[i] = q[i]
            BY <1>1, <2>1
      <2>3. l \in 1..c
            BY <1>2, <2>2
      <2>4. PICK j : j = a + l
            OBVIOUS
      <2>5. j \in 1..(a + b) /\ j <= a + c
            BY <1>2, <2>2, <2>3, <2>4
      <2>6. m[j] = "L" /\ n[j] = "R"
            BY <1>6, <1>7, <2>2, <2>3, <2>4
      <2>7. ASSUME NEW i \in 1..(j - 1) PROVE m[i] = n[i]
            <3>1. CASE i <= a
                  <4>1. i \in 1..(a + b) /\ i \in 1..(a + c)
                        BY <1>2, <2>4, <2>5
                  <4>2. QED
                        BY <1>5, <3>1, <4>1
            <3>2. CASE ~(i <= a)
                  <4>1. PICK o : o = i - a
                        OBVIOUS
                  <4>2. o \in 1..(l - 1) /\ o \in 1..b /\ o \in 1..c /\ a + o = i
                        BY <1>2, <2>3, <2>4, <3>2, <4>1
                  <4>3. r[o] = q[o]
                        BY <2>2, <4>2
                  <4>4. QED
                        BY <1>6, <1>7, <4>2, <4>3
            <3>3. QED
                  BY <3>1, <3>2
      <2>8. \A i \in 1..(j - 1) : m[i] = n[i]
            BY <2>7
      <2>9. \E i \in 1..Len(m) : /\ i <= Len(n) /\ m[i] = "L" /\ n[i] = "R"
                                 /\ \A o \in 1..(i - 1) : m[o] = n[o]
            BY <1>4, <2>5, <2>6, <2>8
      <2>10. QED
            BY <1>4, <2>9, BeforeAt
<1>10. QED
       BY <1>3, <1>8, <1>9

(* A parameter is right of its declarator, and below no other.             *)
LEMMA ParamFacts ==
  ASSUME Tidy(tree), NEW h \in Declarators, NEW q \in Params(h), NEW x, x = h \o q
  PROVE  /\ q \in Seq(Steps) /\ x \in Identifiers /\ x \in Seq(Steps) /\ IsParameter(x) /\ IsDeclared(x)
         /\ x \notin Names /\ AtOrBelow(x, Right(h)) /\ ScopeOf(x) = Region[h] /\ IsWithin(x, h)
         /\ Past(Middle(h), Middle(x)) /\ Past(Middle(x), Leave(h)) /\ Middle(x) \in Visits
         /\ \A g \in Declarators : AtOrBelow(x, g) => g = h
<1>1. q \in Seq(Steps) /\ x \in Identifiers /\ IsParameter(x) /\ h \in Seq(Steps)
      BY DeclaratorFacts DEF Params
<1>2. x \in Seq(Steps) /\ AtOrBelow(x, h)
      BY <1>1, Joined
<1>3. ASSUME NEW g \in Declarators, AtOrBelow(x, g) PROVE g = h
      <2>1. g \in Seq(Steps)
            BY DeclaratorFacts
      <2>2. AtOrBelow(g, h) \/ AtOrBelow(h, g)
            BY <1>1, <1>2, <1>3, <2>1, AboveOne
      <2>3. QED
            BY <2>2, DeclaratorFacts
<1>4. PICK g \in Declarators : /\ AtOrBelow(x, Right(g)) /\ IsDeclared(x) /\ x \notin Names
                               /\ ScopeOf(x) = Region[g]
      BY <1>1, ParameterFacts
<1>5. g \in Seq(Steps)
      BY DeclaratorFacts
<1>6. IsWithin(x, g)
      BY <1>2, <1>4, <1>5, BelowChildren
<1>7. g = h
      BY <1>2, <1>3, <1>5, <1>6, BelowOrder
<1>8. Middle(x) \in Visits /\ OnPath(Middle(x)) /\ Middle(x).n = x
      BY <1>1, IdentifierFacts
<1>9. Past(Middle(h), Middle(x)) /\ Past(Middle(x), Leave(h))
      BY <1>1, <1>4, <1>7, <1>8, PastAtNode
<1>10. QED
       BY <1>1, <1>2, <1>3, <1>4, <1>6, <1>7, <1>8, <1>9

(* Each parameter is one of a declarator.                                  *)
LEMMA ParamOf ==
  ASSUME Tidy(tree), NEW x \in Identifiers, IsParameter(x)
  PROVE  \E h \in Declarators : \E q \in Params(h) : x = h \o q
<1>1. PICK h \in Declarators : AtOrBelow(x, Right(h))
      BY ParameterFacts
<1>2. h \in Seq(Steps) /\ x \in Seq(Steps)
      BY DeclaratorFacts, IdentifierFacts
<1>3. AtOrBelow(x, h)
      BY <1>1, <1>2, BelowChildren, BelowOrder
<1>4. PICK q \in Seq(Steps) : x = h \o q
      BY <1>2, <1>3, Rest
<1>5. QED
      BY <1>4 DEF Params

(* Declarators that are the same have the same parameters.                 *)
LEMMA ParamsSame ==
  ASSUME Tidy(tree), NEW g \in Declarators, NEW h \in Declarators, At[g] = At[h]
  PROVE  /\ Params(g) = Params(h)
         /\ \A q \in Params(h) : At[g \o q] = At[h \o q]
<1>1. ASSUME NEW a \in Declarators, NEW b \in Declarators, At[a] = At[b], NEW q \in Params(b)
      PROVE  q \in Params(a) /\ At[a \o q] = At[b \o q]
      <2>1. PICK e : e = b \o q
            OBVIOUS
      <2>2. e \in Identifiers /\ IsParameter(e) /\ q \in Seq(Steps) /\ b \in Seq(Steps)
            BY <2>1, DeclaratorFacts DEF Params
      <2>3. AtOrBelow(e, b)
            BY <2>1, <2>2, Joined
      <2>4. \E x \in Identifiers : /\ At[x] = At[e] /\ IsParameter(x) /\ AtOrBelow(x, a)
                                   /\ ScopeOf(x) = Region[a]
                                   /\ IsTwin(b, e, a, x)
            BY <1>1, <2>2, <2>3, ParameterMirrored
      <2>5. PICK x \in Identifiers : /\ At[x] = At[e] /\ IsParameter(x)
                                      /\ IsTwin(b, e, a, x)
            BY <2>4
      <2>6. PICK r \in Seq(Steps) : e = b \o r /\ x = a \o r
            BY <2>5 DEF IsTwin
      <2>7. b \o r = b \o q <=> r = q
            BY <2>2, <2>6, Joined
      <2>8. r = q
            BY <2>1, <2>6, <2>7
      <2>9. QED
            BY <2>1, <2>2, <2>5, <2>6, <2>8 DEF Params
<1>2. \A q \in Params(h) : q \in Params(g) /\ At[g \o q] = At[h \o q]
      BY <1>1
<1>3. \A q \in Params(g) : q \in Params(h)
      BY <1>1
<1>4. QED
      BY <1>2, <1>3

(* As many of the parameters of a declarator come before one of them as of *)
(* the ways to them.                                                       *)
LEMMA JoinedCount ==
  ASSUME NEW h \in Seq(Steps), NEW A \in SUBSET Seq(Steps), IsFiniteSet(A),
         NEW B, B = {h \o q : q \in A}
  PROVE  IsFiniteSet(B) /\ Cardinality(B) = Cardinality(A)
<1>1. PICK f : f = [q \in A |-> h \o q]
      OBVIOUS
<1>2. f \in [A -> B] /\ \A a, b \in A : f[a] = f[b] => a = b
      BY <1>1, Joined
<1>3. \A y \in B : \E a \in A : f[a] = y
      BY <1>1
<1>4. f \in Bijection(A, B)
      BY <1>2, <1>3 DEF Bijection, Injection, Surjection, IsInjective
<1>5. ExistsBijection(A, B)
      BY <1>4 DEF ExistsBijection
<1>6. QED
      BY <1>5, FS_Bijection
-----------------------------------------------------------------------------
(* How the parameters are counted.                                         *)

(* The parameters of the declarator g that the walk has passed.            *)
Reached(g, d) == {q \in Params(g) : Middle(g \o q) \in d}

(* g is the declarator that made the symbol of its function.               *)
IsFirst(g, ts, sy) == Left(g) \in DOMAIN sy /\ NodeOf(ts, sy[Left(g)]) = Left(g)

(* The symbol s of its function counts them, until the end of g.           *)
Sized(g, d, s) ==
  /\ IsFiniteSet(Reached(g, d)) /\ s.size = Cardinality(Reached(g, d))
  /\ Leave(g) \notin d => s.params = Cardinality(Reached(g, d)) /\ ~s.funcinfo.params_inserted
  /\ Leave(g) \in d    => s.funcinfo.params_inserted

(* Each has its place in the table of the function, which holds no other   *)
(* symbols before the end of g.                                            *)
Ranked(g, d, sy) == \A q \in Reached(g, d) : sy[g \o q][2] = Rank(q, Params(g))
Fits(g, d, ts, id) ==
  Leave(g) \notin d /\ Middle(g) \in d =>
    \A k \in 1..ts[<<>>].children :
      ts[<<k>>].tablefor = id => Len(ts[<<k>>].symbols) = Cardinality(Reached(g, d))

CountsFor(g, d, ts, sy) ==
  /\ Sized(g, d, SymbolAt(ts, sy[Left(g)])) /\ Ranked(g, d, sy) /\ Fits(g, d, ts, sy[Left(g)])

(* A function has one table, which was made at the declarator that made    *)
(* its symbol.                                                             *)
OneTable(ts) ==
  \A j, k \in 1..ts[<<>>].children : ts[<<j>>].tablefor = ts[<<k>>].tablefor => j = k
UsedTables(d, ts) ==
  \A k \in 1..ts[<<>>].children :
    \E h \in Declarators : Middle(h) \in d /\ NodeOf(ts, ts[<<k>>].tablefor) = Left(h)
AllCounted(d, ts, sy) ==
  \A g \in Declarators : IsFirst(g, ts, sy) => CountsFor(g, d, ts, sy)
PInv(d, ts, sy) == OneTable(ts) /\ UsedTables(d, ts) /\ AllCounted(d, ts, sy)

(* An identifier between the name of a declarator and its end is right of  *)
(* it.                                                                     *)
LEMMA BetweenRight ==
  ASSUME Tidy(tree), NEW x \in Identifiers, NEW d, IsTime(d, Middle(x)), NEW g \in Declarators
  PROVE  Middle(g) \in d /\ Leave(g) \notin d <=> AtOrBelow(x, Right(g))
<1>1. /\ g \in Seq(Steps) /\ x \in Seq(Steps) /\ IsNode(g) /\ At[g].type = "LIST"
      /\ At[x].type = "IDENTIFIER" /\ OnPath(Middle(x)) /\ Middle(x).n = x
      /\ \A n \in NodePaths : AtOrBelow(n, x) => n = x
      BY DeclaratorFacts, IdentifierFacts
<1>2. PICK v, m, l : v = Middle(x) /\ m = Middle(g) /\ l = Leave(g)
      OBVIOUS
<1>3. /\ OnPath(v) /\ OnPath(m) /\ OnPath(l) /\ v.n = x /\ m.n = g /\ l.n = g
      /\ m \in Visits /\ l \in Visits
      BY <1>1, <1>2, CodeAfter, NodeVisits
<1>4. /\ m \in d <=> Past(m, v)
      /\ l \in d <=> Past(l, v)
      BY <1>2, <1>3 DEF IsTime
<1>5. ASSUME AtOrBelow(x, Right(g)) PROVE m \in d /\ l \notin d
      <2>1. Past(m, v) /\ Past(v, l)
            BY <1>1, <1>2, <1>3, <1>5, PastAtNode
      <2>2. ~Past(l, v)
            BY <1>3, <2>1, PastAsymmetric
      <2>3. QED
            BY <1>4, <2>1, <2>2
<1>6. ASSUME m \in d, l \notin d PROVE AtOrBelow(x, Right(g))
      <2>1. Past(m, v) /\ ~Past(l, v)
            BY <1>4, <1>6
      <2>2. ~Past(v, m)
            BY <1>3, <2>1, PastAsymmetric
      <2>3. AtOrBelow(g, g)
            BY <1>1, BelowOrder
      <2>4. AtOrBelow(x, x)
            BY <1>1, BelowOrder
      <2>5. ~Before(x, g)
            BY <1>1, <1>3, <2>2, <2>3, <2>4, PastBefore
      <2>6. ~Before(g, x)
            BY <1>1, <1>3, <2>1, <2>3, <2>4, PastBefore
      <2>7. ~AtOrBelow(g, x)
            <3>1. g \in NodePaths /\ g # x
                  BY <1>1 DEF Declarators
            <3>2. QED
                  BY <1>1, <3>1
      <2>8. AtOrBelow(x, g) /\ x # g
            BY <1>1, <2>5, <2>6, <2>7, <2>4, Apart
      <2>9. IsWithin(x, g)
            BY <1>1, <2>8, BelowOrder
      <2>10. AtOrBelow(x, Left(g)) \/ AtOrBelow(x, Right(g))
             <3>1. x[Len(g) + 1] \in Steps
                   BY <1>1, <2>9, BelowChildren
             <3>2. x[Len(g) + 1] = "L" \/ x[Len(g) + 1] = "R"
                   BY <3>1 DEF Steps
             <3>3. QED
                   BY <1>1, <2>9, <3>2, BelowChildren
      <2>11. ~AtOrBelow(x, Left(g))
             BY <1>1, <1>2, <1>3, <2>2, PastAtNode
      <2>12. QED
             BY <2>10, <2>11
<1>7. QED
      BY <1>2, <1>5, <1>6

(* An identifier right of a declarator is a parameter of it.               *)
LEMMA RightParameter ==
  ASSUME Tidy(tree), NEW x \in Identifiers, NEW g \in Declarators, AtOrBelow(x, Right(g))
  PROVE  IsParameter(x) /\ \E q \in Params(g) : x = g \o q
<1>1. /\ g \in Seq(Steps) /\ x \in Seq(Steps) /\ IsNode(g) /\ At[g].subtype = "FUNCTION_DECL"
      /\ IsNode(x) /\ At[x].type = "IDENTIFIER" /\ \A f \in Declarators : AtOrBelow(f, g) => f = g
      BY DeclaratorFacts, IdentifierFacts
<1>2. IsWithin(x, g) /\ x[Len(g) + 1] = "R"
      BY <1>1, BelowChildren
<1>3. AtOrBelow(x, g)
      BY <1>1, <1>2, BelowOrder
<1>4. Below(x, "FUNCTION_DECL")
      BY <1>1, <1>2, BelowNode
<1>5. CASE x = Left(Parent(x)) /\ At[Parent(x)].subtype = "FUNCTION_DECL"
      <2>1. PICK f : f = Parent(x)
            OBVIOUS
      <2>2. f \in Seq(Steps) /\ IsWithin(x, f) /\ AtOrBelow(f, g)
            BY <1>1, <1>2, <2>1, WithinParent
      <2>3. IsNode(f)
            BY <1>1, <2>2, NodeAbove DEF IsNode
      <2>4. f \in Declarators
            BY <1>5, <2>1, <2>2, <2>3 DEF Declarators, NodePaths
      <2>5. f = g
            BY <1>1, <2>2, <2>4
      <2>6. x = Left(g)
            BY <1>5, <2>1, <2>5
      <2>7. x[Len(g) + 1] = "L"
            BY <1>1, <2>6, BelowChildren
      <2>8. QED
            BY <1>2, <2>7
<1>6. IsParameter(x)
      BY <1>1, <1>4, <1>5, TidyNode
<1>7. PICK q \in Seq(Steps) : x = g \o q
      BY <1>1, <1>3, Rest
<1>8. QED
      BY <1>6, <1>7 DEF Params

(* Of another declarator whose name is passed the end is.                  *)
LEMMA OtherDone ==
  ASSUME Tidy(tree), NEW g \in Declarators, NEW v, NEW d, IsTime(d, v), AtOrBelow(v.n, g),
         NEW h \in Declarators, h # g, Middle(Left(h)) \in d
  PROVE  Leave(h) \in d /\ Middle(h) \in d /\ Before(h, g)
<1>1. /\ g \in Seq(Steps) /\ h \in Seq(Steps) /\ IsNode(h) /\ Left(h) \in Seq(Steps)
      /\ \A f \in Declarators : AtOrBelow(f, g) => f = g
      /\ \A f \in Declarators : AtOrBelow(f, h) => f = h
      BY DeclaratorFacts
<1>2. PICK n, m, l : n = Middle(Left(h)) /\ m = Middle(h) /\ l = Leave(h)
      OBVIOUS
<1>3. /\ OnPath(n) /\ OnPath(m) /\ OnPath(l) /\ n.n = Left(h) /\ m.n = h /\ l.n = h
      /\ m \in Visits /\ l \in Visits /\ OnPath(v)
      BY <1>1, <1>2, CodeAfter, NodeVisits DEF IsTime
<1>4. Past(n, v) /\ (Past(m, v) => m \in d) /\ (Past(l, v) => l \in d)
      BY <1>2, <1>3 DEF IsTime
<1>5. AtOrBelow(h, h) /\ AtOrBelow(Left(h), h)
      BY <1>1, BelowChildren, BelowOrder
<1>6. ~Before(g, h)
      <2>1. ~Past(v, n)
            BY <1>3, <1>4, PastAsymmetric
      <2>2. QED
            BY <1>1, <1>3, <1>5, <2>1, PastBefore
<1>7. Before(h, g)
      BY <1>1, <1>6, Apart
<1>8. Past(l, v) /\ Past(m, v)
      BY <1>1, <1>3, <1>5, <1>7, PastBefore
<1>9. QED
      BY <1>2, <1>4, <1>7, <1>8

(* Identifiers are passed in their order.                                  *)
LEMMA PassedInOrder ==
  ASSUME Tidy(tree), NEW x \in Identifiers, NEW y \in Identifiers
  PROVE  Past(Middle(x), Middle(y)) <=> Before(x, y)
<1>1. /\ x \in Seq(Steps) /\ y \in Seq(Steps) /\ x \in NodePaths /\ y \in NodePaths
      /\ OnPath(Middle(x)) /\ Middle(x).n = x /\ OnPath(Middle(y)) /\ Middle(y).n = y
      /\ \A n \in NodePaths : AtOrBelow(n, x) => n = x
      /\ \A n \in NodePaths : AtOrBelow(n, y) => n = y
      BY IdentifierFacts DEF Identifiers
<1>2. AtOrBelow(x, x) /\ AtOrBelow(y, y)
      BY <1>1, BelowOrder
<1>3. Before(x, y) => Past(Middle(x), Middle(y))
      BY <1>1, <1>2, PastBefore
<1>4. Before(y, x) => Past(Middle(y), Middle(x))
      BY <1>1, <1>2, PastBefore
<1>5. ASSUME Past(Middle(x), Middle(y)) PROVE Before(x, y)
      <2>1. ~Past(Middle(y), Middle(x)) /\ Middle(x) # Middle(y)
            BY <1>1, <1>5, PastAsymmetric
      <2>2. x # y
            BY <2>1
      <2>3. QED
            BY <1>1, <1>4, <2>1, <2>2, Apart
<1>6. QED
      BY <1>3, <1>5
-----------------------------------------------------------------------------
(* What changes no count.                                                  *)

(* Nothing that is counted changes in the symbols and tables that are      *)
(* there.                                                                  *)
SameCount(s, r) ==
  /\ r.size = s.size /\ r.params = s.params /\ r.node = s.node
  /\ r.funcinfo.params_inserted = s.funcinfo.params_inserted
SameCounts(ts, us) == \A id : Valid(ts, id) => SameCount(SymbolAt(ts, id), SymbolAt(us, id))
SameNodes(ts, us)  == \A id : Valid(ts, id) => NodeOf(us, id) = NodeOf(ts, id)
SameHeads(ts, us) ==
  /\ us[<<>>].children = ts[<<>>].children
  /\ \A k \in 1..ts[<<>>].children : us[<<k>>].tablefor = ts[<<k>>].tablefor
SameLengths(ts, us) ==
  \A k \in 1..ts[<<>>].children : Len(us[<<k>>].symbols) = Len(ts[<<k>>].symbols)

(* The counts of a declarator at which nothing happens are right still.    *)
LEMMA CountsStay ==
  ASSUME NEW g, NEW d, NEW e, Reached(g, e) = Reached(g, d), Leave(g) \in e <=> Leave(g) \in d,
         NEW ts, NEW sy, CountsFor(g, d, ts, sy), NEW us, NEW sz, NEW id, sy[Left(g)] = id,
         sz[Left(g)] = id, SameCount(SymbolAt(ts, id), SymbolAt(us, id)),
         \A q \in Reached(g, d) : sz[g \o q] = sy[g \o q], Fits(g, e, us, id)
  PROVE  CountsFor(g, e, us, sz)
<1>1. PICK s, r : s = SymbolAt(ts, id) /\ r = SymbolAt(us, id)
      OBVIOUS
<1>2. Sized(g, d, s) /\ Ranked(g, d, sy) /\ SameCount(s, r)
      BY <1>1 DEF CountsFor
<1>3. Sized(g, e, r)
      BY <1>2 DEF Sized, SameCount
<1>4. Ranked(g, e, sz)
      BY <1>2 DEF Ranked
<1>5. QED
      BY <1>1, <1>3, <1>4 DEF CountsFor

(* So are the functions' tables.                                           *)
LEMMA HeadsStay ==
  ASSUME NEW ts, NEW us, SameHeads(ts, us), SameNodes(ts, us), Heads(ts),
         NEW d, NEW e, d \subseteq e, OneTable(ts), UsedTables(d, ts)
  PROVE  OneTable(us) /\ UsedTables(e, us)
<1>1. OneTable(us)
      BY DEF SameHeads, OneTable
<1>2. ASSUME NEW k \in 1..us[<<>>].children
      PROVE  \E h \in Declarators : Middle(h) \in e /\ NodeOf(us, us[<<k>>].tablefor) = Left(h)
      <2>1. PICK id : id = ts[<<k>>].tablefor
            OBVIOUS
      <2>2. k \in 1..ts[<<>>].children /\ us[<<k>>].tablefor = id
            BY <1>2, <2>1 DEF SameHeads
      <2>3. Valid(ts, id)
            BY <2>1, <2>2 DEF Heads, IsHead
      <2>4. NodeOf(us, id) = NodeOf(ts, id)
            BY <2>3 DEF SameNodes
      <2>5. PICK h \in Declarators : Middle(h) \in d /\ NodeOf(ts, id) = Left(h)
            BY <2>1, <2>2 DEF UsedTables
      <2>6. QED
            BY <2>2, <2>4, <2>5
<1>3. QED
      BY <1>1, <1>2 DEF UsedTables

(* Symbols that are counted the same have the same nodes.                  *)
LEMMA CountsNodes ==
  ASSUME NEW ts, NEW us, SameCounts(ts, us)
  PROVE  SameNodes(ts, us)
BY DEF SameCounts, SameCount, SameNodes, NodeOf

(* An item that is no declared identifier, and not the middle or the end   *)
(* of a declarator.                                                        *)
Quiet(h) ==
  /\ \A g \in Declarators : h # Middle(g) /\ h # Leave(g)
  /\ \A x \in Identifiers : IsDeclared(x) => h # Middle(x)
SameTies(sy, sz) ==
  \A x \in Identifiers : IsDeclared(x) => /\ x \in DOMAIN sz <=> x \in DOMAIN sy
                                          /\ x \in DOMAIN sy => sz[x] = sy[x]

(* Nothing is counted there.                                               *)
LEMMA NothingCounted ==
  ASSUME Tidy(tree), NEW d, NEW h, Quiet(h), NEW e, e = d \cup ({h} \cap Visits),
         NEW T, NEW ts, NEW p, NEW sy, NEW ta, SInv(T, d, ts, p, sy, ta), PInv(d, ts, sy),
         NEW us, SameHeads(ts, us), SameCounts(ts, us), SameLengths(ts, us),
         NEW sz, SameTies(sy, sz)
  PROVE  PInv(e, us, sz)
<1>1. /\ Heads(ts) /\ Scoped(T, d, ts, sy) /\ IdsDone(d, sy) /\ OneTable(ts) /\ UsedTables(d, ts)
      /\ AllCounted(d, ts, sy) /\ d \subseteq e
      BY DEF SInv, Entered, PInv
<1>2. OneTable(us) /\ UsedTables(e, us)
      BY <1>1, CountsNodes, HeadsStay
<1>3. ASSUME NEW g \in Declarators, IsFirst(g, us, sz)
      PROVE  CountsFor(g, e, us, sz)
      <2>1. PICK x : x = Left(g) /\ x \in Identifiers /\ IsDeclared(x)
            BY NameFacts
      <2>2. x \in DOMAIN sy /\ sz[x] = sy[x] /\ x \in Decl(sy)
            BY <1>3, <2>1 DEF IsFirst, SameTies, Decl
      <2>3. PICK id : id = sy[x]
            OBVIOUS
      <2>4. Valid(ts, id)
            BY <1>1, <2>2, <2>3 DEF Scoped
      <2>5. SameCount(SymbolAt(ts, id), SymbolAt(us, id))
            BY <2>4 DEF SameCounts
      <2>6. NodeOf(ts, id) = x
            BY <1>3, <2>1, <2>2, <2>3, <2>5 DEF IsFirst, NodeOf, SameCount
      <2>7. CountsFor(g, d, ts, sy)
            BY <1>1, <2>1, <2>2, <2>3, <2>6 DEF AllCounted, IsFirst
      <2>8. ASSUME NEW q \in Params(g) 
            PROVE  /\ Middle(g \o q) \in e <=> Middle(g \o q) \in d
                   /\ Middle(g \o q) \in d => sz[g \o q] = sy[g \o q]
            <3>1. PICK y : y = g \o q
                  OBVIOUS
            <3>2. y \in Identifiers /\ IsDeclared(y)
                  BY <3>1, ParamFacts
            <3>3. h # Middle(y)
                  BY <3>2 DEF Quiet
            <3>4. Middle(y) \in d => y \in DOMAIN sy
                  BY <1>1, <3>2 DEF IdsDone
            <3>5. QED
                  BY <3>1, <3>2, <3>3, <3>4 DEF SameTies
      <2>9. Reached(g, e) = Reached(g, d) /\ \A q \in Reached(g, d) : sz[g \o q] = sy[g \o q]
            BY <2>8 DEF Reached
      <2>10. (Leave(g) \in e <=> Leave(g) \in d) /\ (Middle(g) \in e <=> Middle(g) \in d)
             BY DEF Quiet
      <2>11. Fits(g, d, ts, id)
             BY <2>1, <2>3, <2>7 DEF CountsFor
      <2>12. Fits(g, e, us, id)
             <3>1. SUFFICES ASSUME Leave(g) \notin e, Middle(g) \in e,
                                   NEW k \in 1..us[<<>>].children, us[<<k>>].tablefor = id
                            PROVE  Len(us[<<k>>].symbols) = Cardinality(Reached(g, e))
                   BY DEF Fits
             <3>2. /\ k \in 1..ts[<<>>].children /\ ts[<<k>>].tablefor = id
                   /\ Len(us[<<k>>].symbols) = Len(ts[<<k>>].symbols)
                   BY <3>1 DEF SameHeads, SameLengths
             <3>3. Len(ts[<<k>>].symbols) = Cardinality(Reached(g, d))
                   BY <2>10, <2>11, <3>1, <3>2 DEF Fits
             <3>4. QED
                   BY <2>9, <3>2, <3>3
      <2>13. sy[Left(g)] = id /\ sz[Left(g)] = id
             BY <2>1, <2>2, <2>3
      <2>14. QED
             BY <2>5, <2>7, <2>9, <2>10, <2>12, <2>13, CountsStay
<1>4. AllCounted(e, us, sz)
      BY <1>3 DEF AllCounted
<1>5. QED
      BY <1>2, <1>4 DEF PInv
-----------------------------------------------------------------------------
(* What is counted at a declared identifier.                               *)

Uncounted(s) == s.size = 0 /\ s.params = 0 /\ ~s.funcinfo.params_inserted

(* The parameters of a declarator come after its name.                     *)
LEMMA NoneReached ==
  ASSUME Tidy(tree), NEW g \in Declarators, NEW x, x = Left(g), NEW d, NEW e, IsTie(x, d, e)
  PROVE  Reached(g, e) = {} /\ Middle(g) \notin e /\ Leave(g) \notin e
<1>1. /\ g \in Seq(Steps) /\ x \in Seq(Steps) /\ x \in Identifiers /\ IsNode(g)
      BY DeclaratorFacts
<1>2. PICK v, m, l : v = Middle(x) /\ m = Middle(g) /\ l = Leave(g)
      OBVIOUS
<1>3. /\ OnPath(v) /\ OnPath(m) /\ OnPath(l) /\ v.n = x /\ m.n = g /\ l.n = g /\ AtOrBelow(x, Left(g))
      BY <1>1, <1>2, CodeAfter, BelowOrder
<1>4. Past(v, m) /\ Past(v, l)
      BY <1>1, <1>2, <1>3, PastAtNode
<1>5. ASSUME NEW w, OnPath(w), Past(v, w) PROVE w \notin e
      <2>1. ~Past(w, v) /\ v # w
            BY <1>3, <1>5, PastAsymmetric
      <2>2. w \notin d
            BY <1>2, <2>1 DEF IsTie, IsTime
      <2>3. QED
            BY <1>2, <2>1, <2>2 DEF IsTie
<1>6. m \notin e /\ l \notin e
      BY <1>3, <1>4, <1>5
<1>7. ASSUME NEW q \in Params(g) PROVE Middle(g \o q) \notin e
      <2>1. PICK y, w : y = g \o q /\ w = Middle(y)
            OBVIOUS
      <2>2. y \in Seq(Steps) /\ Past(m, w)
            BY <1>2, <2>1, ParamFacts
      <2>3. OnPath(w)
            BY <2>1, <2>2, CodeAfter
      <2>4. Past(v, w)
            BY <1>3, <1>4, <2>2, <2>3, PastTransitive
      <2>5. QED
            BY <1>5, <2>1, <2>3, <2>4
<1>8. QED
      BY <1>2, <1>6, <1>7 DEF Reached

(* Another declarator than those whose parameter or name is declared.      *)
LEMMA OtherCounts ==
  ASSUME Tidy(tree), NEW x, IsDeclared(x), NEW d, NEW e, IsTie(x, d, e),
         NEW T, NEW ts, NEW p, NEW sy, NEW ta, SInv(T, d, ts, p, sy, ta), PInv(d, ts, sy),
         NEW us, SameHeads(ts, us), NEW id, NEW sz, TiedTo(sy, sz, x, id),
         NEW g \in Declarators, Left(g) # x, IsFirst(g, us, sz), ~AtOrBelow(x, Right(g)),
         NEW j, j = sy[Left(g)], SameCount(SymbolAt(ts, j), SymbolAt(us, j))
  PROVE  CountsFor(g, e, us, sz)
<1>1. PICK y : y = Left(g) /\ y \in Identifiers /\ IsDeclared(y)
      BY NameFacts
<1>2. x \in Identifiers /\ IsTime(d, Middle(x)) /\ IdsDone(d, sy) /\ AllCounted(d, ts, sy)
      BY DEF IsTie, SInv, PInv
<1>3. y \in DOMAIN sy /\ sz[y] = sy[y]
      BY <1>1 DEF IsFirst, TiedTo
<1>4. NodeOf(ts, j) = y
      BY <1>1, <1>3 DEF IsFirst, NodeOf, SameCount
<1>5. CountsFor(g, d, ts, sy)
      BY <1>1, <1>2, <1>3, <1>4 DEF AllCounted, IsFirst
<1>6. PICK h : h = Middle(x)
      OBVIOUS
<1>7. /\ \A n : Leave(n) \in e <=> Leave(n) \in d
      /\ \A n : Middle(n) \in e <=> Middle(n) \in d \/ n = x
      /\ \A f \in Declarators : h # Enter(f) /\ h # Middle(f)
      BY <1>6, TiedTime
<1>8. ASSUME NEW q \in Params(g)
      PROVE  /\ Middle(g \o q) \in e <=> Middle(g \o q) \in d
             /\ Middle(g \o q) \in d => sz[g \o q] = sy[g \o q]
      <2>1. PICK z : z = g \o q
            OBVIOUS
      <2>2. z \in Identifiers /\ AtOrBelow(z, Right(g))
            BY <2>1, ParamFacts
      <2>3. z # x
            BY <2>2
      <2>4. Middle(z) \in d => z \in DOMAIN sy
            BY <1>2, <2>2 DEF IdsDone
      <2>5. QED
            BY <1>7, <2>1, <2>3, <2>4 DEF TiedTo
<1>9. Reached(g, e) = Reached(g, d) /\ \A q \in Reached(g, d) : sz[g \o q] = sy[g \o q]
      BY <1>8 DEF Reached
<1>10. Fits(g, e, us, j)
       <2>1. SUFFICES ASSUME Leave(g) \notin e, Middle(g) \in e PROVE FALSE
             BY DEF Fits
       <2>2. g # x
             BY <1>6, <1>7
       <2>3. Leave(g) \notin d /\ Middle(g) \in d
             BY <1>7, <2>1, <2>2
       <2>4. QED
             BY <1>2, <2>3, BetweenRight
<1>11. sy[Left(g)] = j /\ sz[Left(g)] = j /\ (Leave(g) \in e <=> Leave(g) \in d)
       BY <1>1, <1>3, <1>7
<1>12. QED
       BY <1>5, <1>9, <1>10, <1>11, CountsStay

(* An identifier that is no parameter of a declarator that made the symbol *)
(* of its function.                                                        *)
LEMMA IdentifierCounts ==
  ASSUME Tidy(tree), NEW x, IsDeclared(x), NEW d, NEW e, IsTie(x, d, e),
         NEW T, NEW ts, NEW p, NEW sy, NEW ta, SInv(T, d, ts, p, sy, ta), PInv(d, ts, sy),
         NEW us, SameHeads(ts, us), SameCounts(ts, us), NEW id, NEW sz, TiedTo(sy, sz, x, id),
         \A g \in Declarators : IsFirst(g, ts, sy) => ~AtOrBelow(x, Right(g)),
         NodeOf(us, id) = x => Uncounted(SymbolAt(us, id))
  PROVE  PInv(e, us, sz)
<1>1. /\ Heads(ts) /\ Scoped(T, d, ts, sy) /\ OneTable(ts) /\ UsedTables(d, ts) /\ d \subseteq e
      BY DEF SInv, Entered, PInv, IsTie
<1>2. OneTable(us) /\ UsedTables(e, us)
      BY <1>1, CountsNodes, HeadsStay
<1>3. ASSUME NEW g \in Declarators, IsFirst(g, us, sz)
      PROVE  CountsFor(g, e, us, sz)
      <2>1. PICK y : y = Left(g) /\ y \in Identifiers /\ IsDeclared(y)
            BY NameFacts
      <2>2. CASE y = x
            <3>1. sz[Left(g)] = id
                  BY <2>1, <2>2 DEF TiedTo
            <3>2. Uncounted(SymbolAt(us, id))
                  BY <1>3, <2>1, <2>2, <3>1 DEF IsFirst
            <3>3. Reached(g, e) = {} /\ Middle(g) \notin e /\ Leave(g) \notin e
                  BY <2>1, <2>2, NoneReached
            <3>4. IsFiniteSet({}) /\ Cardinality({}) = 0
                  BY FS_EmptySet
            <3>5. Sized(g, e, SymbolAt(us, id))
                  BY <3>2, <3>3, <3>4 DEF Sized, Uncounted
            <3>6. Ranked(g, e, sz) /\ Fits(g, e, us, id)
                  BY <3>3 DEF Ranked, Fits
            <3>7. QED
                  BY <3>1, <3>5, <3>6 DEF CountsFor
      <2>3. CASE y # x
            <3>1. y \in DOMAIN sy /\ sz[y] = sy[y] /\ y \in Decl(sy)
                  BY <1>3, <2>1, <2>3 DEF IsFirst, TiedTo, Decl
            <3>2. PICK j : j = sy[y]
                  OBVIOUS
            <3>3. Valid(ts, j)
                  BY <1>1, <3>1, <3>2 DEF Scoped
            <3>4. SameCount(SymbolAt(ts, j), SymbolAt(us, j))
                  BY <3>3 DEF SameCounts
            <3>5. IsFirst(g, ts, sy)
                  BY <1>3, <2>1, <3>1, <3>2, <3>4 DEF IsFirst, SameCount, NodeOf
            <3>6. ~AtOrBelow(x, Right(g))
                  BY <3>5
            <3>7. QED
                  BY <1>3, <2>1, <2>3, <3>2, <3>4, <3>6, OtherCounts
      <2>4. QED
            BY <2>2, <2>3
<1>4. QED
      BY <1>2, <1>3 DEF PInv, AllCounted
-----------------------------------------------------------------------------
(* A parameter is counted in the symbol of its function.                   *)
CountedOnce(s, r) ==
  /\ r.params = s.params + 1 /\ r.size = s.params + 1 /\ r.node = s.node
  /\ r.funcinfo.params_inserted = s.funcinfo.params_inserted
IsPair(j) == j = <<j[1], j[2]>>
CountsIn(ts, us, id) ==
  /\ SameNodes(ts, us)
  /\ CountedOnce(SymbolAt(ts, id), SymbolAt(us, id))
  /\ \A j : Valid(ts, j) /\ IsPair(j) /\ j # id => SameCount(SymbolAt(ts, j), SymbolAt(us, j))

(* The parameter q of g is at x.                                           *)
IsAt(x, g, q) == x = g \o q

(* The parameters that are passed when the walk comes to one are those     *)
(* before it.                                                              *)
LEMMA ReachedBefore ==
  ASSUME Tidy(tree), NEW g \in Declarators, NEW q \in Params(g), NEW x, IsAt(x, g, q),
         NEW d, NEW e, IsTie(x, d, e)
  PROVE  /\ Reached(g, d) = {c \in Params(g) : Before(c, q)}
         /\ Reached(g, e) = Reached(g, d) \cup {q} /\ q \notin Reached(g, d)
<1>1. g \in Seq(Steps) /\ q \in Seq(Steps) /\ x \in Identifiers /\ IsTime(d, Middle(x))
      BY DeclaratorFacts, ParamFacts DEF IsTie, IsAt
<1>2. PICK v : v = Middle(x)
      OBVIOUS
<1>3. /\ v \notin d
      /\ \A n : Middle(n) \in e <=> Middle(n) \in d \/ n = x
      BY <1>2, TiedTime
<1>4. ASSUME NEW c \in Params(g)
      PROVE  /\ Middle(g \o c) \in d <=> Before(c, q)
             /\ Middle(g \o c) \in e <=> Middle(g \o c) \in d \/ c = q
      <2>1. PICK y : y = g \o c
            OBVIOUS
      <2>2. c \in Seq(Steps) /\ y \in Identifiers /\ Middle(y) \in Visits
            BY <2>1, ParamFacts
      <2>3. Middle(y) \in d <=> Past(Middle(y), Middle(x))
            BY <1>1, <2>2 DEF IsTime
      <2>4. Middle(y) \in d <=> Before(y, x)
            BY <1>1, <2>2, <2>3, PassedInOrder
      <2>5. Before(g \o c, g \o q) <=> Before(c, q)
            BY <1>1, <2>2, JoinedBefore
      <2>6. g \o c = g \o q <=> c = q
            BY <1>1, <2>2, Joined
      <2>7. QED
            BY <1>3, <2>1, <2>4, <2>5, <2>6 DEF IsAt
<1>5. Reached(g, d) = {c \in Params(g) : Before(c, q)}
      BY <1>4 DEF Reached
<1>6. Reached(g, e) = Reached(g, d) \cup {q}
      BY <1>4 DEF Reached
<1>7. q \notin Reached(g, d)
      BY <1>2, <1>3 DEF Reached, IsAt
<1>8. QED
      BY <1>5, <1>6, <1>7

(* One more is.                                                            *)
LEMMA OneCounted ==
  ASSUME Tidy(tree), NEW g \in Declarators, NEW q \in Params(g), NEW x, IsAt(x, g, q),
         NEW d, NEW e, IsTie(x, d, e), NEW ts, NEW sy, CountsFor(g, d, ts, sy),
         NEW id, sy[Left(g)] = id, NEW us, CountedOnce(SymbolAt(ts, id), SymbolAt(us, id)),
         SameHeads(ts, us), OneTable(ts),
         NEW k \in 1..ts[<<>>].children, ts[<<k>>].tablefor = id,
         NEW n, Len(ts[<<k>>].symbols) = n, Len(us[<<k>>].symbols) = n + 1,
         NEW sz, TiedTo(sy, sz, x, <<<<k>>, n + 1>>), IdsDone(d, sy), Left(g) \in DOMAIN sy
  PROVE  CountsFor(g, e, us, sz)
<1>1. /\ Reached(g, d) = {c \in Params(g) : Before(c, q)}
      /\ Reached(g, e) = Reached(g, d) \cup {q} /\ q \notin Reached(g, d)
      BY ReachedBefore
<1>2. /\ x \in Identifiers /\ IsTime(d, Middle(x)) /\ AtOrBelow(x, Right(g))
      /\ g \in Seq(Steps)
      BY ParamFacts, DeclaratorFacts DEF IsTie, IsAt
<1>3. Middle(g) \in d /\ Leave(g) \notin d
      BY <1>2, BetweenRight
<1>4. PICK A, c : A = Reached(g, d) /\ c = Cardinality(A)
      OBVIOUS
<1>5. PICK s, r : s = SymbolAt(ts, id) /\ r = SymbolAt(us, id)
      OBVIOUS
<1>6. Sized(g, d, s) /\ Ranked(g, d, sy) /\ Fits(g, d, ts, id) /\ CountedOnce(s, r)
      BY <1>5 DEF CountsFor
<1>7. IsFiniteSet(A) /\ s.params = c /\ ~s.funcinfo.params_inserted /\ n = c
      BY <1>3, <1>4, <1>6 DEF Sized, Fits
<1>8. IsFiniteSet(A \cup {q}) /\ Cardinality(A \cup {q}) = c + 1
      BY <1>1, <1>4, <1>7, FS_AddElement
<1>9. PICK v : v = Middle(x)
      OBVIOUS
<1>10. /\ \A m : Leave(m) \in e <=> Leave(m) \in d
       /\ \A m : Middle(m) \in e <=> Middle(m) \in d \/ m = x
       BY <1>9, TiedTime
<1>11. Leave(g) \notin e
       BY <1>3, <1>10
<1>12. Sized(g, e, r)
       BY <1>1, <1>4, <1>6, <1>7, <1>8, <1>11 DEF Sized, CountedOnce
<1>13. ASSUME NEW b \in Reached(g, e) PROVE sz[g \o b][2] = Rank(b, Params(g))
       <2>1. CASE b = q
             <3>1. sz[g \o b] = <<<<k>>, n + 1>>
                   BY <2>1 DEF TiedTo, IsAt
             <3>2. Rank(b, Params(g)) = 1 + c
                   BY <1>1, <1>4, <2>1 DEF Rank
             <3>3. c \in Nat
                   BY <1>4, <1>7, FS_CardinalityType
             <3>4. QED
                   BY <1>7, <3>1, <3>2, <3>3
       <2>2. CASE b # q
             <3>1. b \in Reached(g, d) /\ b \in Params(g)
                   BY <1>1, <1>13, <2>2 DEF Reached
             <3>2. PICK y : y = g \o b /\ y \in Identifiers
                   BY <3>1, ParamFacts
             <3>3. y \in DOMAIN sy
                   BY <3>1, <3>2 DEF Reached, IdsDone
             <3>4. sz[y] = sy[y]
                   BY <3>3 DEF TiedTo
             <3>5. QED
                   BY <1>6, <3>1, <3>2, <3>4 DEF Ranked
       <2>3. QED
             BY <2>1, <2>2
<1>14. Fits(g, e, us, id)
       <2>1. SUFFICES ASSUME NEW j \in 1..us[<<>>].children, us[<<j>>].tablefor = id
                      PROVE  Len(us[<<j>>].symbols) = Cardinality(Reached(g, e))
             BY DEF Fits
       <2>2. j \in 1..ts[<<>>].children /\ ts[<<j>>].tablefor = ts[<<k>>].tablefor
             BY <2>1 DEF SameHeads
       <2>3. j = k
             BY <2>2 DEF OneTable
       <2>4. QED
             BY <1>1, <1>4, <1>7, <1>8, <2>3
<1>15. sz[Left(g)] = id
       BY DEF TiedTo
<1>16. QED
       BY <1>5, <1>12, <1>13, <1>14, <1>15 DEF CountsFor, Ranked

(* So all counts are right after it.                                       *)
LEMMA ParameterCounts ==
  ASSUME Tidy(tree), NEW g \in Declarators, NEW q \in Params(g), NEW x, IsAt(x, g, q),
         NEW d, NEW e, IsTie(x, d, e),
         NEW T, NEW ts, NEW p, NEW sy, NEW ta, SInv(T, d, ts, p, sy, ta), PInv(d, ts, sy),
         IsFirst(g, ts, sy), NEW id, sy[Left(g)] = id,
         NEW us, SameHeads(ts, us), CountsIn(ts, us, id),
         NEW k \in 1..ts[<<>>].children, ts[<<k>>].tablefor = id,
         NEW n, Len(ts[<<k>>].symbols) = n, Len(us[<<k>>].symbols) = n + 1,
         NEW m, m = <<<<k>>, n + 1>>, NEW sz, TiedTo(sy, sz, x, m)
  PROVE  PInv(e, us, sz)
<1>1. /\ Heads(ts) /\ Scoped(T, d, ts, sy) /\ OneTable(ts) /\ UsedTables(d, ts) /\ d \subseteq e
      /\ IdsDone(d, sy) /\ AllCounted(d, ts, sy)
      BY DEF SInv, Entered, PInv, IsTie
<1>2. SameNodes(ts, us)
      BY DEF CountsIn
<1>3. OneTable(us) /\ UsedTables(e, us)
      BY <1>1, <1>2, HeadsStay
<1>4. /\ x \notin Names /\ IsDeclared(x) /\ \A f \in Declarators : AtOrBelow(x, f) => f = g
      /\ x \in Seq(Steps)
      BY ParamFacts DEF IsAt
<1>5. ASSUME NEW f \in Declarators, Left(f) \in DOMAIN sy
      PROVE  Valid(ts, sy[Left(f)]) /\ IsPair(sy[Left(f)])
      <2>1. PICK y, j : y = Left(f) /\ j = sy[y]
            OBVIOUS
      <2>2. y \in Decl(sy)
            BY <1>5, <2>1, NameFacts DEF Decl
      <2>3. Valid(ts, j) /\ j = <<T[ScopeOf(y)], j[2]>>
            BY <1>1, <2>1, <2>2 DEF Scoped
      <2>4. IsPair(j)
            BY <2>3 DEF IsPair
      <2>5. QED
            BY <2>1, <2>3, <2>4
<1>6. Left(g) \in DOMAIN sy
      BY DEF IsFirst
<1>7. Valid(ts, id)
      BY <1>5, <1>6
<1>8. CountedOnce(SymbolAt(ts, id), SymbolAt(us, id))
      BY DEF CountsIn
<1>9. ASSUME NEW f \in Declarators, IsFirst(f, us, sz)
      PROVE  CountsFor(f, e, us, sz)
      <2>1. CASE f = g
            <3>1. CountsFor(g, d, ts, sy)
                  BY <1>1 DEF AllCounted
            <3>2. TiedTo(sy, sz, x, <<<<k>>, n + 1>>)
                  OBVIOUS
            <3>3. CountsFor(g, e, us, sz)
                  BY <1>1, <1>6, <1>8, <3>1, <3>2, OneCounted
            <3>4. QED
                  BY <2>1, <3>3
      <2>2. CASE f # g
            <3>1. PICK y, j : y = Left(f) /\ j = sy[y]
                  OBVIOUS
            <3>2. y \in Names /\ y # x
                  BY <1>4, <3>1 DEF Names
            <3>3. y \in DOMAIN sy /\ sz[y] = j
                  BY <1>9, <3>1, <3>2 DEF IsFirst, TiedTo
            <3>4. Valid(ts, j) /\ IsPair(j)
                  BY <1>5, <3>1, <3>3
            <3>5. NodeOf(ts, j) = y
                  <4>1. NodeOf(us, j) = y
                        BY <1>9, <3>1, <3>3 DEF IsFirst
                  <4>2. QED
                        BY <1>2, <3>4, <4>1 DEF SameNodes
            <3>6. Left(f) # Left(g)
                  BY <2>2, NameFacts
            <3>7. j # id
                  BY <3>1, <3>5, <3>6 DEF IsFirst
            <3>8. SameCount(SymbolAt(ts, j), SymbolAt(us, j))
                  BY <3>4, <3>7 DEF CountsIn
            <3>9. ~AtOrBelow(x, Right(f))
                  <4>1. f \in Seq(Steps)
                        BY DeclaratorFacts
                  <4>2. ASSUME AtOrBelow(x, Right(f)) PROVE AtOrBelow(x, f)
                        <5>1. IsWithin(x, f)
                              BY <1>4, <4>1, <4>2, BelowChildren
                        <5>2. QED
                              BY <1>4, <4>1, <5>1, BelowOrder
                  <4>3. QED
                        BY <1>4, <2>2, <4>2
            <3>10. QED
                   BY <1>4, <1>9, <3>1, <3>2, <3>8, <3>9, OtherCounts
      <2>3. QED
            BY <2>1, <2>2
<1>10. QED
       BY <1>3, <1>9 DEF PInv, AllCounted
-----------------------------------------------------------------------------
(* What is counted at a declarator.                                        *)

(* The walk comes to the middle or the end of g.                           *)
IsTurn(g, h, d, e) ==
  /\ g \in Declarators /\ IsTime(d, h) /\ e = d \cup ({h} \cap Visits)
  /\ h = Middle(g) \/ h = Leave(g)

(* No parameter is passed there.                                           *)
LEMMA TurnFacts ==
  ASSUME Tidy(tree), NEW g, NEW h, NEW d, NEW e, IsTurn(g, h, d, e)
  PROVE  /\ h \in Visits /\ h \notin d /\ e = d \cup {h} /\ h.n = g /\ OnPath(h)
         /\ \A f \in Declarators : Reached(f, e) = Reached(f, d)
<1>1. IsNode(g) /\ g \in Seq(Steps) /\ At[g].type = "LIST" /\ g \in Declarators
      BY DeclaratorFacts DEF IsTurn
<1>2. h \in Visits /\ OnPath(h) /\ h.n = g
      BY <1>1, NodeVisits, CodeAfter DEF IsTurn
<1>3. h \notin d
      BY <1>2, PastIrreflexive DEF IsTurn, IsTime
<1>4. e = d \cup {h}
      BY <1>2 DEF IsTurn
<1>5. ASSUME NEW f \in Declarators, NEW q \in Params(f) PROVE h # Middle(f \o q)
      <2>1. PICK y : y = f \o q /\ y \in Identifiers
            BY ParamFacts
      <2>2. y # g
            BY <1>1, <2>1 DEF Identifiers
      <2>3. h # Middle(y)
            BY <2>2, VisitsDiffer DEF IsTurn
      <2>4. QED
            BY <2>1, <2>3
<1>6. \A f \in Declarators : Reached(f, e) = Reached(f, d)
      BY <1>4, <1>5 DEF Reached
<1>7. QED
      BY <1>2, <1>3, <1>4, <1>6

(* The name of another declarator that made a symbol is passed, and so is  *)
(* the end of that declarator.                                             *)
LEMMA FirstDone ==
  ASSUME Tidy(tree), NEW g, NEW h, NEW d, NEW e, IsTurn(g, h, d, e), NEW sy, IdsDone(d, sy),
         NEW f \in Declarators, f # g, Left(f) \in DOMAIN sy
  PROVE  Leave(f) \in d /\ Middle(f) \in d
<1>1. g \in Declarators /\ IsTime(d, h) /\ h.n = g
      BY TurnFacts DEF IsTurn
<1>2. AtOrBelow(h.n, g)
      BY <1>1, DeclaratorFacts, BelowOrder
<1>3. Middle(Left(f)) \in d
      BY DEF IdsDone
<1>4. QED
      BY <1>1, <1>2, <1>3, OtherDone

(* Its counts do not change.                                               *)
LEMMA FirstCounts ==
  ASSUME Tidy(tree), NEW g, NEW h, NEW d, NEW e, IsTurn(g, h, d, e),
         NEW ts, NEW sy, IdsDone(d, sy), NEW f \in Declarators, f # g, Left(f) \in DOMAIN sy,
         CountsFor(f, d, ts, sy),
         NEW us, NEW j, sy[Left(f)] = j, SameCount(SymbolAt(ts, j), SymbolAt(us, j))
  PROVE  CountsFor(f, e, us, sy)
<1>1. Leave(f) \in d
      BY FirstDone
<1>2. Reached(f, e) = Reached(f, d) /\ Leave(f) \in e
      BY <1>1, TurnFacts
<1>3. Fits(f, e, us, j)
      BY <1>2 DEF Fits
<1>4. QED
      BY <1>1, <1>2, <1>3, CountsStay

(* Nothing is passed of a declarator before its middle.                    *)
LEMMA NoneBefore ==
  ASSUME Tidy(tree), NEW g, NEW h, NEW d, NEW e, IsTurn(g, h, d, e), h = Middle(g)
  PROVE  Reached(g, e) = {}
<1>1. /\ h \in Visits /\ h \notin d /\ e = d \cup {h} /\ OnPath(h) /\ g \in Declarators
      /\ Reached(g, e) = Reached(g, d)
      BY TurnFacts DEF IsTurn
<1>2. ASSUME NEW q \in Params(g) PROVE Middle(g \o q) \notin d
      <2>1. PICK y, w : y = g \o q /\ w = Middle(y)
            OBVIOUS
      <2>a. /\ y \in Seq(Steps) /\ Past(Middle(g), Middle(y))
            BY <1>1, <2>1, ParamFacts
      <2>2. y \in Seq(Steps) /\ Past(h, w)
            BY <2>1, <2>a
      <2>3. OnPath(w)
            BY <2>1, <2>2, CodeAfter
      <2>4. ~Past(w, h)
            BY <1>1, <2>2, <2>3, PastAsymmetric
      <2>5. QED
            BY <2>1, <2>4 DEF IsTurn, IsTime
<1>3. QED
      BY <1>1, <1>2 DEF Reached

(* A function's table is found: its counts have been right since the end   *)
(* of the declarator that made it.                                         *)
LEMMA FoundCounts ==
  ASSUME Tidy(tree), NEW g, NEW h, NEW d, NEW e, IsTurn(g, h, d, e), h = Middle(g),
         NEW T, NEW ts, NEW p, NEW sy, NEW ta, SInv(T, d, ts, p, sy, ta), GoodTables(ts), PInv(d, ts, sy),
         NEW k \in 1..ts[<<>>].children, ts[<<k>>].name = At[Left(g)].string_data
  PROVE  PInv(e, ts, sy)
<1>1. /\ OneTable(ts) /\ UsedTables(d, ts) /\ AllCounted(d, ts, sy) /\ IdsDone(d, sy)
      /\ h \notin d /\ d \subseteq e /\ g \in Declarators /\ IsTime(d, Middle(g))
      <2>1. OneTable(ts) /\ UsedTables(d, ts) /\ AllCounted(d, ts, sy) /\ IdsDone(d, sy)
            BY DEF PInv, SInv
      <2>2. h \notin d /\ e = d \cup {h}
            BY TurnFacts
      <2>3. g \in Declarators /\ IsTime(d, Middle(g))
            BY DEF IsTurn
      <2>4. QED
            BY <2>1, <2>2, <2>3
<1>2. ts[<<k>>].tablefor = sy[Left(g)]
      BY <1>1, TableFound
<1>3. ~IsFirst(g, ts, sy)
      <2>1. PICK f \in Declarators : Middle(f) \in d /\ NodeOf(ts, ts[<<k>>].tablefor) = Left(f)
            BY <1>1 DEF UsedTables
      <2>2. SUFFICES ASSUME IsFirst(g, ts, sy) PROVE FALSE
            OBVIOUS
      <2>3. Left(f) = Left(g)
            BY <1>2, <2>1, <2>2 DEF IsFirst
      <2>4. f = g
            BY <1>1, <2>3, NameFacts
      <2>5. QED
            BY <1>1, <2>1, <2>4
<1>4. ASSUME NEW f \in Declarators, IsFirst(f, ts, sy)
      PROVE  CountsFor(f, e, ts, sy)
      <2>1. CountsFor(f, d, ts, sy) /\ Left(f) \in DOMAIN sy /\ f # g
            BY <1>1, <1>3, <1>4 DEF AllCounted, IsFirst
      <2>2. PICK j : j = sy[Left(f)]
            OBVIOUS
      <2>3. SameCount(SymbolAt(ts, j), SymbolAt(ts, j))
            BY DEF SameCount
      <2>4. QED
            BY <1>1, <2>1, <2>2, <2>3, FirstCounts
<1>5. UsedTables(e, ts)
      BY <1>1 DEF UsedTables
<1>6. QED
      BY <1>1, <1>4, <1>5 DEF PInv, AllCounted

(* A declarator is left: its parameters are not to be counted again.       *)
Marks(ts, us, id) ==
  /\ SameNodes(ts, us)
  /\ SymbolAt(us, id).size = SymbolAt(ts, id).size /\ SymbolAt(us, id).params = SymbolAt(ts, id).params
  /\ SymbolAt(us, id).node = SymbolAt(ts, id).node /\ SymbolAt(us, id).funcinfo.params_inserted = TRUE
  /\ \A j : Valid(ts, j) /\ IsPair(j) /\ j # id => SameCount(SymbolAt(ts, j), SymbolAt(us, j))

(* So the counts are right after its end.                                  *)
LEMMA LeftCounts ==
  ASSUME Tidy(tree), NEW g, NEW h, NEW d, NEW e, IsTurn(g, h, d, e), h = Leave(g),
         NEW T, NEW ts, NEW p, NEW sy, NEW ta, SInv(T, d, ts, p, sy, ta), PInv(d, ts, sy),
         NEW us, SameHeads(ts, us), Marks(ts, us, sy[Left(g)])
  PROVE  PInv(e, us, sy)
<1>1. /\ OneTable(ts) /\ UsedTables(d, ts) /\ AllCounted(d, ts, sy) /\ IdsDone(d, sy)
      /\ e = d \cup {h} /\ g \in Declarators /\ Reached(g, e) = Reached(g, d)
      /\ Heads(ts) /\ Scoped(T, d, ts, sy)
      BY TurnFacts DEF PInv, SInv, IsTurn, Entered
<1>2. SameNodes(ts, us)
      BY DEF Marks
<1>3. OneTable(us) /\ UsedTables(e, us)
      BY <1>1, <1>2, HeadsStay
<1>4. ASSUME NEW f \in Declarators, IsFirst(f, us, sy)
      PROVE  CountsFor(f, e, us, sy)
      <2>1. PICK j : j = sy[Left(f)]
            OBVIOUS
      <2>2. Left(f) \in DOMAIN sy /\ Left(f) \in Decl(sy)
            BY <1>4, NameFacts DEF IsFirst, Decl
      <2>3. Valid(ts, j) /\ IsPair(j)
            <3>1. PICK y : y = Left(f)
                  OBVIOUS
            <3>2. Valid(ts, j) /\ j = <<T[ScopeOf(y)], j[2]>>
                  BY <1>1, <2>1, <2>2, <3>1 DEF Scoped
            <3>3. QED
                  BY <3>2 DEF IsPair
      <2>4. IsFirst(f, ts, sy)
            BY <1>2, <1>4, <2>1, <2>3 DEF IsFirst, SameNodes
      <2>5. CountsFor(f, d, ts, sy)
            BY <1>1, <2>4 DEF AllCounted
      <2>6. PICK s, r : s = SymbolAt(ts, j) /\ r = SymbolAt(us, j)
            OBVIOUS
      <2>7. Sized(f, d, s) /\ Ranked(f, d, sy)
            BY <2>1, <2>5, <2>6 DEF CountsFor
      <2>8. CASE f = g
            <3>1. r.size = s.size /\ r.funcinfo.params_inserted
                  BY <2>1, <2>3, <2>6, <2>8 DEF Marks
            <3>2. Leave(g) \in e
                  BY <1>1
            <3>3. Sized(g, e, r) /\ Ranked(g, e, sy)
                  BY <1>1, <2>7, <2>8, <3>1, <3>2 DEF Sized, Ranked
            <3>4. Fits(g, e, us, j)
                  BY <3>2 DEF Fits
            <3>5. QED
                  BY <2>1, <2>6, <2>8, <3>3, <3>4 DEF CountsFor
      <2>9. CASE f # g
            <3>1. Leave(f) \in d
                  BY <1>1, <2>2, <2>9, FirstDone
            <3>2. s.funcinfo.params_inserted
                  BY <2>7, <3>1 DEF Sized
            <3>3. SameCount(s, r)
                  <4>1. CASE j = sy[Left(g)]
                        BY <2>3, <2>6, <3>2, <4>1 DEF Marks, SameCount
                  <4>2. CASE j # sy[Left(g)]
                        BY <2>3, <2>6, <4>2 DEF Marks
                  <4>3. QED
                        BY <4>1, <4>2
            <3>4. QED
                  BY <1>1, <2>1, <2>2, <2>5, <2>6, <2>9, <3>3, FirstCounts
      <2>10. QED
             BY <2>8, <2>9
<1>5. QED
      BY <1>3, <1>4 DEF PInv, AllCounted
-----------------------------------------------------------------------------
(* What is counted when a function's table is made.                        *)

(* The tables below the file scope are those with numbers up to its count. *)
LEMMA RootTables ==
  ASSUME NEW ts, GoodTables(ts), NEW c, c = ts[<<>>].children
  PROVE  /\ c \in Nat /\ <<c + 1>> \notin DOMAIN ts
         /\ \A k \in 1..c : <<k>> \in DOMAIN ts
<1>1. IsFamily(ts) /\ <<>> \in DOMAIN ts
      BY DEF GoodTables, IsFamily
<1>2. c \in Nat
      BY <1>1 DEF IsFamily
<1>3. \A k \in Numbers : Append(<<>>, k) \in DOMAIN ts <=> k <= c
      BY <1>1 DEF IsFamily
<1>4. \A k : Append(<<>>, k) = <<k>>
      OBVIOUS
<1>5. \A k \in Numbers : <<k>> \in DOMAIN ts <=> k <= c
      BY <1>3, <1>4
<1>6. QED
      BY <1>2, <1>5 DEF Numbers

(* The new table q is that of the function of g, which had none.           *)
MakesTable(g, sy, ts, us, q) ==
  /\ Keeping(ts, us, q) /\ q = <<ts[<<>>].children + 1>>
  /\ us[<<>>].children = ts[<<>>].children + 1 /\ us[q].tablefor = sy[Left(g)]
  /\ \A k \in 1..ts[<<>>].children : ts[<<k>>].name # At[Left(g)].string_data

(* It is no other function's.                                              *)
LEMMA TableNew ==
  ASSUME Tidy(tree), NEW d, NEW g \in Declarators, IsTime(d, Middle(g)),
         NEW T, NEW ts, NEW p, NEW sy, NEW ta, SInv(T, d, ts, p, sy, ta), GoodTables(ts),
         NEW us, NEW q, MakesTable(g, sy, ts, us, q), NEW id, id = sy[Left(g)],
         NEW c, c = ts[<<>>].children
  PROVE  /\ Valid(ts, id) /\ c \in Nat /\ us[<<>>].children = c + 1
         /\ us[<<c + 1>>].tablefor = id /\ Len(us[<<c + 1>>].symbols) = 0
         /\ \A k \in 1..c : /\ us[<<k>>].tablefor = ts[<<k>>].tablefor
                            /\ ts[<<k>>].tablefor # id /\ Valid(ts, ts[<<k>>].tablefor)
<1>1. /\ Keeping(ts, us, q) /\ q = <<c + 1>> /\ us[<<>>].children = c + 1 /\ us[q].tablefor = id
      /\ \A k \in 1..c : ts[<<k>>].name # At[Left(g)].string_data
      BY DEF MakesTable
<1>2. c \in Nat /\ q \notin DOMAIN ts /\ \A k \in 1..c : <<k>> \in DOMAIN ts
      BY <1>1, RootTables
<1>3. /\ Scoped(T, d, ts, sy) /\ Heads(ts) /\ IdsDone(d, sy)
      BY DEF SInv, Entered
<1>4. Left(g) \in Decl(sy)
      BY <1>3, NameDone
<1>5. Valid(ts, id) /\ SymbolAt(ts, id).name = At[Left(g)].string_data
      BY <1>3, <1>4 DEF Scoped
<1>6. us[q].symbols = <<>>
      BY <1>1, <1>2 DEF Keeping
<1>7. Len(<<>>) = 0
      OBVIOUS
<1>8. Len(us[q].symbols) = 0
      BY <1>6, <1>7
<1>9. ASSUME NEW k \in 1..c
      PROVE  /\ us[<<k>>].tablefor = ts[<<k>>].tablefor
             /\ ts[<<k>>].tablefor # id /\ Valid(ts, ts[<<k>>].tablefor)
      <2>1. IsHead(ts, ts[<<k>>])
            BY <1>3 DEF Heads
      <2>2. us[<<k>>].tablefor = ts[<<k>>].tablefor
            BY <1>1, <1>2 DEF Keeping
      <2>3. PICK j : j = ts[<<k>>].tablefor
            OBVIOUS
      <2>4. Valid(ts, j) /\ SymbolAt(ts, j).name = ts[<<k>>].name
            BY <2>1, <2>3 DEF IsHead
      <2>5. j # id
            BY <1>1, <1>5, <2>4
      <2>6. QED
            BY <2>2, <2>3, <2>4, <2>5
<1>10. QED
       BY <1>1, <1>2, <1>5, <1>8, <1>9

(* Tables and symbols that are kept, as far as they are counted.           *)
LEMMA KeepingCounts ==
  ASSUME NEW ts, NEW us, NEW q, Keeping(ts, us, q)
  PROVE  \A j : Valid(ts, j) => SameCount(SymbolAt(ts, j), SymbolAt(us, j)) /\ NodeOf(us, j) = NodeOf(ts, j)
<1>1. ASSUME NEW j, Valid(ts, j)
      PROVE  SameCount(SymbolAt(ts, j), SymbolAt(us, j)) /\ NodeOf(us, j) = NodeOf(ts, j)
      <2>1. SymbolAt(us, j) = SymbolAt(ts, j)
            BY <1>1, KeepingSymbols
      <2>2. QED
            BY <2>1 DEF SameCount, NodeOf
<1>2. QED
      BY <1>1

(* It is made at the declarator that made the symbol, which counts from    *)
(* zero.                                                                   *)
LEMMA OpenCounts ==
  ASSUME Tidy(tree), NEW g, NEW h, NEW d, NEW e, IsTurn(g, h, d, e), h = Middle(g),
         NEW T, NEW ts, NEW p, NEW sy, NEW ta, SInv(T, d, ts, p, sy, ta), GoodTables(ts), PInv(d, ts, sy),
         NEW us, NEW q, MakesTable(g, sy, ts, us, q)
  PROVE  PInv(e, us, sy)
<1>1. /\ OneTable(ts) /\ UsedTables(d, ts) /\ AllCounted(d, ts, sy) /\ IdsDone(d, sy)
      /\ Scoped(T, d, ts, sy) /\ Kinds(ts, sy)
      /\ h \notin d /\ e = d \cup {h} /\ g \in Declarators /\ IsTime(d, Middle(g))
      /\ Reached(g, e) = Reached(g, d)
      <2>1. /\ OneTable(ts) /\ UsedTables(d, ts) /\ AllCounted(d, ts, sy) /\ IdsDone(d, sy)
            /\ Scoped(T, d, ts, sy) /\ Kinds(ts, sy)
            BY DEF PInv, SInv, Entered
      <2>2. /\ h \notin d /\ e = d \cup {h} /\ g \in Declarators
            /\ \A f \in Declarators : Reached(f, e) = Reached(f, d)
            BY TurnFacts DEF IsTurn
      <2>3. IsTime(d, Middle(g))
            BY DEF IsTurn
      <2>4. QED
            BY <2>1, <2>2, <2>3
<1>2. PICK c, id : c = ts[<<>>].children /\ id = sy[Left(g)]
      OBVIOUS
<1>3. /\ Valid(ts, id) /\ c \in Nat /\ us[<<>>].children = c + 1
      /\ us[<<c + 1>>].tablefor = id /\ Len(us[<<c + 1>>].symbols) = 0
      /\ \A k \in 1..c : /\ us[<<k>>].tablefor = ts[<<k>>].tablefor
                         /\ ts[<<k>>].tablefor # id /\ Valid(ts, ts[<<k>>].tablefor)
      BY <1>1, <1>2, TableNew
<1>4. \A k \in 1..(c + 1) : k \in 1..c \/ k = c + 1
      BY <1>3
<1>5. \A j : Valid(ts, j) => SameCount(SymbolAt(ts, j), SymbolAt(us, j)) /\ NodeOf(us, j) = NodeOf(ts, j)
      BY KeepingCounts DEF MakesTable
<1>6. OneTable(us)
      <2>1. \A j, k \in 1..c : ts[<<j>>].tablefor = ts[<<k>>].tablefor => j = k
            BY <1>1, <1>2 DEF OneTable
      <2>2. ASSUME NEW j \in 1..(c + 1), NEW k \in 1..(c + 1), us[<<j>>].tablefor = us[<<k>>].tablefor
            PROVE  j = k
            BY <1>3, <1>4, <2>1, <2>2
      <2>3. QED
            BY <1>3, <2>2 DEF OneTable
<1>7. ASSUME NEW f \in Declarators, f # g, Left(f) \in DOMAIN sy
      PROVE  Middle(f) \in d
      BY <1>1, <1>7, FirstDone
<1>8. UsedTables(e, us)
      <2>1. ASSUME NEW k \in 1..(c + 1)
            PROVE  \E f \in Declarators : Middle(f) \in e /\ NodeOf(us, us[<<k>>].tablefor) = Left(f)
            <3>1. CASE k \in 1..c
                  <4>1. PICK f \in Declarators : Middle(f) \in d /\ NodeOf(ts, ts[<<k>>].tablefor) = Left(f)
                        BY <1>1, <1>2, <3>1 DEF UsedTables
                  <4>2. PICK j : j = ts[<<k>>].tablefor
                        OBVIOUS
                  <4>3. us[<<k>>].tablefor = j /\ Valid(ts, j)
                        BY <1>3, <3>1, <4>2
                  <4>4. NodeOf(us, us[<<k>>].tablefor) = Left(f)
                        BY <1>5, <4>1, <4>2, <4>3
                  <4>5. QED
                        BY <1>1, <4>1, <4>4
            <3>2. CASE k = c + 1
                  <4>1. Left(g) \in Decl(sy) /\ Left(g) \in Names
                        BY <1>1, NameDone DEF Names
                  <4>2. NodeOf(ts, id) \in Names
                        BY <1>1, <1>2, <4>1 DEF Kinds, SameKind
                  <4>3. PICK f \in Declarators : NodeOf(ts, id) = Left(f)
                        BY <4>2 DEF Names
                  <4>4. Left(f) \in DOMAIN sy
                        <5>1. PICK a, b : id = <<a, b>>
                              <6>1. id = <<T[ScopeOf(Left(g))], id[2]>>
                                    BY <1>1, <1>2, <4>1 DEF Scoped
                              <6>2. QED
                                    BY <6>1
                        <5>2. NodeOf(ts, id) \in Decl(sy)
                              BY <1>3, <5>1, SymbolNode
                        <5>3. QED
                              BY <4>3, <5>2 DEF Decl
                  <4>5. Middle(f) \in e
                        BY <1>1, <1>7, <4>4
                  <4>6. NodeOf(us, us[<<k>>].tablefor) = Left(f)
                        BY <1>3, <1>5, <3>2, <4>3
                  <4>7. QED
                        BY <4>5, <4>6
            <3>3. QED
                  BY <1>4, <3>1, <3>2
      <2>2. QED
            BY <1>3, <2>1 DEF UsedTables
<1>9. ASSUME NEW f \in Declarators, IsFirst(f, us, sy)
      PROVE  CountsFor(f, e, us, sy)
      <2>1. PICK j, s, r : j = sy[Left(f)] /\ s = SymbolAt(ts, j) /\ r = SymbolAt(us, j)
            OBVIOUS
      <2>2. Left(f) \in DOMAIN sy /\ Left(f) \in Decl(sy)
            BY <1>9, NameFacts DEF IsFirst, Decl
      <2>3. Valid(ts, j)
            BY <1>1, <2>1, <2>2 DEF Scoped
      <2>4. SameCount(s, r) /\ IsFirst(f, ts, sy)
            BY <1>5, <1>9, <2>1, <2>3 DEF IsFirst
      <2>5. CountsFor(f, d, ts, sy)
            BY <1>1, <2>4 DEF AllCounted
      <2>6. CASE f # g
            <3>1. SameCount(SymbolAt(ts, j), SymbolAt(us, j))
                  BY <2>1, <2>4
            <3>2. QED
                  BY <1>1, <2>1, <2>2, <2>5, <2>6, <3>1, FirstCounts
      <2>7. CASE f = g
            <3>1. j = id
                  BY <1>2, <2>1, <2>7
            <3>2. Reached(g, e) = {} /\ Reached(g, d) = {}
                  BY <1>1, NoneBefore
            <3>3. Leave(g) \in e <=> Leave(g) \in d
                  <4>1. Leave(g) # h
                        BY DEF Leave, Middle
                  <4>2. QED
                        BY <1>1, <4>1
            <3>4. Fits(g, e, us, id)
                  <4>1. Cardinality(Reached(g, e)) = 0
                        BY <3>2, FS_EmptySet
                  <4>2. ASSUME NEW k \in 1..(c + 1), us[<<k>>].tablefor = id
                        PROVE  Len(us[<<k>>].symbols) = 0
                        <5>1. k = c + 1
                              BY <1>3, <1>4, <4>2
                        <5>2. QED
                              BY <1>3, <5>1
                  <4>3. QED
                        BY <1>3, <4>1, <4>2 DEF Fits
            <3>5. \A x \in Reached(g, d) : sy[g \o x] = sy[g \o x]
                  OBVIOUS
            <3>6. QED
                  BY <1>1, <2>1, <2>4, <2>5, <2>7, <3>1, <3>3, <3>4, <3>5, CountsStay
      <2>8. QED
            BY <2>6, <2>7
<1>10. QED
       BY <1>6, <1>8, <1>9 DEF PInv, AllCounted
-----------------------------------------------------------------------------
(* What the changes to a symbol do to the counts.                          *)

(* One symbol r is put in place of that at id.                             *)
LEMMA OneSymbol ==
  ASSUME NEW ts, GoodTables(ts), NEW id, Valid(ts, id), IsPair(id), NEW r,
         NEW us, us = WithSymbol(ts, id, r)
  PROVE  /\ SymbolAt(us, id) = r /\ SameHeads(ts, us) /\ SameLengths(ts, us)
         /\ \A j : Valid(ts, j) /\ IsPair(j) /\ j # id => SymbolAt(us, j) = SymbolAt(ts, j)
         /\ r.node = SymbolAt(ts, id).node => SameNodes(ts, us)
         /\ SameCount(SymbolAt(ts, id), r) => SameCounts(ts, us)
<1>1. PICK a, b, old, syms : /\ a = id[1] /\ b = id[2] /\ old = ts[a].symbols
                             /\ syms = [old EXCEPT ![b] = r]
      OBVIOUS
<1>2. a \in DOMAIN ts /\ b \in 1..Len(old) /\ IsTable(ts[a])
      BY <1>1 DEF Valid, GoodTables
<1>3. PICK S : old \in Seq(S)
      BY <1>1, <1>2 DEF IsTable, GoodSymbols, IsSequence
<1>4. /\ Len(syms) = Len(old) /\ syms[b] = r
      /\ \A k \in 1..Len(old) : k # b => syms[k] = old[k]
      BY <1>1, <1>2, <1>3
<1>5. /\ DOMAIN us = DOMAIN ts /\ us[a] = [ts[a] EXCEPT !.symbols = syms]
      /\ \A q \in DOMAIN ts : q # a => us[q] = ts[q]
      BY <1>1, <1>2 DEF WithSymbol
<1>6. /\ us[a].symbols = syms /\ us[a].children = ts[a].children
      /\ us[a].tablefor = ts[a].tablefor
      BY <1>2, <1>5 DEF IsTable
<1>7. \A q \in DOMAIN ts : /\ us[q].children = ts[q].children /\ us[q].tablefor = ts[q].tablefor
                           /\ Len(us[q].symbols) = Len(ts[q].symbols)
      BY <1>1, <1>4, <1>5, <1>6
<1>8. <<>> \in DOMAIN ts /\ \A k \in 1..ts[<<>>].children : <<k>> \in DOMAIN ts
      BY RootTables DEF GoodTables, IsFamily
<1>9. SameHeads(ts, us) /\ SameLengths(ts, us)
      BY <1>7, <1>8 DEF SameHeads, SameLengths
<1>10. SymbolAt(ts, id) = old[b] /\ SymbolAt(us, id) = r
       BY <1>1, <1>4, <1>6 DEF SymbolAt
<1>11. ASSUME NEW j, Valid(ts, j)
       PROVE  \/ SymbolAt(us, j) = SymbolAt(ts, j)
              \/ /\ j[1] = a /\ j[2] = b
                 /\ SymbolAt(us, j) = r /\ SymbolAt(ts, j) = SymbolAt(ts, id)
       <2>1. PICK i, k : i = j[1] /\ k = j[2]
             OBVIOUS
       <2>2. i \in DOMAIN ts /\ k \in 1..Len(ts[i].symbols)
             BY <1>11, <2>1 DEF Valid
       <2>3. SymbolAt(us, j) = us[i].symbols[k] /\ SymbolAt(ts, j) = ts[i].symbols[k]
             BY <2>1 DEF SymbolAt
       <2>4. CASE i # a
             <3>1. us[i] = ts[i]
                   BY <1>5, <2>2, <2>4
             <3>2. QED
                   BY <2>3, <3>1
       <2>5. CASE i = a /\ k # b
             BY <1>1, <1>4, <1>6, <2>2, <2>3, <2>5
       <2>6. CASE i = a /\ k = b
             <3>1. SymbolAt(us, j) = syms[b] /\ SymbolAt(ts, j) = old[b]
                   BY <1>1, <1>6, <2>3, <2>6
             <3>2. j[1] = a /\ j[2] = b
                   BY <2>1, <2>6
             <3>3. SymbolAt(us, j) = r /\ SymbolAt(ts, j) = SymbolAt(ts, id)
                   BY <1>4, <1>10, <3>1
             <3>4. QED
                   BY <3>2, <3>3
       <2>7. QED
             BY <2>4, <2>5, <2>6
<1>12. ASSUME NEW j, Valid(ts, j), IsPair(j), j # id
       PROVE  SymbolAt(us, j) = SymbolAt(ts, j)
       <2>1. ~(j[1] = a /\ j[2] = b)
             BY <1>1, <1>12 DEF IsPair
       <2>2. QED
             BY <1>11, <1>12, <2>1
<1>13. ASSUME r.node = SymbolAt(ts, id).node PROVE SameNodes(ts, us)
       BY <1>11, <1>13 DEF SameNodes, NodeOf
<1>14. ASSUME SameCount(SymbolAt(ts, id), r) PROVE SameCounts(ts, us)
       <2>1. ASSUME NEW j, Valid(ts, j) PROVE SameCount(SymbolAt(ts, j), SymbolAt(us, j))
             <3>1. CASE SymbolAt(us, j) = SymbolAt(ts, j)
                   BY <3>1 DEF SameCount
             <3>2. CASE SymbolAt(us, j) = r /\ SymbolAt(ts, j) = SymbolAt(ts, id)
                   BY <1>14, <3>2
             <3>3. QED
                   BY <1>11, <2>1, <3>1, <3>2
       <2>2. QED
             BY <2>1 DEF SameCounts
<1>15. QED
       BY <1>9, <1>10, <1>12, <1>13, <1>14

(* More dimensions count nothing.                                          *)
LEMMA DimensionsCount ==
  ASSUME NEW ts, AllFull(ts), GoodTables(ts), NEW id, Valid(ts, id), IsPair(id), NEW n,
         NEW us, us = add_array_dimensions(ts, id, n)
  PROVE  SameHeads(ts, us) /\ SameLengths(ts, us) /\ SameCounts(ts, us)
<1>1. PICK old, s : old = SymbolAt(ts, id) /\ s = [old EXCEPT !.dims = @ \o Dimensions(n)]
      OBVIOUS
<1>2. us = WithSymbol(ts, id, s)
      BY <1>1 DEF add_array_dimensions, SymbolAt, WithSymbol
<1>3. IsFull(old)
      <2>1. id[1] \in DOMAIN ts /\ id[2] \in 1..Len(ts[id[1]].symbols)
            BY DEF Valid
      <2>2. QED
            BY <1>1, <2>1 DEF AllFull, SymbolAt
<1>4. SameCount(old, s)
      BY <1>1, <1>3 DEF IsFull, SymbolFields, SameCount
<1>5. QED
      BY <1>1, <1>2, <1>4, OneSymbol

(* Nor does the flag of a definition.                                      *)
LEMMA DefinedCount ==
  ASSUME NEW ts, AllFull(ts), GoodTables(ts), NEW id, Valid(ts, id), IsPair(id),
         NEW us, us = [ts EXCEPT ![id[1]].symbols[id[2]].funcinfo.is_defined = TRUE]
  PROVE  SameHeads(ts, us) /\ SameLengths(ts, us) /\ SameCounts(ts, us)
<1>1. PICK old, s : old = SymbolAt(ts, id) /\ s = [old EXCEPT !.funcinfo = [@ EXCEPT !.is_defined = TRUE]]
      OBVIOUS
<1>2. us = WithSymbol(ts, id, s)
      BY <1>1 DEF SymbolAt, WithSymbol
<1>3. IsFull(old)
      <2>1. id[1] \in DOMAIN ts /\ id[2] \in 1..Len(ts[id[1]].symbols)
            BY DEF Valid
      <2>2. QED
            BY <1>1, <2>1 DEF AllFull, SymbolAt
<1>4. SameCount(old, s)
      BY <1>1, <1>3 DEF IsFull, SymbolFields, InfoFields, SameCount
<1>5. QED
      BY <1>1, <1>2, <1>4, OneSymbol

(* The flag that the end of a declarator sets.                             *)
LEMMA FlagMarks ==
  ASSUME NEW ts, AllFull(ts), GoodTables(ts), NEW id, Valid(ts, id), IsPair(id),
         NEW us, us = [ts EXCEPT ![id[1]].symbols[id[2]].funcinfo.params_inserted = TRUE]
  PROVE  SameHeads(ts, us) /\ Marks(ts, us, id)
<1>1. PICK old, s, ws : /\ old = SymbolAt(ts, id)
                        /\ s = [old EXCEPT !.funcinfo = [@ EXCEPT !.params_inserted = TRUE]]
                        /\ ws = WithSymbol(ts, id, s)
      OBVIOUS
<1>2. us = ws
      BY <1>1 DEF SymbolAt, WithSymbol
<1>3. IsFull(old)
      <2>1. id[1] \in DOMAIN ts /\ id[2] \in 1..Len(ts[id[1]].symbols)
            BY DEF Valid
      <2>2. QED
            BY <1>1, <2>1 DEF AllFull, SymbolAt
<1>4. s.size = old.size /\ s.params = old.params /\ s.node = old.node /\ s.funcinfo.params_inserted = TRUE
      BY <1>1, <1>3 DEF IsFull, SymbolFields, InfoFields
<1>5. ws = WithSymbol(ts, id, s) /\ s.node = SymbolAt(ts, id).node
      BY <1>1, <1>4
<1>6. Marks(ts, ws, id) /\ SameHeads(ts, ws)
      <2>1. SymbolAt(ws, id) = s /\ SameHeads(ts, ws)
            BY <1>5, OneSymbol
      <2>2. SameNodes(ts, ws)
            BY <1>5, OneSymbol
      <2>3. ASSUME NEW j, Valid(ts, j), IsPair(j), j # id
            PROVE  SameCount(SymbolAt(ts, j), SymbolAt(ws, j))
            <3>1. SymbolAt(ws, j) = SymbolAt(ts, j)
                  BY <1>5, <2>3, OneSymbol
            <3>2. QED
                  BY <3>1 DEF SameCount
      <2>4. QED
            BY <1>1, <1>4, <2>1, <2>2, <2>3 DEF Marks
<1>7. QED
      BY <1>2, <1>6

(* A parameter that append_symbol_param counts.                            *)
LEMMA OwnerCounts ==
  ASSUME NEW ts, AllFull(ts), GoodTables(ts), NEW id, id = Owner, Valid(ts, id), IsPair(id),
         ~OwnerInfo.params_inserted, NEW us, us = append_symbol_param(ts)
  PROVE  SameHeads(ts, us) /\ SameLengths(ts, us) /\ CountsIn(ts, us, id)
<1>1. PICK v : v = SymbolAt(ts, id).params + 1
      OBVIOUS
<1>2. PICK old, s, ws : /\ old = SymbolAt(ts, id)
                        /\ s = [old EXCEPT !.params = @ + 1, !.size = v]
                        /\ ws = WithSymbol(ts, id, s)
      OBVIOUS
<1>3. us = ws
      <2>1. ws = [ts EXCEPT ![id[1]].symbols[id[2]].params = @ + 1, ![id[1]].symbols[id[2]].size = v]
            BY ONLY <1>2 DEF WithSymbol, SymbolAt
      <2>2. append_symbol_param(ts) = ws
            BY <1>1, <2>1 DEF append_symbol_param
      <2>3. QED
            BY <2>2
<1>4. IsFull(old)
      <2>1. id[1] \in DOMAIN ts /\ id[2] \in 1..Len(ts[id[1]].symbols)
            BY DEF Valid
      <2>2. QED
            BY <1>2, <2>1 DEF AllFull, SymbolAt
<1>5. CountedOnce(old, s)
      BY <1>1, <1>2, <1>4 DEF IsFull, SymbolFields, CountedOnce
<1>6. ws = WithSymbol(ts, id, s) /\ s.node = SymbolAt(ts, id).node
      BY <1>1, <1>2, <1>5 DEF CountedOnce
<1>7. SymbolAt(ws, id) = s /\ SameHeads(ts, ws) /\ SameLengths(ts, ws)
      BY <1>6, OneSymbol
<1>8. SameNodes(ts, ws)
      BY <1>6, OneSymbol
<1>9. ASSUME NEW j, Valid(ts, j), IsPair(j), j # id
      PROVE  SameCount(SymbolAt(ts, j), SymbolAt(ws, j))
      <2>1. SymbolAt(ws, j) = SymbolAt(ts, j)
            BY <1>6, <1>9, OneSymbol
      <2>2. QED
            BY <2>1 DEF SameCount
<1>10. CountsIn(ts, ws, id)
       BY <1>2, <1>5, <1>7, <1>8, <1>9 DEF CountsIn
<1>11. QED
       BY <1>3, <1>7, <1>10

(* A symbol more.                                                          *)
LEMMA EntersCount ==
  ASSUME NEW ts, GoodTables(ts), NEW us, NEW p, NEW r, Enters(ts, us, p, r)
  PROVE  SameHeads(ts, us) /\ SameCounts(ts, us)
<1>1. <<>> \in DOMAIN ts /\ \A k \in 1..ts[<<>>].children : <<k>> \in DOMAIN ts
      BY RootTables DEF GoodTables, IsFamily
<1>2. SameHeads(ts, us)
      BY <1>1 DEF SameHeads, Enters
<1>3. PICK n : n = Len(ts[p].symbols)
      OBVIOUS
<1>4. /\ Valid(us, <<p, n + 1>>) /\ SymbolAt(us, <<p, n + 1>>) = r
      /\ \A id : Valid(ts, id) => Valid(us, id) /\ SymbolAt(us, id) = SymbolAt(ts, id)
      BY <1>3, EntersSymbols
<1>5. SameCounts(ts, us)
      BY <1>4 DEF SameCounts, SameCount
<1>6. QED
      BY <1>2, <1>5

(* One change after another.                                               *)
LEMMA CountsTwice ==
  ASSUME NEW ts, NEW ws, NEW us, \A j : Valid(ts, j) => Valid(ws, j),
         SameHeads(ts, ws), SameHeads(ws, us), SameCounts(ws, us)
  PROVE  /\ SameHeads(ts, us)
         /\ SameCounts(ts, ws) => SameCounts(ts, us)
         /\ \A id : Valid(ts, id) /\ CountsIn(ts, ws, id) => CountsIn(ts, us, id)
<1>1. SameHeads(ts, us)
      BY DEF SameHeads
<1>2. ASSUME NEW j, Valid(ts, j) PROVE SameCount(SymbolAt(ws, j), SymbolAt(us, j))
      BY <1>2 DEF SameCounts
<1>3. ASSUME NEW j, Valid(ts, j), SameCount(SymbolAt(ts, j), SymbolAt(ws, j))
      PROVE  SameCount(SymbolAt(ts, j), SymbolAt(us, j))
      BY <1>2, <1>3 DEF SameCount
<1>4. SameCounts(ts, ws) => SameCounts(ts, us)
      BY <1>3 DEF SameCounts
<1>5. ASSUME NEW id, Valid(ts, id), CountsIn(ts, ws, id) PROVE CountsIn(ts, us, id)
      <2>1. CountedOnce(SymbolAt(ts, id), SymbolAt(ws, id)) /\ SameNodes(ts, ws)
            BY <1>5 DEF CountsIn
      <2>2. CountedOnce(SymbolAt(ts, id), SymbolAt(us, id))
            BY <1>2, <1>5, <2>1 DEF CountedOnce, SameCount
      <2>3. SameNodes(ws, us)
            BY CountsNodes
      <2>4. SameNodes(ts, us)
            BY <2>1, <2>3 DEF SameNodes
      <2>5. QED
            BY <1>3, <1>5, <2>2, <2>4 DEF CountsIn
<1>6. QED
      BY <1>1, <1>4, <1>5
-----------------------------------------------------------------------------
(* The steps that count nothing.                                           *)

(* What is counted before a step and after it.                             *)
Counts     == PInv(Done(walk), tables, symbol)
CountsNext == PInv(DoneNext, tables', symbol')

(* What does not change counts the same.                                   *)
LEMMA NothingSame ==
  ASSUME NEW ts
  PROVE  SameHeads(ts, ts) /\ SameCounts(ts, ts) /\ SameLengths(ts, ts)
<1>1. SameHeads(ts, ts) /\ SameLengths(ts, ts)
      BY DEF SameHeads, SameLengths
<1>2. \A s : SameCount(s, s)
      BY DEF SameCount
<1>3. QED
      BY <1>1, <1>2 DEF SameCounts

(* A step at an item where nothing is counted.                             *)
LEMMA CountlessStep ==
  ASSUME Going, NEW T, Holds(T), Counts, Quiet(Head(walk)),
         NEW us, us = tables', SameHeads(tables, us), SameCounts(tables, us), SameLengths(tables, us),
         NEW sz, sz = symbol', SameTies(symbol, sz)
  PROVE  CountsNext
<1>1. PICK d, h, e, ts, p, sy, ta :
        /\ d = Done(walk) /\ h = Head(walk) /\ e = DoneNext /\ ts = tables /\ p = currenttable
        /\ sy = symbol /\ ta = typearray
      OBVIOUS
<1>2. /\ Tidy(tree) /\ Quiet(h) /\ e = d \cup ({h} \cap Visits)
      /\ SInv(T, d, ts, p, sy, ta) /\ PInv(d, ts, sy)
      BY <1>1 DEF Going, DoneNext, Holds, Counts
<1>3. SameHeads(ts, us) /\ SameCounts(ts, us) /\ SameLengths(ts, us) /\ SameTies(sy, sz)
      BY <1>1
<1>4. PInv(e, us, sz)
      BY <1>2, <1>3, NothingCounted
<1>5. QED
      BY <1>1, <1>4 DEF CountsNext

(* Where the tables and symbols stay as they are.                          *)
LEMMA IdleStep ==
  ASSUME Going, NEW T, Holds(T), Counts, Quiet(Head(walk)), tables' = tables, symbol' = symbol
  PROVE  CountsNext
<1>1. PICK us, sz : us = tables' /\ sz = symbol'
      OBVIOUS
<1>2. SameHeads(tables, us) /\ SameCounts(tables, us) /\ SameLengths(tables, us)
      BY <1>1, NothingSame
<1>3. SameTies(symbol, sz)
      BY <1>1 DEF SameTies
<1>4. QED
      BY <1>1, <1>2, <1>3, CountlessStep

(* Nothing is counted where a node is entered,                             *)
LEMMA QuietEnter ==
  ASSUME NEW n, NEW h, h = Enter(n)
  PROVE  Quiet(h)
<1>1. QED
      BY VisitsDiffer DEF Quiet

(* in the middle of one that is no declarator and declares nothing,        *)
LEMMA QuietMiddle ==
  ASSUME NEW n, n \notin Declarators, n \in Identifiers => ~IsDeclared(n), NEW h, h = Middle(n)
  PROVE  Quiet(h)
<1>1. \A g \in Declarators : h # Middle(g) /\ h # Leave(g)
      BY VisitsDiffer
<1>2. \A x \in Identifiers : IsDeclared(x) => h # Middle(x)
      BY VisitsDiffer
<1>3. QED
      BY <1>1, <1>2 DEF Quiet

(* and at the end of one that is no declarator.                            *)
LEMMA QuietLeave ==
  ASSUME NEW n, n \notin Declarators, NEW h, h = Leave(n)
  PROVE  Quiet(h)
<1>1. QED
      BY VisitsDiffer DEF Quiet

(* So nothing is where nothing is opened, tied or left.                    *)
LEMMA IdleSteps ==
  ASSUME Going, NEW T, Holds(T), Counts,
         \/ EnterNull \/ EnterNode \/ SetType \/ CountPointer \/ MiddleOther
         \/ LeaveDeclaration \/ LeavePointer \/ LeaveOther \/ LeaveBlock
  PROVE  CountsNext
<1>1. CASE EnterNull \/ EnterNode
      <2>1. walk # <<>> /\ Head(walk).do = "enter" /\ tables' = tables /\ symbol' = symbol
            BY <1>1 DEF EnterNull, EnterNode, Doing
      <2>2. Head(walk) = Enter(Here)
            BY <2>1, AtTime DEF Going
      <2>3. Quiet(Head(walk))
            BY <2>2, QuietEnter
      <2>4. QED
            BY <2>1, <2>3, IdleStep
<1>2. CASE SetType \/ CountPointer \/ MiddleOther
      <2>1. walk # <<>> /\ Head(walk).do = "middle" /\ tables' = tables /\ symbol' = symbol
            BY <1>2 DEF SetType, CountPointer, MiddleOther, Doing
      <2>2. Head(walk) = Middle(Here) /\ Tidy(tree)
            BY <2>1, AtTime DEF Going
      <2>3. At[Here].type # "IDENTIFIER" /\ Here \notin Declarators
            <3>1. CASE SetType
                  <4>1. At[Here].type = "TYPE"
                        BY <3>1 DEF SetType
                  <4>2. QED
                        BY <2>2, <4>1, DeclaratorFacts
            <3>2. CASE CountPointer
                  <4>1. At[Here].type = "UNARY_OP"
                        BY <3>2 DEF CountPointer, IsPointer
                  <4>2. QED
                        BY <2>2, <4>1, DeclaratorFacts
            <3>3. CASE MiddleOther
                  <4>1. At[Here].type # "IDENTIFIER" /\ At[Here].subtype # "FUNCTION_DECL"
                        BY <3>3 DEF MiddleOther, SubtypeIs
                  <4>2. QED
                        BY <2>2, <4>1, DeclaratorFacts
            <3>4. QED
                  BY <1>2, <3>1, <3>2, <3>3
      <2>4. Quiet(Head(walk))
            BY <2>2, <2>3, QuietMiddle DEF Identifiers
      <2>5. QED
            BY <2>1, <2>4, IdleStep
<1>3. CASE LeaveDeclaration \/ LeavePointer \/ LeaveOther \/ LeaveBlock
      <2>1. walk # <<>> /\ Head(walk).do = "leave" /\ tables' = tables /\ symbol' = symbol
            BY <1>3 DEF LeaveDeclaration, LeavePointer, LeaveOther, LeaveBlock, Doing
      <2>2. Head(walk) = Leave(Here) /\ Tidy(tree)
            BY <2>1, AtTime DEF Going
      <2>3. At[Here].subtype # "FUNCTION_DECL"
            BY <1>3 DEF LeaveDeclaration, LeavePointer, LeaveOther, LeaveBlock, SubtypeIs
      <2>4. Here \notin Declarators
            BY <2>3 DEF Declarators
      <2>5. Quiet(Head(walk))
            BY <2>2, <2>4, QuietLeave
      <2>6. QED
            BY <2>1, <2>5, IdleStep
<1>4. QED
      BY <1>1, <1>2, <1>3

(* A use is tied, which changes no declaration's symbol.                   *)
LEMMA UseCounts ==
  ASSUME Going, NEW T, Holds(T), Counts, Use
  PROVE  CountsNext
<1>1. /\ walk # <<>> /\ Head(walk).do = "middle" /\ tables' = tables /\ ~IsDeclared(Here)
      /\ At[Here].type = "IDENTIFIER"
      /\ symbol' = Put(symbol, Here, find_symbol(currenttable, At[Here].string_data))
      BY DEF Use, Doing
<1>2. PICK us, sz, sy, x, id : /\ us = tables' /\ sz = symbol' /\ sy = symbol /\ x = Here
                               /\ id = find_symbol(currenttable, At[Here].string_data)
      OBVIOUS
<1>3. Head(walk) = Middle(x) /\ Tidy(tree)
      BY <1>1, <1>2, AtTime DEF Going
<1>4. x \notin Declarators
      <2>1. At[x].type # "LIST"
            BY <1>1, <1>2
      <2>2. QED
            BY <1>3, <2>1, DeclaratorFacts
<1>5. Quiet(Head(walk))
      BY <1>1, <1>2, <1>3, <1>4, QuietMiddle
<1>6. SameHeads(tables, us) /\ SameCounts(tables, us) /\ SameLengths(tables, us)
      BY <1>1, <1>2, NothingSame
<1>7. sz = Put(sy, x, id) /\ ~IsDeclared(x)
      BY <1>1, <1>2
<1>8. SameTies(sy, sz)
      <2>1. ASSUME NEW y, y \in Identifiers, IsDeclared(y)
            PROVE  (y \in DOMAIN sz <=> y \in DOMAIN sy) /\ (y \in DOMAIN sy => sz[y] = sy[y])
            <3>1. y # x
                  BY <1>7, <2>1
            <3>2. QED
                  BY <1>7, <3>1 DEF Put
      <2>2. QED
            BY <2>1 DEF SameTies
<1>9. QED
      BY <1>2, <1>5, <1>6, <1>8, CountlessStep

(* A block is inside a definition, whose table is open there.              *)
LEMMA BlockInside ==
  ASSUME Tidy(tree), NEW d, NEW h, IsTime(d, h), NEW s \in Blocks, h = Enter(s),
         NEW T, NEW ts, NEW p, Shape(T, d, ts, p)
  PROVE  p # <<>>
<1>1. PICK D \in Definitions : IsWithin(s, Right(D))
      BY BlockFacts
<1>2. /\ D \in Functions /\ D \in Keys /\ s \in Keys /\ D \in Seq(Steps) /\ s \in Seq(Steps)
      BY DefinitionFacts, BlockFacts DEF Keys
<1>3. IsWithin(s, D)
      <2>1. Right(D) \in Seq(Steps) /\ AtOrBelow(s, Right(D))
            BY <1>1, <1>2, BelowChildren, BelowOrder
      <2>2. AtOrBelow(s, D)
            BY <1>2, <2>1, BelowChild
      <2>3. s # D
            BY <1>2, DefinitionFacts
      <2>4. QED
            BY <1>2, <2>2, <2>3, BelowOrder
<1>4. /\ Past(Opener(D), Opener(s)) /\ Past(Closer(s), Closer(D)) /\ Past(Opener(s), Closer(s))
      /\ Opener(D) \in Visits /\ Opener(s) \in Visits /\ Closer(D) \in Visits /\ Closer(s) \in Visits
      /\ Opener(s) = h
      BY <1>2, <1>3, KeysOrder, KeyTimes
<1>5. OnPath(Opener(D)) /\ OnPath(h) /\ OnPath(Closer(D)) /\ OnPath(Closer(s))
      BY <1>4, VisitFacts
<1>6. Past(h, Closer(D))
      BY <1>4, <1>5, PastTransitive
<1>7. ~Past(Closer(D), h)
      BY <1>5, <1>6, PastAsymmetric
<1>8. IsOpen(d, D)
      BY <1>2, <1>4, <1>7 DEF IsOpen, IsTime
<1>9. Len(T[D]) = 1 /\ Len(T[D]) <= Len(p)
      <2>1. D \in Keyed(d)
            BY <1>8, OpenKeyed
      <2>2. QED
            BY <1>2, <1>8, <2>1 DEF Shape, Mapped, Nested
<1>10. Len(<<>>) = 0
       OBVIOUS
<1>11. QED
       BY <1>9, <1>10

(* Its table is no function's.                                             *)
LEMMA BlockCounts ==
  ASSUME Going, NEW T, Holds(T), Counts, EnterBlock
  PROVE  CountsNext
<1>1. /\ walk # <<>> /\ Head(walk).do = "enter" /\ ~IsNull(Here) /\ IsInnerBlock(Here)
      /\ symbol' = symbol
      BY DEF EnterBlock, Doing, types
<1>2. PICK d, h, ts, p, sy, ta, s, name, us, q, sz :
        /\ d = Done(walk) /\ h = Head(walk) /\ ts = tables /\ p = currenttable /\ sz = symbol'
        /\ sy = symbol /\ ta = typearray /\ s = Here /\ name = NoName /\ us = tables' /\ q = currenttable'
      OBVIOUS
<1>3. /\ Tidy(tree) /\ IsTime(d, h) /\ h = Enter(s) /\ s \in Blocks
      /\ SInv(T, d, ts, p, sy, ta) /\ GoodTables(ts)
      BY <1>1, <1>2, AtTime, AtNode DEF Going, Holds
<1>4. p \in DOMAIN ts /\ p # <<>>
      BY <1>3, InvariantFull, BlockInside DEF SInv
<1>5. AddTable(NewTable(name, NoSymbol))
      BY <1>2 DEF EnterBlock
<1>6. Adds(ts, p, name, NoSymbol, us, q)
      BY <1>2, <1>3, <1>4, <1>5, AddingTable
<1>7. Keeping(ts, us, q) /\ RootCount(ts, p, us)
      BY <1>3, <1>4, <1>6, AddedKeeps DEF IsRef
<1>8. SameCounts(ts, us)
      BY <1>7, KeepingCounts DEF SameCounts
<1>9. SameHeads(ts, us) /\ SameLengths(ts, us)
      <2>1. \A k \in 1..ts[<<>>].children : <<k>> \in DOMAIN ts
            BY <1>3, RootTables
      <2>2. us[<<>>].children = ts[<<>>].children
            BY <1>4, <1>7 DEF RootCount
      <2>3. \A k \in 1..ts[<<>>].children :
              us[<<k>>].tablefor = ts[<<k>>].tablefor /\ us[<<k>>].symbols = ts[<<k>>].symbols
            BY <1>7, <2>1 DEF Keeping
      <2>4. QED
            BY <2>2, <2>3 DEF SameHeads, SameLengths
<1>10. SameTies(sy, sz)
       BY <1>1, <1>2 DEF SameTies
<1>11. Quiet(Head(walk))
       BY <1>2, <1>3, QuietEnter
<1>12. SameHeads(tables, us) /\ SameCounts(tables, us) /\ SameLengths(tables, us) /\ SameTies(symbol, sz)
       BY <1>2, <1>8, <1>9, <1>10
<1>13. QED
       BY <1>2, <1>11, <1>12, CountlessStep
-----------------------------------------------------------------------------
(* What is counted in the middle and at the end of a declarator.           *)

(* The walk is at a declarator.                                            *)
LEMMA AtDeclarator ==
  ASSUME Going, walk # <<>>, At[Here].subtype = "FUNCTION_DECL",
         Head(walk).do = "middle" \/ Head(walk).do = "leave"
  PROVE  /\ Here \in Declarators /\ IsTurn(Here, Head(walk), Done(walk), DoneNext)
         /\ Head(walk).do = "middle" => Head(walk) = Middle(Here)
         /\ Head(walk).do = "leave"  => Head(walk) = Leave(Here)
<1>1. Linked(walk) /\ Head(walk).do # "enter"
      BY DEF Going
<1>2. IsTime(Done(walk), Head(walk)) /\ Here \in Declarators
      BY <1>1, AtTime, AtNode
<1>3. /\ Head(walk).do = "middle" => Head(walk) = Middle(Here)
      /\ Head(walk).do = "leave"  => Head(walk) = Leave(Here)
      BY <1>1, AtTime
<1>4. Head(walk) = Middle(Here) \/ Head(walk) = Leave(Here)
      BY <1>3
<1>5. DoneNext = Done(walk) \cup ({Head(walk)} \cap Visits)
      BY DEF DoneNext
<1>6. IsTurn(Here, Head(walk), Done(walk), DoneNext)
      BY <1>2, <1>4, <1>5 DEF IsTurn
<1>7. QED
      BY <1>2, <1>3, <1>6

(* The name of a declarator has a symbol that a table can be for.          *)
LEMMA NameSymbol ==
  ASSUME Tidy(tree), NEW d, NEW g \in Declarators, IsTime(d, Middle(g)),
         NEW T, NEW ts, NEW p, NEW sy, NEW ta, SInv(T, d, ts, p, sy, ta)
  PROVE  IsRef(ts, sy[Left(g)])
<1>1. IdsDone(d, sy) /\ Scoped(T, d, ts, sy)
      BY DEF SInv, Entered
<1>2. Left(g) \in Decl(sy)
      BY <1>1, NameDone
<1>3. Valid(ts, sy[Left(g)])
      BY <1>1, <1>2 DEF Scoped
<1>4. QED
      BY <1>3 DEF IsRef

(* In the middle a table is made or found.                                 *)
LEMMA FunctionCounts ==
  ASSUME Going, NEW T, Holds(T), Counts, OpenFunction
  PROVE  CountsNext
<1>1. /\ walk # <<>> /\ Head(walk).do = "middle" /\ At[Here].subtype = "FUNCTION_DECL"
      /\ symbol' = symbol
      BY DEF OpenFunction, Doing, SubtypeIs
<1>2. PICK d, h, e, ts, p, sy, ta, g, us, q :
        /\ d = Done(walk) /\ h = Head(walk) /\ e = DoneNext /\ ts = tables /\ p = currenttable
        /\ sy = symbol /\ ta = typearray /\ g = Here /\ us = tables' /\ q = currenttable'
      OBVIOUS
<1>3. /\ Tidy(tree) /\ IsTurn(g, h, d, e) /\ h = Middle(g) /\ g \in Declarators
      /\ IsTime(d, Middle(g)) /\ SInv(T, d, ts, p, sy, ta) /\ GoodTables(ts) /\ PInv(d, ts, sy)
      <2>1. Tidy(tree) /\ GoodTables(ts) /\ SInv(T, d, ts, p, sy, ta) /\ PInv(d, ts, sy)
            BY <1>1, <1>2, AtNode DEF Going, Holds, Counts
      <2>2. IsTurn(g, h, d, e) /\ h = Middle(g)
            BY <1>1, <1>2, AtDeclarator
      <2>3. QED
            BY <2>1, <2>2 DEF IsTurn
<1>4. p = <<>> /\ p \in DOMAIN ts
      BY <1>3, NothingOpen, InvariantFull DEF SInv
<1>5. PICK name, id, N, c : /\ name = At[Left(g)].string_data /\ id = sy[Left(g)] /\ N = TablesOf(name)
                            /\ c = ts[<<>>].children
      OBVIOUS
<1>6. N = {i \in 1..c : ts[<<i>>].name = name}
      BY <1>2, <1>5 DEF TablesOf
<1>7. CASE N = {}
      <2>1. AddTable(NewTable(name, id))
            BY <1>2, <1>5, <1>7 DEF OpenFunction
      <2>2. Adds(tables, currenttable, name, id, tables', currenttable')
            BY <1>2, <1>3, <1>4, <2>1, AddingTable
      <2>3. Adds(ts, p, name, id, us, q)
            BY <1>2, <2>2
      <2>4. IsRef(ts, id)
            BY <1>3, <1>5, NameSymbol
      <2>5. Keeping(ts, us, q) /\ us[q] = NewTable(name, id) /\ RootCount(ts, p, us)
            BY <1>3, <1>4, <2>3, <2>4, AddedKeeps
      <2>6. us[<<>>].children = c + 1 /\ us[q].tablefor = id
            BY <1>4, <1>5, <2>5 DEF RootCount, NewTable
      <2>7. q = <<c + 1>>
            <3>1. q = Append(<<>>, c + 1)
                  BY <1>4, <1>5, <2>3 DEF Adds
            <3>2. QED
                  BY <3>1
      <2>8. \A k \in 1..ts[<<>>].children : ts[<<k>>].name # At[Left(g)].string_data
            BY <1>5, <1>6, <1>7
      <2>9. MakesTable(g, sy, ts, us, q)
            BY <1>5, <2>5, <2>6, <2>7, <2>8 DEF MakesTable
      <2>10. PInv(e, us, sy)
             BY <1>3, <2>9, OpenCounts
      <2>11. QED
             BY <1>1, <1>2, <2>10 DEF CountsNext
<1>8. CASE N # {}
      <2>1. us = ts
            BY <1>2, <1>5, <1>8 DEF OpenFunction
      <2>2. PICK k : k \in 1..ts[<<>>].children /\ ts[<<k>>].name = At[Left(g)].string_data
            BY <1>5, <1>6, <1>8
      <2>3. PInv(e, ts, sy)
            BY <1>3, <2>2, FoundCounts
      <2>4. QED
            BY <1>1, <1>2, <2>1, <2>3 DEF CountsNext
<1>9. QED
      BY <1>7, <1>8

(* The table of the function is open at the end of its declarator, and no  *)
(* other is.                                                               *)
LEMMA OpenAtEnd ==
  ASSUME Tidy(tree), NEW d, NEW g \in Declarators, IsTime(d, Leave(g)), NEW s, s = Region[g]
  PROVE  /\ s \in Functions /\ IsOpen(d, s)
         /\ \A t : IsOpen(d, t) => t = <<>> \/ t = s
<1>1. PICK h : h = Leave(g)
      OBVIOUS
<1>2. /\ s \in Functions /\ s \in Keys /\ s \in Seq(Steps) /\ Header(s) = g /\ AtOrBelow(g, s)
      /\ g \in Seq(Steps) /\ IsNode(g) /\ h.n = g /\ OnPath(h) /\ h \in Visits /\ IsTime(d, h)
      <2>1. s \in Functions
            BY DEF Functions
      <2>2. s \in Keys /\ s \in Seq(Steps) /\ Header(s) = g /\ AtOrBelow(g, s)
            BY <2>1, FunctionFacts
      <2>3. g \in Seq(Steps) /\ IsNode(g)
            BY DeclaratorFacts
      <2>4. h.n = g /\ h \in Visits
            BY <1>1, <2>3, NodeVisits, CodeAfter
      <2>5. OnPath(h) /\ IsTime(d, h)
            BY <1>1, <2>4, VisitFacts
      <2>6. QED
            BY <2>1, <2>2, <2>3, <2>4, <2>5
<1>3. /\ Opener(s) = Middle(g) /\ Opener(s) \in Visits /\ Closer(s) \in Visits
      /\ OnPath(Opener(s)) /\ OnPath(Closer(s))
      <2>1. Opener(s) \in Visits /\ Closer(s) \in Visits
            BY <1>2, KeyTimes
      <2>2. s \notin Blocks
            BY <1>2, FunctionFacts
      <2>3. QED
            BY <1>2, <2>1, <2>2, VisitFacts DEF Opener
<1>4. Past(Opener(s), h)
      BY <1>1, <1>2, <1>3, PastAtNode
<1>5. ~Past(Closer(s), h)
      <2>1. CASE s \in Definitions
            <3>1. Closer(s) = Leave(Right(s)) /\ AtOrBelow(g, Left(s))
                  BY <1>2, <2>1, DefinitionFacts, KeyTimes
            <3>2. /\ Left(s) \in Seq(Steps) /\ Right(s) \in Seq(Steps) /\ AtOrBelow(Right(s), Right(s))
                  /\ Leave(Right(s)).n = Right(s)
                  BY <1>2, BelowChildren, BelowOrder, CodeAfter
            <3>3. Code(h, Len(s) + 1) = 1 /\ Code(Closer(s), Len(s) + 1) = 3
                  <4>1. /\ \A v : OnPath(v) /\ AtOrBelow(v.n, Left(s))  => Code(v, Len(s) + 1) = 1
                        /\ \A v : OnPath(v) /\ AtOrBelow(v.n, Right(s)) => Code(v, Len(s) + 1) = 3
                        BY <1>2, CodeAfter
                  <4>2. AtOrBelow(h.n, Left(s)) /\ AtOrBelow(Closer(s).n, Right(s))
                        BY <1>2, <3>1, <3>2
                  <4>3. QED
                        BY <1>2, <1>3, <4>1, <4>2
            <3>4. AtOrBelow(Right(s), s)
                  BY <1>2, <3>2, BelowChild
            <3>5. Past(h, Closer(s))
                  BY <1>2, <1>3, <3>1, <3>2, <3>3, <3>4, PastFrom
            <3>6. QED
                  BY <1>2, <1>3, <3>5, PastAsymmetric
      <2>2. CASE s \notin Definitions
            <3>1. Closer(s) = h
                  <4>1. s = g
                        BY <1>2, <2>2, FunctionFacts
                  <4>2. QED
                        BY <1>1, <2>2, <4>1 DEF Closer
            <3>2. QED
                  BY <1>2, <3>1, PastIrreflexive
      <2>3. QED
            BY <2>1, <2>2
<1>6. IsOpen(d, s)
      BY <1>2, <1>3, <1>4, <1>5 DEF IsOpen, IsTime
<1>7. ASSUME NEW t \in Keys, IsOpen(d, t) PROVE t = s
      <2>1. /\ t \in Seq(Steps) /\ t # <<>> /\ IsNode(t) /\ Opener(t) \in Visits /\ Closer(t) \in Visits
            /\ AtOrBelow(Opener(t).n, t) /\ AtOrBelow(Closer(t).n, t)
            /\ OnPath(Opener(t)) /\ OnPath(Closer(t))
            BY KeyFacts, KeyTimes, VisitFacts
      <2>2. Past(Opener(t), h) /\ ~Past(Closer(t), h)
            BY <1>2, <1>7, <2>1 DEF IsOpen, IsTime
      <2>3. AtOrBelow(g, g)
            BY <1>2, BelowOrder
      <2>4. ~Before(t, g)
            BY <1>2, <2>1, <2>2, <2>3, PastBefore
      <2>5. ~Before(g, t)
            <3>1. Before(g, t) => Past(h, Opener(t))
                  BY <1>2, <2>1, <2>3, PastBefore
            <3>2. QED
                  BY <1>2, <2>1, <2>2, <3>1, PastAsymmetric
      <2>6. AtOrBelow(g, t) \/ AtOrBelow(t, g)
            BY <1>2, <2>1, <2>4, <2>5, Apart
      <2>7. CASE t \in Functions
            <3>1. /\ Header(t) \in Declarators /\ AtOrBelow(Header(t), t) /\ Region[Header(t)] = t
                  /\ Header(t) \in Seq(Steps)
                  /\ \A f \in Declarators : AtOrBelow(f, t) => f = Header(t)
                  BY <2>7, FunctionFacts, DeclaratorFacts
            <3>2. AtOrBelow(t, g) => Header(t) = g
                  BY <1>2, <2>1, <3>1, BelowOrder, DeclaratorFacts
            <3>3. Header(t) = g
                  BY <2>6, <3>1, <3>2
            <3>4. QED
                  BY <3>1, <3>3
      <2>8. CASE t \in Blocks
            <3>1. /\ At[t].subtype = "LIST_BLOCK" /\ At[g].subtype = "FUNCTION_DECL"
                  /\ ~Below(g, "LIST_BLOCK")
                  BY <2>8, BlockFacts, DeclaratorFacts
            <3>2. ~AtOrBelow(g, t)
                  <4>1. IsWithin(g, t) => Below(g, "LIST_BLOCK")
                        BY <1>2, <2>1, <3>1, BelowNode
                  <4>2. g # t
                        BY <3>1
                  <4>3. QED
                        BY <1>2, <2>1, <3>1, <4>1, <4>2, BelowOrder
            <3>3. AtOrBelow(t, g)
                  BY <2>6, <3>2
            <3>4. PICK D \in Definitions : IsWithin(t, Right(D))
                  BY <2>8, BlockFacts
            <3>5. /\ D \in Seq(Steps) /\ IsNode(D) /\ At[D].subtype = "FUNCTION_DEF"
                  /\ AtOrBelow(Header(D), Left(D)) /\ Header(D) \in Declarators
                  /\ \A f \in Declarators : AtOrBelow(f, D) => f = Header(D)
                  BY DefinitionFacts
            <3>6. /\ Right(D) \in Seq(Steps) /\ AtOrBelow(t, Right(D)) /\ AtOrBelow(t, D)
                  BY <2>1, <3>4, <3>5, BelowChildren, BelowOrder, BelowChild
            <3>7. AtOrBelow(g, D) \/ AtOrBelow(D, g)
                  BY <1>2, <2>1, <3>3, <3>5, <3>6, AboveOne
            <3>8. CASE AtOrBelow(g, D)
                  <4>1. AtOrBelow(g, Left(D))
                        BY <3>5, <3>8
                  <4>2. AtOrBelow(t, Left(D))
                        BY <1>2, <2>1, <3>3, <3>5, <4>1, BelowChildren, BelowOrder
                  <4>3. QED
                        BY <2>1, <3>5, <3>6, <4>2, BelowChildren
            <3>9. CASE AtOrBelow(D, g)
                  <4>1. D # g
                        BY <3>1, <3>5
                  <4>2. IsWithin(D, g)
                        BY <1>2, <3>5, <3>9, <4>1, BelowOrder
                  <4>3. Below(D, "FUNCTION_DECL")
                        BY <1>2, <3>1, <3>5, <4>2, BelowNode
                  <4>4. ~Below(D, "FUNCTION_DECL")
                        BY <3>5, TidyNode
                  <4>5. QED
                        BY <4>3, <4>4
            <3>10. QED
                   BY <3>7, <3>8, <3>9
      <2>9. QED
            BY <2>7, <2>8 DEF Keys
<1>8. QED
      BY <1>2, <1>6, <1>7 DEF IsOpen

(* So the table of the moment is the function's.                           *)
LEMMA TableAtEnd ==
  ASSUME Tidy(tree), NEW d, NEW g \in Declarators, IsTime(d, Leave(g)), NEW s, s = Region[g],
         NEW T, NEW ts, NEW p, GoodTables(ts), Shape(T, d, ts, p)
  PROVE  s \in Keyed(d) /\ T[s] = p
<1>1. Mapped(T, d, ts) /\ Nested(T, d, p) /\ p \in DOMAIN ts /\ T[<<>>] = <<>>
      BY DEF Shape, Mapped
<1>2. /\ s \in Functions /\ IsOpen(d, s) /\ s \in Keyed(d)
      /\ \A t : IsOpen(d, t) => t = <<>> \/ t = s
      BY OpenAtEnd, OpenKeyed
<1>3. Len(T[s]) = 1 /\ Len(T[s]) <= Len(p) /\ SubSeq(p, 1, Len(T[s])) = T[s]
      BY <1>1, <1>2 DEF Mapped, Nested
<1>4. p \in Seq(Numbers) /\ Len(p) \in Nat
      BY <1>1, TablePath
<1>5. PICK t : IsOpen(d, t) /\ Len(T[t]) = Len(p)
      <2>1. Len(p) \in 0..Len(p)
            BY <1>4
      <2>2. QED
            BY <1>1, <2>1 DEF Nested
<1>6. Len(p) = 1
      <2>1. Len(<<>>) = 0
            OBVIOUS
      <2>2. Len(p) = 0 \/ Len(p) = 1
            BY <1>1, <1>2, <1>3, <1>5, <2>1
      <2>3. QED
            BY <1>3, <1>4, <2>2
<1>7. SubSeq(p, 1, Len(p)) = p
      BY <1>4, SubSeqFull
<1>8. QED
      BY <1>2, <1>3, <1>6, <1>7

(* At the end of a declarator its parameters have been counted.            *)
LEMMA EndCounts ==
  ASSUME Going, NEW T, Holds(T), Counts, CloseFunction
  PROVE  CountsNext
<1>1. /\ walk # <<>> /\ Head(walk).do = "leave" /\ At[Here].subtype = "FUNCTION_DECL"
      /\ symbol' = symbol
      BY DEF CloseFunction, Doing, SubtypeIs
<1>2. PICK d, h, e, ts, p, sy, ta, g, us, id :
        /\ d = Done(walk) /\ h = Head(walk) /\ e = DoneNext /\ ts = tables /\ p = currenttable
        /\ sy = symbol /\ ta = typearray /\ g = Here /\ us = tables' /\ id = Owner
      OBVIOUS
<1>3. /\ Tidy(tree) /\ IsTurn(g, h, d, e) /\ h = Leave(g) /\ g \in Declarators
      /\ IsTime(d, Leave(g)) /\ SInv(T, d, ts, p, sy, ta) /\ GoodTables(ts) /\ PInv(d, ts, sy)
      <2>1. Tidy(tree) /\ GoodTables(ts) /\ SInv(T, d, ts, p, sy, ta) /\ PInv(d, ts, sy)
            BY <1>1, <1>2, AtNode DEF Going, Holds, Counts
      <2>2. IsTurn(g, h, d, e) /\ h = Leave(g)
            BY <1>1, <1>2, AtDeclarator
      <2>3. QED
            BY <2>1, <2>2 DEF IsTurn
<1>4. PICK s : s = Region[g]
      OBVIOUS
<1>5. s \in Functions /\ s \in Keyed(d) /\ T[s] = p /\ Header(s) = g
      <2>1. Shape(T, d, ts, p)
            BY <1>3 DEF SInv
      <2>2. s \in Functions
            BY <1>3, <1>4 DEF Functions
      <2>3. Header(s) = g
            BY <1>3, <1>4, <2>2, FunctionFacts
      <2>4. s \in Keyed(d) /\ T[s] = p
            BY <1>3, <1>4, <2>1, TableAtEnd
      <2>5. QED
            BY <2>2, <2>3, <2>4
<1>6. id = ts[T[s]].tablefor
      BY <1>2, <1>5 DEF Owner
<1>7. /\ id # NoSymbol /\ Valid(ts, id) /\ id = sy[Left(g)]
      /\ SymbolAt(ts, id).funcinfo.declnode # <<>>
      BY <1>3, <1>5, <1>6, FunctionSymbol
<1>8. OwnerInfo # NoFuncinfo
      BY <1>2, <1>7 DEF OwnerInfo, NoFuncinfo
<1>9. us = [ts EXCEPT ![id[1]].symbols[id[2]].funcinfo.params_inserted = TRUE]
      BY <1>2, <1>8 DEF CloseFunction
<1>10. IsPair(id)
       <2>1. Owners(T, d, ts, sy) /\ Scoped(T, d, ts, sy)
             BY <1>3 DEF SInv, Entered
       <2>2. Left(g) \in Decl(sy)
             BY <1>5, <2>1 DEF Owners
       <2>3. id = <<T[ScopeOf(Left(g))], id[2]>>
             BY <1>7, <2>1, <2>2 DEF Scoped
       <2>4. QED
             BY <2>3 DEF IsPair
<1>11. AllFull(ts)
       BY <1>3, InvariantFull
<1>12. SameHeads(ts, us) /\ Marks(ts, us, id)
       BY <1>3, <1>7, <1>9, <1>10, <1>11, FlagMarks
<1>13. PInv(e, us, sy)
       BY <1>3, <1>7, <1>12, LeftCounts
<1>14. QED
       BY <1>1, <1>2, <1>13 DEF CountsNext
-----------------------------------------------------------------------------
(* What is counted when an identifier is declared.                         *)

(* x is no parameter of a declarator that made the symbol of its function. *)
Unowned(x, ts, sy) == \A f \in Declarators : IsFirst(f, ts, sy) => ~AtOrBelow(x, Right(f))

(* What is not a parameter is none of these.                               *)
LEMMA NameUnowned ==
  ASSUME Tidy(tree), NEW x \in Identifiers, ~IsParameter(x), NEW ts, NEW sy
  PROVE  Unowned(x, ts, sy)
<1>1. ASSUME NEW f \in Declarators, AtOrBelow(x, Right(f)) PROVE FALSE
      BY <1>1, RightParameter
<1>2. QED
      BY <1>1 DEF Unowned

(* The table of the moment is for the function whose parameters are        *)
(* declared.                                                               *)
LEMMA ParamOwner ==
  ASSUME Tidy(tree), NEW x, NEW d, NEW e, IsTie(x, d, e),
         NEW T, NEW ts, NEW p, NEW sy, NEW ta, SInv(T, d, ts, p, sy, ta), GoodTables(ts),
         NEW h \in Declarators, AtOrBelow(x, Right(h)), NEW o, o = ts[p].tablefor
  PROVE  /\ \E q \in Params(h) : x = h \o q
         /\ o = sy[Left(h)] /\ o # NoSymbol /\ Valid(ts, o) /\ IsPair(o) /\ Left(h) \in Decl(sy)
         /\ \E k \in 1..ts[<<>>].children : p = <<k>>
<1>1. x \in Identifiers /\ IsTime(d, Middle(x)) /\ Shape(T, d, ts, p)
      BY DEF IsTie, SInv
<1>2. PICK q \in Params(h) : x = h \o q
      BY <1>1, RightParameter
<1>3. PICK s : s = Region[h]
      OBVIOUS
<1>4. ScopeOf(x) = s
      BY <1>2, <1>3, ParamFacts
<1>5. s \in Keyed(d) /\ T[s] = p
      BY <1>1, <1>4, TopTable
<1>6. s \in Functions /\ Header(s) = h
      <2>1. s \in Functions
            BY <1>3 DEF Functions
      <2>2. QED
            BY <1>3, <2>1, FunctionFacts
<1>7. o = ts[T[s]].tablefor
      BY <1>5
<1>8. o # NoSymbol /\ Valid(ts, o) /\ o = sy[Left(h)]
      BY <1>5, <1>6, <1>7, FunctionSymbol
<1>9. Owners(T, d, ts, sy) /\ Scoped(T, d, ts, sy)
      BY DEF SInv, Entered
<1>10. Left(h) \in Decl(sy)
       BY <1>5, <1>6, <1>9 DEF Owners
<1>11. IsPair(o)
       <2>1. o = <<T[ScopeOf(Left(h))], o[2]>>
             BY <1>8, <1>9, <1>10 DEF Scoped
       <2>2. QED
             BY <2>1 DEF IsPair
<1>12. Len(p) = 1 /\ p \in DOMAIN ts
       BY <1>1, <1>5, <1>6 DEF Shape, Mapped
<1>13. p \in Seq(Numbers)
       BY <1>12, TablePath
<1>14. PICK k : k = p[1]
       OBVIOUS
<1>15. k \in Numbers /\ p = <<k>> /\ Append(<<>>, k) = <<k>>
       BY <1>12, <1>13, <1>14
<1>16. /\ <<>> \in DOMAIN ts /\ ts[<<>>].children \in Nat
       /\ Append(<<>>, k) \in DOMAIN ts <=> k <= ts[<<>>].children
       <2>1. /\ <<>> \in DOMAIN ts /\ \A r \in DOMAIN ts : ts[r].children \in Nat
             /\ \A r \in DOMAIN ts : \A j \in Numbers : Append(r, j) \in DOMAIN ts <=> j <= ts[r].children
             BY DEF GoodTables, IsFamily
       <2>2. QED
             BY <1>15, <2>1
<1>17. k \in 1..ts[<<>>].children
       <2>1. PICK c : c = ts[<<>>].children
             OBVIOUS
       <2>2. c \in Nat /\ k <= c /\ k \in Nat /\ k # 0
             BY <1>12, <1>15, <1>16, <2>1 DEF Numbers
       <2>3. k \in 1..c
             BY <2>2
       <2>4. QED
             BY <2>1, <2>3
<1>18. QED
       BY <1>2, <1>8, <1>10, <1>11, <1>15, <1>17

(* At a parameter of the declarator that made the symbol its flag is not   *)
(* set.                                                                    *)
LEMMA FirstOwner ==
  ASSUME Tidy(tree), NEW x, NEW d, NEW e, IsTie(x, d, e),
         NEW T, NEW ts, NEW p, NEW sy, NEW ta, SInv(T, d, ts, p, sy, ta), GoodTables(ts), PInv(d, ts, sy),
         NEW h \in Declarators, AtOrBelow(x, Right(h)), NEW o, o = ts[p].tablefor, IsFirst(h, ts, sy)
  PROVE  ~SymbolAt(ts, o).funcinfo.params_inserted
<1>1. o = sy[Left(h)]
      BY ParamOwner
<1>2. x \in Identifiers /\ IsTime(d, Middle(x))
      BY DEF IsTie
<1>3. Leave(h) \notin d
      BY <1>2, BetweenRight
<1>4. Sized(h, d, SymbolAt(ts, o))
      BY <1>1 DEF PInv, AllCounted, CountsFor
<1>5. QED
      BY <1>3, <1>4 DEF Sized

(* At a parameter of another declarator of the function it is set.         *)
LEMMA LaterOwner ==
  ASSUME Tidy(tree), NEW x, NEW d, NEW e, IsTie(x, d, e),
         NEW T, NEW ts, NEW p, NEW sy, NEW ta, SInv(T, d, ts, p, sy, ta), GoodTables(ts), PInv(d, ts, sy),
         NEW h \in Declarators, AtOrBelow(x, Right(h)), NEW o, o = ts[p].tablefor, ~IsFirst(h, ts, sy)
  PROVE  SymbolAt(ts, o).funcinfo.params_inserted /\ Unowned(x, ts, sy)
<1>1. o = sy[Left(h)] /\ Left(h) \in Decl(sy) /\ Valid(ts, o) /\ IsPair(o)
      BY ParamOwner
<1>2. /\ x \in Identifiers /\ IsTime(d, Middle(x)) /\ Kinds(ts, sy) /\ IdsDone(d, sy)
      /\ AllCounted(d, ts, sy)
      BY DEF IsTie, SInv, Entered, PInv
<1>3. PICK y : y = NodeOf(ts, o)
      OBVIOUS
<1>4. y \in Names
      <2>1. SameKind(Left(h), y)
            BY <1>1, <1>2, <1>3 DEF Kinds
      <2>2. QED
            BY <2>1 DEF SameKind, Names
<1>5. PICK g \in Declarators : y = Left(g)
      BY <1>4 DEF Names
<1>6. y \in Decl(sy) /\ sy[y] = o /\ Middle(y) \in d
      <2>1. PICK a, k : a = o[1] /\ k = o[2]
            OBVIOUS
      <2>2. o = <<a, k>>
            BY <1>1, <2>1 DEF IsPair
      <2>3. QED
            BY <1>1, <1>3, <2>2, SymbolNode
<1>7. g # h
      BY <1>1, <1>3, <1>5 DEF IsFirst, Decl
<1>8. IsFirst(g, ts, sy)
      BY <1>3, <1>5, <1>6 DEF IsFirst, Decl
<1>9. AtOrBelow(x, h) /\ \A f \in Declarators : AtOrBelow(x, f) => f = h
      <2>1. PICK q \in Params(h) : x = h \o q
            BY <1>2, RightParameter
      <2>2. \A f \in Declarators : AtOrBelow(x, f) => f = h
            BY <2>1, ParamFacts
      <2>3. x \in Seq(Steps) /\ h \in Seq(Steps)
            BY <1>2, IdentifierFacts, DeclaratorFacts
      <2>4. QED
            BY <2>2, <2>3, BelowChild
<1>10. Leave(g) \in d
       <2>1. AtOrBelow(Middle(x).n, h) /\ Middle(Left(g)) \in d
             BY <1>2, <1>5, <1>6, <1>9, IdentifierFacts
       <2>2. QED
             BY <1>2, <1>7, <2>1, OtherDone
<1>11. SymbolAt(ts, o).funcinfo.params_inserted
       <2>1. Sized(g, d, SymbolAt(ts, o))
             BY <1>2, <1>5, <1>6, <1>8 DEF AllCounted, CountsFor
       <2>2. QED
             BY <1>10, <2>1 DEF Sized
<1>12. Unowned(x, ts, sy)
       <2>1. ASSUME NEW f \in Declarators, IsFirst(f, ts, sy), AtOrBelow(x, Right(f)) PROVE FALSE
             <3>1. f \in Seq(Steps) /\ x \in Seq(Steps)
                   BY <1>2, IdentifierFacts, DeclaratorFacts
             <3>2. AtOrBelow(x, f)
                   BY <2>1, <3>1, BelowChild
             <3>3. QED
                   BY <1>9, <2>1, <3>2
       <2>2. QED
             BY <2>1 DEF Unowned
<1>13. QED
       BY <1>11, <1>12

(* A symbol that was there is not that of an identifier declared now.      *)
LEMMA OldNode ==
  ASSUME NEW T, NEW d, NEW ts, NEW p, NEW sy, NEW ta, SInv(T, d, ts, p, sy, ta),
         NEW q, NEW k, NEW id, id = <<q, k>>, Valid(ts, id), NEW x, x \notin DOMAIN sy
  PROVE  NodeOf(ts, id) # x
<1>1. NodeOf(ts, id) \in Decl(sy)
      BY SymbolNode
<1>2. QED
      BY <1>1 DEF Decl

(* A name that the table has.                                              *)
LEMMA KnownCounts ==
  ASSUME Going, NEW T, Holds(T), Counts, Declares, Known(Here) # {}, NEW ws, NEW id,
         id = <<currenttable, Least(Known(Here))>>, Tie(ws, id), Kept(tables, ws), GoodTables(ws),
         SameHeads(tables, ws), SameCounts(tables, ws), Unowned(Here, tables, symbol)
  PROVE  CountsNext
<1>1. /\ walk # <<>> /\ Head(walk).do = "middle" /\ At[Here].type = "IDENTIFIER"
      /\ IsDeclared(Here)
      BY DEF Declares, Doing
<1>2. PICK d, e, ts, p, sy, ta, x, us, sz, k :
        /\ d = Done(walk) /\ e = DoneNext /\ ts = tables /\ p = currenttable
        /\ sy = symbol /\ ta = typearray /\ x = Here /\ us = tables' /\ sz = symbol'
        /\ k = Least(Known(Here))
      OBVIOUS
<1>3. /\ Tidy(tree) /\ IsTie(x, d, e) /\ SInv(T, d, ts, p, sy, ta) /\ GoodTables(ts) /\ StateOK
      /\ IsDeclared(x) /\ id = <<p, k>> /\ PInv(d, ts, sy)
      BY <1>1, <1>2, AtIdentifier, AtNode DEF Going, Holds, Counts
<1>4. AllFull(ws) /\ Valid(ts, id)
      BY <1>2, <1>3, KeptFull, KnownTied
<1>5. us = add_array_dimensions(ws, id, x) /\ sz = Put(sy, x, id)
      BY <1>2 DEF Tie
<1>6. /\ Kept(ts, ws) /\ SameHeads(ts, ws) /\ SameCounts(ts, ws) /\ Unowned(x, ts, sy)
      BY <1>2
<1>7. Valid(ws, id) /\ IsPair(id) /\ \A j : Valid(ts, j) => Valid(ws, j)
      BY <1>3, <1>4, <1>6, KeptSymbol DEF IsPair
<1>8. SameHeads(ws, us) /\ SameCounts(ws, us)
      BY <1>4, <1>5, <1>7, DimensionsCount
<1>9. SameHeads(ts, us) /\ SameCounts(ts, us)
      BY <1>6, <1>7, <1>8, CountsTwice
<1>10. TiedTo(sy, sz, x, id)
       BY <1>3, <1>5, TiedRest
<1>11. NodeOf(us, id) # x
       <2>1. x \notin DOMAIN sy
             BY <1>10 DEF TiedTo
       <2>2. NodeOf(ts, id) # x
             BY <1>3, <1>4, <2>1, OldNode
       <2>3. NodeOf(us, id) = NodeOf(ts, id)
             BY <1>4, <1>9, CountsNodes DEF SameNodes
       <2>4. QED
             BY <2>2, <2>3
<1>12. PInv(e, us, sz)
       BY <1>3, <1>6, <1>9, <1>10, <1>11, IdentifierCounts DEF Unowned
<1>13. QED
       BY <1>2, <1>12 DEF CountsNext

(* The flag of a definition is set.                                        *)
LEMMA DefinedKept ==
  ASSUME NEW ts, AllFull(ts), GoodTables(ts), NEW id, Valid(ts, id),
         NEW us, us = [ts EXCEPT ![id[1]].symbols[id[2]].funcinfo.is_defined = TRUE]
  PROVE  Kept(ts, us) /\ GoodTables(us)
<1>1. PICK old, s, ws : /\ old = SymbolAt(ts, id)
                        /\ s = [old EXCEPT !.funcinfo = [@ EXCEPT !.is_defined = TRUE]]
                        /\ ws = WithSymbol(ts, id, s)
      OBVIOUS
<1>2. us = ws
      BY <1>1 DEF SymbolAt, WithSymbol
<1>3. IsFull(old) /\ IsSymbol(old)
      <2>1. id[1] \in DOMAIN ts /\ id[2] \in 1..Len(ts[id[1]].symbols)
            BY DEF Valid
      <2>2. IsFull(old)
            BY <1>1, <2>1 DEF AllFull, SymbolAt
      <2>3. IsSymbol(old)
            BY <1>1, RefSymbol
      <2>4. QED
            BY <2>2, <2>3
<1>4. SameSymbol(old, s)
      BY <1>1, <1>3 DEF IsFull, SameSymbol, SymbolFields, InfoFields
<1>5. IsSymbol(s)
      BY <1>1, <1>3 DEF IsSymbol
<1>6. Kept(ts, ws)
      BY <1>1, <1>4, KeptOne
<1>7. GoodTables(ws)
      BY <1>1, <1>5, SymbolPut
<1>8. QED
      BY <1>2, <1>6, <1>7

(* A function that is defined after its prototype.                         *)
LEMMA DefinitionCounts ==
  ASSUME Going, NEW T, Holds(T), Counts, DeclareDefinition
  PROVE  CountsNext
<1>1. /\ walk # <<>> /\ Head(walk).do = "middle" /\ At[Here].type = "IDENTIFIER" /\ Declares
      /\ IsDeclared(Here) /\ Known(Here) # {}
      BY DEF DeclareDefinition, Declaring, Declares, Doing
<1>2. PICK d, e, ts, p, sy, ta, x, k, id :
        /\ d = Done(walk) /\ e = DoneNext /\ ts = tables /\ p = currenttable
        /\ sy = symbol /\ ta = typearray /\ x = Here
        /\ k = Least(Known(Here)) /\ id = <<p, k>>
      OBVIOUS
<1>3. /\ Tidy(tree) /\ IsTie(x, d, e) /\ SInv(T, d, ts, p, sy, ta) /\ GoodTables(ts) /\ StateOK
      /\ IsDeclared(x)
      BY <1>1, <1>2, AtIdentifier, AtNode DEF Going, Holds
<1>4. p \in DOMAIN ts /\ AllFull(ts) /\ Valid(ts, id)
      BY <1>1, <1>2, <1>3, InvariantFull, KnownTied
<1>5. /\ Below(x, "FUNCTION_SPEC") /\ "FUNCTION" \in SymbolAt(ts, id).type
      /\ At[Parent(x)] = At[Parent(NodeOf(ts, id))]
      <2>1. Redefines(k)
            BY <1>2 DEF DeclareDefinition
      <2>2. QED
            BY <1>2, <2>1 DEF Redefines, SameFunction, compare_subtrees, SymbolAt, NodeOf
<1>6. x \in Names
      BY <1>3, <1>4, <1>5, <1>2, DefinitionAgain
<1>7. x \in Identifiers /\ ~IsParameter(x)
      BY <1>3, <1>6, ScopeFacts DEF IsTie
<1>8. Counted = tables
      BY <1>2, <1>7 DEF Counted
<1>9. PICK ws : ws = [ts EXCEPT ![id[1]].symbols[id[2]].funcinfo.is_defined = TRUE]
      OBVIOUS
<1>10. Tie(ws, id)
       <2>1. id[1] = currenttable /\ id[2] = k
             BY <1>2
       <2>2. ws = [Counted EXCEPT ![currenttable].symbols[k].funcinfo.is_defined = TRUE]
             BY <1>2, <1>8, <1>9, <2>1
       <2>3. QED
             BY <1>2, <2>2 DEF DeclareDefinition
<1>11. IsPair(id)
       BY <1>2 DEF IsPair
<1>12. SameHeads(ts, ws) /\ SameCounts(ts, ws)
       BY <1>3, <1>4, <1>9, <1>11, DefinedCount
<1>13. Kept(ts, ws) /\ GoodTables(ws)
       BY <1>3, <1>4, <1>9, DefinedKept
<1>14. Unowned(x, ts, sy)
       BY <1>3, <1>7, NameUnowned
<1>15. /\ id = <<currenttable, Least(Known(Here))>> /\ Kept(tables, ws)
       /\ SameHeads(tables, ws) /\ SameCounts(tables, ws) /\ Unowned(Here, tables, symbol)
       BY <1>2, <1>12, <1>13, <1>14
<1>16. QED
       BY <1>1, <1>10, <1>13, <1>15, KnownCounts

(* A parameter that the table has.                                         *)
LEMMA AgainCounts ==
  ASSUME Going, NEW T, Holds(T), Counts, DeclareParameter
  PROVE  CountsNext
<1>1. /\ walk # <<>> /\ Head(walk).do = "middle" /\ At[Here].type = "IDENTIFIER" /\ Declares
      /\ IsDeclared(Here) /\ Known(Here) # {} /\ IsParameter(Here) /\ OwnerInfo.params_inserted
      BY DEF DeclareParameter, Declaring, Declares, Doing
<1>2. PICK d, e, ts, p, sy, ta, x, o :
        /\ d = Done(walk) /\ e = DoneNext /\ ts = tables /\ p = currenttable
        /\ sy = symbol /\ ta = typearray /\ x = Here /\ o = ts[p].tablefor
      OBVIOUS
<1>3. /\ Tidy(tree) /\ IsTie(x, d, e) /\ SInv(T, d, ts, p, sy, ta) /\ GoodTables(ts)
      /\ PInv(d, ts, sy)
      BY <1>1, <1>2, AtIdentifier, AtNode DEF Going, Holds, Counts
<1>4. Counted = ts
      BY <1>1, <1>2 DEF Counted, append_symbol_param
<1>5. AllFull(ts)
      BY <1>3, InvariantFull
<1>6. Kept(tables, ts) /\ SameHeads(tables, ts) /\ SameCounts(tables, ts)
      BY <1>2, <1>5, KeptSame, NothingSame
<1>7. Unowned(x, ts, sy)
      <2>1. ASSUME NEW f \in Declarators, IsFirst(f, ts, sy), AtOrBelow(x, Right(f)) PROVE FALSE
            <3>1. o # NoSymbol /\ ~SymbolAt(ts, o).funcinfo.params_inserted
                  BY <1>2, <1>3, <2>1, ParamOwner, FirstOwner
            <3>2. Owner = o
                  BY <1>2 DEF Owner
            <3>3. QED
                  BY <1>1, <1>2, <3>1, <3>2 DEF OwnerInfo
      <2>2. QED
            BY <2>1 DEF Unowned
<1>8. PICK id : id = <<currenttable, Least(Known(Here))>>
      OBVIOUS
<1>9. Tie(ts, id) /\ Unowned(Here, tables, symbol)
      BY <1>2, <1>4, <1>7, <1>8 DEF DeclareParameter
<1>10. QED
       BY <1>1, <1>3, <1>6, <1>8, <1>9, KnownCounts
-----------------------------------------------------------------------------
(* The tables with a symbol more for x in that of the moment, p, in which  *)
(* n symbols were, and dimensions added to it.                             *)
Grows(cs, p, n, x, ws, us) ==
  /\ Enters(cs, ws, p, NewSymbol(x)) /\ Len(cs[p].symbols) = n /\ n \in Nat
  /\ us = add_array_dimensions(ws, <<p, n + 1>>, x) /\ GoodTables(ws) /\ AllFull(ws)

(* The step declares a new name so.                                        *)
LEMMA NewGrows ==
  ASSUME Going, NEW T, Holds(T), DeclareNew, NEW n, n = Len(tables[currenttable].symbols),
         NEW us, us = tables'
  PROVE  /\ \E ws : Grows(Counted, currenttable, n, Here, ws, us)
         /\ Kept(tables, Counted) /\ GoodTables(Counted)
         /\ symbol' = Put(symbol, Here, <<currenttable, n + 1>>)
<1>1. /\ walk # <<>> /\ Head(walk).do = "middle" /\ At[Here].type = "IDENTIFIER" /\ Declares
      /\ IsDeclared(Here)
      BY DEF DeclareNew, Declaring, Declares, Doing
<1>2. PICK d, e, ts, p, sy, ta, x, cs, id, r :
        /\ d = Done(walk) /\ e = DoneNext /\ ts = tables /\ p = currenttable
        /\ sy = symbol /\ ta = typearray /\ x = Here
        /\ cs = Counted /\ id = <<p, n + 1>> /\ r = NewSymbol(x)
      OBVIOUS
<1>3. /\ Tidy(tree) /\ IsTie(x, d, e) /\ SInv(T, d, ts, p, sy, ta) /\ GoodTables(ts) /\ StateOK
      /\ IsDeclared(x) /\ BitsDone(d, ta)
      <2>1. /\ Tidy(tree) /\ IsTie(x, d, e) /\ SInv(T, d, ts, p, sy, ta) /\ GoodTables(ts) /\ StateOK
            /\ IsDeclared(x)
            BY <1>1, <1>2, AtIdentifier, AtNode DEF Going, Holds
      <2>2. QED
            BY <2>1 DEF SInv
<1>4. p \in DOMAIN ts /\ AllFull(ts)
      BY <1>3, InvariantFull
<1>5. Kept(ts, cs) /\ GoodTables(cs) /\ DOMAIN cs = DOMAIN ts
      BY <1>1, <1>2, <1>3, <1>4, CountedKept, CountedTables
<1>6. PICK old, syms, ws : /\ old = cs[p].symbols /\ syms = Append(old, r)
                           /\ ws = WithSymbols(cs, p, syms)
      OBVIOUS
<1>7. GoodSymbols(old) /\ IsTable(cs[p])
      BY <1>4, <1>5, <1>6 DEF GoodTables, IsTable
<1>8. IsNewSymbol(x, r)
      BY <1>2, <1>3, NewSymbolFacts
<1>9. IsSymbol(r)
      <2>1. "dims" \in DOMAIN r /\ r.dims = <<>>
            BY <1>2 DEF NewSymbol
      <2>2. <<>> \in Seq(Numbers)
            BY EmptySeq
      <2>3. QED
            BY <2>1, <2>2 DEF IsSymbol
<1>10. GoodSymbols(syms) /\ 1..Len(old) \subseteq 1..Len(syms)
       BY <1>6, <1>7, <1>9, SymbolAdded
<1>11. GoodTables(ws)
       <2>1. 1..Len(cs[p].symbols) \subseteq 1..Len(syms)
             BY <1>6, <1>10
       <2>2. QED
             BY <1>4, <1>5, <1>6, <1>10, <2>1, SymbolsPut
<1>12. Enters(cs, ws, p, r)
       <2>1. /\ DOMAIN ws = DOMAIN cs /\ \A q \in DOMAIN cs : q # p => ws[q] = cs[q]
             /\ ws[p] = [cs[p] EXCEPT !.symbols = syms]
             BY <1>4, <1>5, <1>6 DEF WithSymbols
       <2>2. /\ ws[p].name = cs[p].name /\ ws[p].tablefor = cs[p].tablefor
             /\ ws[p].children = cs[p].children /\ ws[p].symbols = syms
             BY <1>7, <2>1 DEF IsTable
       <2>3. QED
             BY <1>4, <1>5, <1>6, <2>1, <2>2 DEF Enters
<1>13. Len(cs[p].symbols) = n /\ n \in Nat
       <2>1. Len(cs[p].symbols) = n
             BY <1>2, <1>4, <1>5 DEF Kept, SameTable
       <2>2. PICK S : old \in Seq(S)
             BY <1>7 DEF GoodSymbols, IsSequence
       <2>3. QED
             BY <1>6, <2>1, <2>2, LenProperties
<1>14. us = add_array_dimensions(ws, id, x) /\ symbol' = Put(symbol, Here, id)
       <2>1. ws = [Counted EXCEPT ![currenttable].symbols = Append(@, NewSymbol(Here))]
             BY <1>2, <1>6 DEF WithSymbols
       <2>2. QED
             BY <1>2, <2>1 DEF DeclareNew, Tie
<1>15. AllFull(ws)
       <2>1. AllFull(cs) /\ IsFull(r)
             BY <1>5, <1>8, KeptFull DEF IsNewSymbol
       <2>2. ASSUME NEW q \in DOMAIN ws, NEW k \in 1..Len(ws[q].symbols) PROVE IsFull(ws[q].symbols[k])
             <3>1. PICK m, j : m = Len(cs[p].symbols) /\ j = <<q, k>>
                   OBVIOUS
             <3>2. Valid(ws, j) /\ SymbolAt(ws, j) = ws[q].symbols[k]
                   BY <3>1 DEF Valid, SymbolAt
             <3>3. CASE k \in 1..Len(cs[q].symbols)
                   <4>1. q \in DOMAIN cs
                         BY <1>12 DEF Enters
                   <4>2. Valid(cs, j) /\ SymbolAt(cs, j) = cs[q].symbols[k]
                         BY <3>1, <3>3, <4>1 DEF Valid, SymbolAt
                   <4>3. /\ SymbolAt(ws, <<p, m + 1>>) = r
                         /\ \A i : Valid(cs, i) => Valid(ws, i) /\ SymbolAt(ws, i) = SymbolAt(cs, i)
                         BY <1>5, <1>12, <3>1, EntersSymbols
                   <4>4. ws[q].symbols[k] = cs[q].symbols[k]
                         BY <3>2, <4>2, <4>3
                   <4>5. QED
                         BY <2>1, <3>3, <4>1, <4>4 DEF AllFull
             <3>4. CASE k \notin 1..Len(cs[q].symbols)
                   <4>1. /\ SymbolAt(ws, <<p, m + 1>>) = r
                         /\ \A i \in DOMAIN ws : \A l \in 1..Len(ws[i].symbols) :
                              l \in 1..Len(cs[i].symbols) \/ (i = p /\ l = m + 1)
                         BY <1>5, <1>12, <3>1, EntersSymbols
                   <4>2. q = p /\ k = m + 1
                         BY <3>4, <4>1
                   <4>3. SymbolAt(ws, j) = r
                         BY <3>1, <4>1, <4>2
                   <4>4. QED
                         BY <2>1, <3>2, <4>3
             <3>5. QED
                   BY <3>3, <3>4
       <2>3. QED
             BY <2>2 DEF AllFull
<1>16. Grows(Counted, currenttable, n, Here, ws, us)
       BY <1>2, <1>11, <1>12, <1>13, <1>14, <1>15 DEF Grows
<1>17. QED
       BY <1>2, <1>5, <1>14, <1>16

(* It counts nothing, and its symbol counts from zero.                     *)
LEMMA GrowsCount ==
  ASSUME NEW cs, GoodTables(cs), NEW p, NEW n, NEW x, NEW ws, NEW us, Grows(cs, p, n, x, ws, us),
         NEW id, id = <<p, n + 1>>
  PROVE  /\ SameHeads(cs, us) /\ SameCounts(cs, us) /\ \A j : Valid(cs, j) => Valid(ws, j)
         /\ Uncounted(SymbolAt(us, id)) /\ Len(us[p].symbols) = n + 1
         /\ SameHeads(cs, ws) /\ SameHeads(ws, us) /\ SameCounts(ws, us) /\ SameCounts(cs, ws)
<1>1. PICK r : r = NewSymbol(x)
      OBVIOUS
<1>2. /\ Enters(cs, ws, p, r) /\ Len(cs[p].symbols) = n /\ n \in Nat
      /\ us = add_array_dimensions(ws, id, x) /\ GoodTables(ws) /\ AllFull(ws)
      BY <1>1 DEF Grows
<1>3. /\ Valid(ws, id) /\ SymbolAt(ws, id) = r /\ \A j : Valid(cs, j) => Valid(ws, j)
      /\ Len(ws[p].symbols) = n + 1
      <2>1. PICK m : m = Len(cs[p].symbols)
            OBVIOUS
      <2>2. Enters(cs, ws, p, r)
            BY <1>2
      <2>3. /\ Valid(ws, <<p, m + 1>>) /\ SymbolAt(ws, <<p, m + 1>>) = r
            /\ \A j : Valid(cs, j) => Valid(ws, j) /\ SymbolAt(ws, j) = SymbolAt(cs, j)
            BY <2>1, <2>2, EntersSymbols
      <2>4. /\ Len(ws[p].symbols) = m + 1
            /\ Valid(ws, <<p, m + 1>>) /\ SymbolAt(ws, <<p, m + 1>>) = r
            BY <2>1, <2>2, EntersSymbols
      <2>5. m = n
            BY <1>2, <2>1
      <2>6. QED
            BY <2>3, <2>4, <2>5
<1>4. IsPair(id)
      BY DEF IsPair
<1>5. SameHeads(cs, ws) /\ SameCounts(cs, ws)
      BY <1>2, EntersCount
<1>6. SameHeads(ws, us) /\ SameCounts(ws, us)
      BY <1>2, <1>3, <1>4, DimensionsCount
<1>7. SameHeads(cs, us) /\ SameCounts(cs, us)
      BY <1>3, <1>5, <1>6, CountsTwice
<1>8. Uncounted(SymbolAt(us, id))
      <2>1. SameCount(r, SymbolAt(us, id))
            BY <1>3, <1>6 DEF SameCounts
      <2>2. Uncounted(r)
            BY <1>1 DEF NewSymbol, NoFuncinfo, Uncounted
      <2>3. QED
            BY <2>1, <2>2 DEF SameCount, Uncounted
<1>9. Len(us[p].symbols) = n + 1
      <2>1. Kept(ws, us)
            BY <1>2, <1>3, DimensionsKept
      <2>2. p \in DOMAIN ws
            BY <1>2 DEF Enters
      <2>3. QED
            BY <1>3, <2>1, <2>2 DEF Kept, SameTable
<1>10. QED
       BY <1>3, <1>5, <1>6, <1>7, <1>8, <1>9

(* A new name.                                                             *)
LEMMA NewCounts ==
  ASSUME Going, NEW T, Holds(T), Counts, DeclareNew
  PROVE  CountsNext
<1>1. /\ walk # <<>> /\ Head(walk).do = "middle" /\ At[Here].type = "IDENTIFIER" /\ Declares
      /\ IsDeclared(Here)
      BY DEF DeclareNew, Declaring, Declares, Doing
<1>2. PICK d, e, ts, p, sy, ta, x, us, sz, cs, n, id, o :
        /\ d = Done(walk) /\ e = DoneNext /\ ts = tables /\ p = currenttable
        /\ sy = symbol /\ ta = typearray /\ x = Here /\ us = tables' /\ sz = symbol'
        /\ cs = Counted /\ n = Len(tables[currenttable].symbols) /\ id = <<p, n + 1>>
        /\ o = ts[p].tablefor
      OBVIOUS
<1>3. /\ Tidy(tree) /\ IsTie(x, d, e) /\ SInv(T, d, ts, p, sy, ta) /\ GoodTables(ts) /\ StateOK
      /\ IsDeclared(x) /\ PInv(d, ts, sy)
      BY <1>1, <1>2, AtIdentifier, AtNode DEF Going, Holds, Counts
<1>4. PICK ws : Grows(cs, p, n, x, ws, us)
      BY <1>2, NewGrows
<1>5. Kept(ts, cs) /\ GoodTables(cs) /\ sz = Put(sy, x, id)
      BY <1>2, NewGrows
<1>6. /\ SameHeads(cs, us) /\ SameCounts(cs, us) /\ \A j : Valid(cs, j) => Valid(ws, j)
      /\ Uncounted(SymbolAt(us, id)) /\ Len(us[p].symbols) = n + 1
      /\ SameHeads(cs, ws) /\ SameHeads(ws, us) /\ SameCounts(ws, us) /\ SameCounts(cs, ws)
      BY <1>2, <1>4, <1>5, GrowsCount
<1>7. TiedTo(sy, sz, x, id)
      BY <1>3, <1>5, TiedRest
<1>8. ASSUME cs = ts, Unowned(x, ts, sy) PROVE PInv(e, us, sz)
      <2>1. SameHeads(ts, us) /\ SameCounts(ts, us)
            BY <1>6, <1>8
      <2>2. NodeOf(us, id) = x => Uncounted(SymbolAt(us, id))
            BY <1>6
      <2>3. QED
            BY <1>3, <1>7, <1>8, <2>1, <2>2, IdentifierCounts DEF Unowned
<1>9. ASSUME ~IsParameter(x) PROVE PInv(e, us, sz)
      <2>1. cs = ts
            BY <1>2, <1>9 DEF Counted
      <2>2. Unowned(x, ts, sy)
            BY <1>3, <1>9, NameUnowned DEF IsTie
      <2>3. QED
            BY <1>8, <2>1, <2>2
<1>10. ASSUME IsParameter(x) PROVE PInv(e, us, sz)
      <2>1. PICK h \in Declarators : AtOrBelow(x, Right(h))
            BY <1>3, <1>10, ParameterFacts DEF IsTie
      <2>2. /\ \E q \in Params(h) : x = h \o q
            /\ o = sy[Left(h)] /\ o # NoSymbol /\ Valid(ts, o) /\ IsPair(o) /\ Left(h) \in Decl(sy)
            /\ \E k \in 1..ts[<<>>].children : p = <<k>>
            <3>1. o = ts[p].tablefor
                  BY <1>2
            <3>2. QED
                  BY ONLY <1>3, <2>1, <3>1, ParamOwner
      <2>3. Owner = o /\ OwnerInfo = SymbolAt(ts, o).funcinfo
            <3>1. Owner = o
                  BY <1>2 DEF Owner
            <3>2. QED
                  BY <1>2, <2>2, <3>1 DEF OwnerInfo
      <2>4. cs = append_symbol_param(ts)
            BY <1>2, <1>10 DEF Counted
      <2>5. CASE ~IsFirst(h, ts, sy)
            <3>1. SymbolAt(ts, o).funcinfo.params_inserted /\ Unowned(x, ts, sy)
                  BY <1>2, <1>3, <2>1, <2>5, LaterOwner
            <3>2. cs = ts
                  BY <2>3, <2>4, <3>1 DEF append_symbol_param
            <3>3. QED
                  BY <1>8, <3>1, <3>2
      <2>6. CASE IsFirst(h, ts, sy)
            <3>1. ~SymbolAt(ts, o).funcinfo.params_inserted
                  BY <1>2, <1>3, <2>1, <2>6, FirstOwner
            <3>2. AllFull(ts)
                  BY <1>3, InvariantFull
            <3>3. CountsIn(ts, cs, o) /\ SameHeads(ts, cs)
                  BY <1>3, <2>2, <2>3, <2>4, <3>1, <3>2, OwnerCounts
            <3>4. \A j : Valid(ts, j) => Valid(cs, j)
                  BY <1>5, KeptSymbol
            <3>5. SameHeads(ts, us) /\ CountsIn(ts, us, o)
                  BY <1>6, <2>2, <3>3, <3>4, CountsTwice
            <3>6. PICK k \in 1..ts[<<>>].children : p = <<k>>
                  BY <2>2
            <3>7. PICK q \in Params(h) : IsAt(x, h, q)
                  BY <2>2 DEF IsAt
            <3>8. /\ ts[<<k>>].tablefor = o /\ Len(ts[<<k>>].symbols) = n
                  /\ Len(us[<<k>>].symbols) = n + 1 /\ id = <<<<k>>, n + 1>> /\ sy[Left(h)] = o
                  BY <1>2, <1>6, <2>2, <3>6
            <3>9. QED
                  BY <1>3, <1>7, <2>6, <3>5, <3>7, <3>8, ParameterCounts
      <2>7. QED
            BY <2>5, <2>6
<1>11. PInv(e, us, sz)
       BY <1>9, <1>10
<1>12. QED
       BY <1>2, <1>11 DEF CountsNext
-----------------------------------------------------------------------------
(* The counts at all times.                                                *)

(* Each step that prints no error keeps the counts.                        *)
LEMMA StepsCount ==
  ASSUME Going, NEW T, Holds(T), Counts, Next, errors = {}, errors' = {}, ~crashed'
  PROVE  CountsNext
<1>1. CASE \/ EnterNull \/ EnterNode \/ SetType \/ CountPointer \/ MiddleOther
           \/ LeaveDeclaration \/ LeavePointer \/ LeaveOther \/ LeaveBlock
      BY <1>1, IdleSteps
<1>2. CASE EnterBlock
      BY <1>2, BlockCounts
<1>3. CASE OpenFunction
      BY <1>3, FunctionCounts
<1>4. CASE CloseFunction
      BY <1>4, EndCounts
<1>5. CASE DeclareNew
      BY <1>5, NewCounts
<1>6. CASE DeclareDefinition
      BY <1>6, DefinitionCounts
<1>7. CASE DeclareParameter
      BY <1>7, AgainCounts
<1>8. CASE Use
      BY <1>8, UseCounts
<1>9. CASE Redeclare
      BY <1>9 DEF Redeclare
<1>10. CASE NowhereCrash \/ DeclareCrash \/ DimensionCrash \/ OpenCrash
       BY <1>10 DEF NowhereCrash, DeclareCrash, DimensionCrash, OpenCrash, Crash
<1>11. QED
       BY <1>1, <1>2, <1>3, <1>4, <1>5, <1>6, <1>7, <1>8, <1>9, <1>10 DEF Next

(* What is counted at the next state is counted in the values that the     *)
(* variables get.                                                          *)
LEMMA StillCounted ==
  ASSUME tree' = tree
  PROVE  Counts' <=> PInv(Done(walk'), tables', symbol')
<1>1. (Done(walk))' = Done(walk')
      BY StillTree DEF Done
<1>2. OneTable(tables)' <=> OneTable(tables')
      BY DEF OneTable
<1>3. UsedTables(Done(walk), tables)' <=> UsedTables(Done(walk'), tables')
      BY <1>1, StillTree DEF UsedTables
<1>4. ASSUME NEW g PROVE Params(g)' = Params(g)
      BY StillTree DEF Params, IsParameter, Below, Nearest
<1>5. ASSUME NEW g PROVE Reached(g, Done(walk))' = Reached(g, Done(walk'))
      BY <1>1, <1>4 DEF Reached
<1>6. ASSUME NEW g
      PROVE  CountsFor(g, Done(walk), tables, symbol)' <=> CountsFor(g, Done(walk'), tables', symbol')
      BY <1>1, <1>4, <1>5 DEF CountsFor, Sized, Ranked, Fits
<1>7. AllCounted(Done(walk), tables, symbol)' <=> AllCounted(Done(walk'), tables', symbol')
      BY <1>6, StillTree DEF AllCounted, IsFirst
<1>8. QED
      BY <1>2, <1>3, <1>7 DEF Counts, PInv

(* The invariant: while there is no error, what has been counted is right. *)
CountInv == Tidy(tree) => (errors = {} /\ ~crashed => Counts)

(* No step breaks it.                                                      *)
LEMMA NextCount == SymInv /\ CountInv /\ [Next]_vars => CountInv'
<1> SUFFICES ASSUME SymInv, CountInv, [Next]_vars, Tidy(tree)', (errors = {} /\ ~crashed)' PROVE Counts'
    BY DEF CountInv
<1>1. tree' = tree
      BY StepsKeep DEF vars
<1>2. Tidy(tree)
      BY <1>1
<1>3. StateOK /\ Linked(walk) /\ InOrder /\ Declarable(tree) /\ Going
      BY <1>2, TidyRoot DEF SymInv, Going
<1>4. CASE UNCHANGED vars
      <2>1. /\ walk' = walk /\ tables' = tables /\ symbol' = symbol
            /\ errors' = errors /\ crashed' = crashed
            BY <1>4 DEF vars, types
      <2>2. Counts
            BY <1>2, <2>1 DEF CountInv
      <2>3. PInv(Done(walk'), tables', symbol')
            BY <2>1, <2>2 DEF Counts
      <2>4. QED
            BY <1>1, <2>3, StillCounted
<1>5. CASE Next
      <2>1. ~crashed' => walk # <<>> /\ crashed' = crashed /\ Done(walk') = DoneNext
            BY <1>3, <1>5, StillLinked
      <2>2. errors = {} /\ errors' = {} /\ ~crashed /\ ~crashed'
            BY <1>5, <2>1, StepsKeep
      <2>3. Counts
            BY <1>2, <2>2 DEF CountInv
      <2>4. PICK T : Holds(T)
            BY <1>3, <2>2 DEF InOrder
      <2>5. CountsNext
            BY <1>3, <1>5, <2>2, <2>3, <2>4, StepsCount
      <2>6. PInv(Done(walk'), tables', symbol')
            BY <2>1, <2>2, <2>5 DEF CountsNext
      <2>7. QED
            BY <1>1, <2>6, StillCounted
<1>6. QED
      BY <1>4, <1>5

(* At the start there is nothing to count.                                 *)
LEMMA InitCount == Init => CountInv
<1> SUFFICES ASSUME Init PROVE Counts
    BY DEF CountInv
<1>1. PICK ts, sy, t : ts = tables /\ sy = symbol /\ t = NewTable("file scope", NoSymbol)
      OBVIOUS
<1>2. ts = [q \in {<<>>} |-> t] /\ sy = [n \in {} |-> NoSymbol]
      BY <1>1 DEF Init, Start
<1>3. ts[<<>>].children = 0
      <2>1. ts[<<>>] = t /\ t.children = 0
            BY <1>1, <1>2 DEF NewTable
      <2>2. QED
            BY <2>1
<1>4. \A k \in 1..ts[<<>>].children : FALSE
      BY <1>3
<1>5. OneTable(ts)
      BY <1>4 DEF OneTable
<1>6. UsedTables(Done(walk), ts)
      BY <1>4 DEF UsedTables
<1>7. AllCounted(Done(walk), ts, sy)
      BY <1>2 DEF AllCounted, IsFirst
<1>8. QED
      BY <1>1, <1>5, <1>6, <1>7 DEF Counts, PInv

(* So it holds at all times.                                               *)
THEOREM AlwaysCounted == Spec => [](SymInv /\ CountInv)
BY InitSym, NextSym, InitCount, NextCount, PTL DEF Spec
-----------------------------------------------------------------------------
(* The parameters in the tables of an accepted program.                    *)

(* The table of a declarator's part of the program.                        *)
LEMMA PartTable ==
  ASSUME Tidy(tree), NEW T, NEW d, NEW ts, NEW p, NEW sy, NEW ta, SInv(T, d, ts, p, sy, ta), GoodTables(ts),
         NEW h \in Declarators, Region[h] \in Keyed(d)
  PROVE  \E k \in 1..ts[<<>>].children :
            /\ T[Region[h]] = <<k>> /\ ts[<<k>>].tablefor = sy[Left(h)]
            /\ Left(h) \in Decl(sy)
<1>1. PICK s, q : s = Region[h] /\ q = T[s]
      OBVIOUS
<1>2. s \in Functions /\ Header(s) = h
      <2>1. s \in Functions
            BY <1>1 DEF Functions
      <2>2. QED
            BY <1>1, <2>1, FunctionFacts
<1>3. Left(h) \in Decl(sy) /\ ts[q].tablefor = sy[Left(h)]
      BY <1>1, <1>2 DEF SInv, Entered, Owners
<1>4. Len(q) = 1 /\ q \in DOMAIN ts
      BY <1>1, <1>2 DEF SInv, Shape, Mapped
<1>5. q \in Seq(Numbers)
      BY <1>4, TablePath
<1>6. PICK k : k = q[1]
      OBVIOUS
<1>7. k \in Numbers /\ q = <<k>> /\ Append(<<>>, k) = <<k>>
      <2>1. q \in Seq(Numbers) /\ Len(q) = 1 /\ q[1] = k
            BY <1>4, <1>5, <1>6
      <2>2. k \in Numbers /\ q = <<k>>
            BY ONLY <2>1
      <2>3. QED
            BY ONLY <2>2
<1>8. /\ <<>> \in DOMAIN ts /\ ts[<<>>].children \in Nat
      /\ Append(<<>>, k) \in DOMAIN ts <=> k <= ts[<<>>].children
      <2>1. /\ <<>> \in DOMAIN ts /\ \A r \in DOMAIN ts : ts[r].children \in Nat
            /\ \A r \in DOMAIN ts : \A j \in Numbers : Append(r, j) \in DOMAIN ts <=> j <= ts[r].children
            BY DEF GoodTables, IsFamily
      <2>2. QED
            BY <1>7, <2>1
<1>9. k \in 1..ts[<<>>].children
      <2>1. PICK c : c = ts[<<>>].children
            OBVIOUS
      <2>2. c \in Nat /\ k <= c /\ k \in Nat /\ k # 0
            BY <1>4, <1>7, <1>8, <2>1 DEF Numbers
      <2>3. k \in 1..c
            BY <2>2
      <2>4. QED
            BY <2>1, <2>3
<1>10. QED
       BY <1>1, <1>3, <1>7, <1>9

(* The table k is the one with the name of f.                              *)
HasName(ts, k, f) ==
  \A j \in 1..ts[<<>>].children : ts[<<j>>].name = At[f].string_data <=> j = k

(* The table of a function is the only one with its name.                  *)
LEMMA TableByName ==
  ASSUME Tidy(tree), NEW T, NEW d, NEW ts, NEW p, NEW sy, NEW ta, SInv(T, d, ts, p, sy, ta), OneTable(ts),
         NEW h \in Declarators, NEW f, f = Left(h), f \in Decl(sy),
         NEW k \in 1..ts[<<>>].children, ts[<<k>>].tablefor = sy[f]
  PROVE  HasName(ts, k, f)
<1>1. Scoped(T, d, ts, sy) /\ NamedOnce(ts, sy) /\ Heads(ts) /\ T[<<>>] = <<>>
      BY DEF SInv, Entered, Shape, Mapped
<1>2. ScopeOf(f) = <<>>
      BY NameFacts
<1>3. PICK id, m : id = sy[f] /\ m = id[2]
      OBVIOUS
<1>4. Valid(ts, id) /\ id = <<<<>>, m>> /\ SymbolAt(ts, id).name = At[f].string_data
      BY <1>1, <1>2, <1>3 DEF Scoped
<1>5. ts[<<k>>].name = At[f].string_data
      BY <1>1, <1>3, <1>4 DEF Heads, IsHead
<1>6. ASSUME NEW j \in 1..ts[<<>>].children, ts[<<j>>].name = At[f].string_data PROVE j = k
      <2>1. PICK ij, n : ij = ts[<<j>>].tablefor /\ n = ij[2]
            OBVIOUS
      <2>2. Valid(ts, ij) /\ ij = <<<<>>, n>> /\ SymbolAt(ts, ij).name = At[f].string_data
            BY <1>1, <1>6, <2>1 DEF Heads, IsHead
      <2>3. <<>> \in DOMAIN ts /\ m \in 1..Len(ts[<<>>].symbols) /\ n \in 1..Len(ts[<<>>].symbols)
            BY <1>3, <1>4, <2>1, <2>2 DEF Valid
      <2>4. n = m
            BY <1>1, <1>4, <2>2, <2>3 DEF NamedOnce
      <2>5. ts[<<j>>].tablefor = ts[<<k>>].tablefor
            BY <1>3, <1>4, <2>1, <2>2, <2>4
      <2>6. QED
            BY <2>5 DEF OneTable
<1>7. QED
      BY <1>5, <1>6 DEF HasName

(* The declarator that made the symbol of a function is the same, and its  *)
(* counts are right.                                                       *)
LEMMA FirstSame ==
  ASSUME Tidy(tree), NEW T, NEW d, NEW ts, NEW p, NEW sy, NEW ta, SInv(T, d, ts, p, sy, ta), PInv(d, ts, sy),
         NEW h \in Declarators, Left(h) \in Decl(sy)
  PROVE  \E g \in Declarators :
            /\ At[g] = At[h] /\ sy[Left(g)] = sy[Left(h)] /\ Left(g) \in Decl(sy)
            /\ CountsFor(g, d, ts, sy)
<1>1. Scoped(T, d, ts, sy) /\ Kinds(ts, sy) /\ AllCounted(d, ts, sy)
      BY DEF SInv, Entered, PInv
<1>2. PICK id, f, e : id = sy[Left(h)] /\ f = Left(h) /\ e = NodeOf(ts, id)
      OBVIOUS
<1>3. Valid(ts, id) /\ id = <<id[1], id[2]>>
      <2>1. Valid(ts, id) /\ id = <<T[ScopeOf(f)], id[2]>>
            BY <1>1, <1>2 DEF Scoped
      <2>2. QED
            BY <2>1
<1>4. e \in Decl(sy) /\ sy[e] = id
      BY <1>2, <1>3, SymbolNode
<1>5. f \in Names /\ Parent(f) = h
      BY <1>2, NameFacts DEF Names
<1>6. e \in Names /\ At[Parent(e)] = At[h]
      BY <1>1, <1>2, <1>5 DEF Kinds, SameKind
<1>7. PICK g \in Declarators : e = Left(g)
      BY <1>6 DEF Names
<1>8. Parent(e) = g
      BY <1>7, NameFacts
<1>9. IsFirst(g, ts, sy)
      BY <1>2, <1>4, <1>7 DEF IsFirst, Decl
<1>10. QED
       BY <1>1, <1>2, <1>4, <1>6, <1>7, <1>8, <1>9 DEF AllCounted

(* Two declarators that have one symbol have one table.                    *)
LEMMA OneForBoth ==
  ASSUME Tidy(tree), NEW T, NEW d, NEW ts, NEW p, NEW sy, NEW ta, SInv(T, d, ts, p, sy, ta), GoodTables(ts),
         OneTable(ts), NEW g \in Declarators, NEW h \in Declarators, sy[Left(g)] = sy[Left(h)],
         Region[g] \in Keyed(d), Region[h] \in Keyed(d)
  PROVE  T[Region[g]] = T[Region[h]]
<1>1. PICK j \in 1..ts[<<>>].children :
        /\ T[Region[g]] = <<j>> /\ ts[<<j>>].tablefor = sy[Left(g)]
        /\ Left(g) \in Decl(sy)
      BY PartTable
<1>2. PICK k \in 1..ts[<<>>].children :
        /\ T[Region[h]] = <<k>> /\ ts[<<k>>].tablefor = sy[Left(h)]
        /\ Left(h) \in Decl(sy)
      BY PartTable
<1>3. j = k
      BY <1>1, <1>2 DEF OneTable
<1>4. QED
      BY <1>1, <1>2, <1>3

(* So the same parameter of both has one symbol.                           *)
LEMMA ParamShared ==
  ASSUME Tidy(tree), NEW T, NEW d, NEW ts, NEW p, NEW sy, NEW ta, SInv(T, d, ts, p, sy, ta),
         NEW x, x \in Decl(sy), NEW y, y \in Decl(sy), T[ScopeOf(x)] = T[ScopeOf(y)],
         At[x] = At[y]
  PROVE  sy[x] = sy[y]
<1>1. Scoped(T, d, ts, sy) /\ NamedOnce(ts, sy)
      BY DEF SInv, Entered
<1>2. PICK q, i, j : q = T[ScopeOf(x)] /\ i = sy[x][2] /\ j = sy[y][2]
      OBVIOUS
<1>3. /\ sy[x] = <<q, i>> /\ Valid(ts, <<q, i>>) /\ SymbolAt(ts, <<q, i>>).name = At[x].string_data
      /\ sy[y] = <<q, j>> /\ Valid(ts, <<q, j>>) /\ SymbolAt(ts, <<q, j>>).name = At[x].string_data
      BY <1>1, <1>2 DEF Scoped
<1>4. q \in DOMAIN ts /\ i \in 1..Len(ts[q].symbols) /\ j \in 1..Len(ts[q].symbols)
      BY <1>3 DEF Valid
<1>5. i = j
      BY <1>1, <1>3, <1>4 DEF NamedOnce
<1>6. QED
      BY <1>3, <1>5
-----------------------------------------------------------------------------
(* The parameters of a definition come first in the table of its function. *)

(* What the property calls the parameters of f are those of its            *)
(* declarator.                                                             *)
LEMMA DefinitionParams ==
  ASSUME Tidy(tree), DOMAIN symbol = Identifiers, NEW f \in Declared,
         Below(f, "FUNCTION_SPEC"), ~IsParameter(f)
  PROVE  \E h \in Declarators :
            f = Left(h) /\ {d \in Declared : IsParameterOf(d, f)} = {h \o q : q \in Params(h)}
<1>1. f \in Identifiers
      BY DEF Declared
<1>2. f \in Names
      BY <1>1, PlainFacts DEF IsPlainId
<1>3. PICK h \in Declarators : f = Left(h)
      BY <1>2 DEF Names
<1>4. Parent(f) = h /\ (Below(f, "FUNCTION_SPEC") <=> Below(h, "FUNCTION_SPEC")) /\ h \in Seq(Steps)
      BY <1>3, NameFacts, DeclaratorFacts
<1>5. ASSUME NEW d \in Declared, IsParameterOf(d, f) PROVE \E q \in Params(h) : d = h \o q
      <2>1. d \in Identifiers /\ IsParameter(d) /\ IsWithin(d, h)
            BY <1>4, <1>5 DEF Declared, IsParameterOf
      <2>2. PICK g \in Declarators : \E q \in Params(g) : d = g \o q
            BY <2>1, ParamOf
      <2>3. PICK q \in Params(g) : d = g \o q
            BY <2>2
      <2>4. d \in Seq(Steps) /\ \A k \in Declarators : AtOrBelow(d, k) => k = g
            BY <2>3, ParamFacts
      <2>5. AtOrBelow(d, h)
            BY <1>4, <2>1, <2>4, BelowOrder
      <2>6. h = g
            BY <2>4, <2>5
      <2>7. QED
            BY <2>3, <2>6
<1>6. ASSUME NEW q \in Params(h), NEW d, d = h \o q PROVE d \in Declared /\ IsParameterOf(d, f)
      <2>1. /\ d \in Identifiers /\ IsParameter(d) /\ IsDeclared(d) /\ IsWithin(d, h) /\ d \in Seq(Steps)
            /\ \A k \in Declarators : AtOrBelow(d, k) => k = h
            BY <1>6, ParamFacts
      <2>2. PICK k \in Declarators : /\ AtOrBelow(d, Right(k))
                                     /\ Below(d, "FUNCTION_SPEC") <=> Below(k, "FUNCTION_SPEC")
            BY <2>1, ParameterFacts
      <2>3. k \in Seq(Steps)
            BY DeclaratorFacts
      <2>4. AtOrBelow(d, k)
            BY <2>1, <2>2, <2>3, BelowChild
      <2>5. k = h
            BY <2>1, <2>4
      <2>6. Below(d, "FUNCTION_SPEC")
            BY <1>4, <2>2, <2>5
      <2>7. QED
            BY <1>4, <2>1, <2>6 DEF Declared, IsParameterOf
<1>7. {d \in Declared : IsParameterOf(d, f)} = {h \o q : q \in Params(h)}
      BY <1>5, <1>6
<1>8. QED
      BY <1>3, <1>7

(* The paths that begin with h and go on like those of P, and those of B   *)
(* that come before d.                                                     *)
From(h, P)    == {h \o q : q \in P}
Earlier(B, d) == {c \in B : Before(c, d)}
RanksAs(B, d, q, P) == 1 + Cardinality(Earlier(B, d)) = Rank(q, P)

(* As many of them come before one as of the ways to them.                 *)
LEMMA JoinedRank ==
  ASSUME NEW h \in Seq(Steps), NEW P \in SUBSET Seq(Steps), IsFiniteSet(P), NEW q \in P,
         NEW B, B = From(h, P), NEW d, d = h \o q
  PROVE  RanksAs(B, d, q, P)
<1>1. PICK A, C : A = {c \in P : Before(c, q)} /\ C = Earlier(B, d)
      OBVIOUS
<1>2. A \subseteq P /\ IsFiniteSet(A) /\ A \in SUBSET Seq(Steps)
      BY <1>1, FS_Subset
<1>3. \A r \in P : Before(h \o r, d) <=> Before(r, q)
      BY JoinedBefore
<1>4. C = {h \o r : r \in A}
      BY <1>1, <1>3 DEF Earlier, From
<1>5. Cardinality(C) = Cardinality(A)
      BY <1>2, <1>4, JoinedCount
<1>6. QED
      BY <1>1, <1>5 DEF Rank, RanksAs

(* All of them are counted when the walk has ended.                        *)
LEMMA AllReached ==
  ASSUME Tidy(tree), NEW g \in Declarators
  PROVE  Reached(g, Visits) = Params(g)
<1>1. ASSUME NEW q \in Params(g) PROVE Middle(g \o q) \in Visits
      BY ParamFacts
<1>2. QED
      BY <1>1 DEF Reached

(* The symbol of a function counts the parameters of each of its           *)
(* declarators, and these have their places.                               *)
LEMMA ParamsCounted ==
  ASSUME Tidy(tree), NEW T, NEW ts, NEW p, NEW sy, NEW ta, SInv(T, Visits, ts, p, sy, ta), GoodTables(ts),
         PInv(Visits, ts, sy), DOMAIN sy = Identifiers, Keyed(Visits) = {<<>>} \cup Keys,
         NEW h \in Declarators, NEW k \in 1..ts[<<>>].children, T[Region[h]] = <<k>>
  PROVE  /\ IsFiniteSet(Params(h)) /\ SymbolAt(ts, sy[Left(h)]).size = Cardinality(Params(h))
         /\ \A q \in Params(h) : sy[h \o q] = <<<<k>>, Rank(q, Params(h))>>
<1>1. Left(h) \in Decl(sy)
      <2>1. Left(h) \in Identifiers /\ IsDeclared(Left(h))
            BY NameFacts
      <2>2. QED
            BY <2>1 DEF Decl
<1>2. PICK g \in Declarators : /\ At[g] = At[h] /\ sy[Left(g)] = sy[Left(h)] /\ Left(g) \in Decl(sy)
                               /\ CountsFor(g, Visits, ts, sy)
      BY <1>1, FirstSame
<1>3. Params(g) = Params(h) /\ \A q \in Params(h) : At[g \o q] = At[h \o q]
      BY <1>2, ParamsSame
<1>4. PICK P : P = Params(h)
      OBVIOUS
<1>5. Reached(g, Visits) = P
      BY <1>3, <1>4, AllReached
<1>6. /\ IsFiniteSet(P) /\ SymbolAt(ts, sy[Left(h)]).size = Cardinality(P)
      /\ \A q \in P : sy[g \o q][2] = Rank(q, P)
      BY <1>2, <1>3, <1>4, <1>5 DEF CountsFor, Sized, Ranked
<1>7. Region[g] \in Keyed(Visits) /\ Region[h] \in Keyed(Visits)
      BY DEF Keys, Functions
<1>8. OneTable(ts)
      BY DEF PInv
<1>9. T[Region[g]] = T[Region[h]]
      BY <1>2, <1>7, <1>8, OneForBoth
<1>10. ASSUME NEW q \in P PROVE sy[h \o q] = <<<<k>>, Rank(q, P)>>
       <2>1. PICK x, y : x = g \o q /\ y = h \o q
             OBVIOUS
       <2>2. x \in Identifiers /\ IsDeclared(x) /\ ScopeOf(x) = Region[g]
             BY <1>3, <1>4, <2>1, ParamFacts
       <2>3. y \in Identifiers /\ IsDeclared(y) /\ ScopeOf(y) = Region[h]
             BY <1>4, <2>1, ParamFacts
       <2>4. x \in Decl(sy) /\ y \in Decl(sy)
             BY <2>2, <2>3 DEF Decl
       <2>5. At[x] = At[y] /\ T[ScopeOf(x)] = T[ScopeOf(y)]
             BY <1>3, <1>4, <1>9, <2>1, <2>2, <2>3
       <2>6. sy[x] = sy[y]
             BY <2>4, <2>5, ParamShared
       <2>7. sy[y] = <<<<k>>, sy[y][2]>>
             BY <2>3, <2>4 DEF SInv, Entered, Scoped
       <2>8. sy[x][2] = Rank(q, P)
             BY <1>6, <2>1
       <2>9. QED
             BY <2>1, <2>6, <2>7, <2>8
<1>11. QED
       BY <1>4, <1>6, <1>10

(* Of a program that was accepted.                                         *)
LEMMA ParametersHold ==
  ASSUME Tidy(tree), SymInv, CountInv
  PROVE  ParametersFirst
<1> SUFFICES ASSUME Accepted, NEW f \in Declared, Below(f, "FUNCTION_SPEC"), ~IsParameter(f),
                    NEW params, params = {d \in Declared : IsParameterOf(d, f)},
                    NEW table, table = <<Least(TablesOf(At[f].string_data))>>
             PROVE  /\ SymbolAt(tables, symbol[f]).size = Cardinality(params)
                    /\ \A d \in params :
                         symbol[d] = <<table, 1 + Cardinality({c \in params : Before(c, d)})>>
    BY DEF ParametersFirst
<1>1. PICK ts, sy, p, ta : ts = tables /\ sy = symbol /\ p = currenttable /\ ta = typearray
      OBVIOUS
<1>2. PICK T : SInv(T, Visits, ts, p, sy, ta)
      BY <1>1, WalkEnded
<1>3. GoodTables(ts) /\ DOMAIN sy = Identifiers /\ Keyed(Visits) = {<<>>} \cup Keys
      BY <1>1, WalkEnded
<1>4. PInv(Visits, ts, sy)
      <2>1. Done(walk) = Visits
            BY DEF Done, Accepted
      <2>2. QED
            BY <1>1, <2>1 DEF CountInv, Counts, Accepted
<1>5. PICK h \in Declarators : f = Left(h) /\ params = {h \o q : q \in Params(h)}
      BY <1>1, <1>3, DefinitionParams
<1>6. Region[h] \in Keyed(Visits)
      BY <1>3 DEF Keys, Functions
<1>7. PICK k \in 1..ts[<<>>].children :
        /\ T[Region[h]] = <<k>> /\ ts[<<k>>].tablefor = sy[Left(h)]
        /\ Left(h) \in Decl(sy)
      BY <1>2, <1>3, <1>6, PartTable
<1>8. /\ IsFiniteSet(Params(h)) /\ SymbolAt(ts, sy[Left(h)]).size = Cardinality(Params(h))
      /\ \A q \in Params(h) : sy[h \o q] = <<<<k>>, Rank(q, Params(h))>>
      BY <1>2, <1>3, <1>4, <1>7, ParamsCounted
<1>9. PICK P : P = Params(h)
      OBVIOUS
<1>10. P \in SUBSET Seq(Steps) /\ h \in Seq(Steps) /\ params = {h \o q : q \in P} /\ IsFiniteSet(P)
       BY <1>5, <1>8, <1>9, DeclaratorFacts DEF Params
<1>11. Cardinality(params) = Cardinality(P)
       <2>1. IsFiniteSet(params) /\ Cardinality(params) = Cardinality(P)
             BY ONLY <1>10, JoinedCount
       <2>2. QED
             BY <2>1
<1>12. table = <<k>>
       <2>1. OneTable(ts)
             BY <1>4 DEF PInv
       <2>2. \A j \in 1..ts[<<>>].children : ts[<<j>>].name = At[f].string_data <=> j = k
             <3>1. Tidy(tree) /\ f = Left(h) /\ f \in Decl(sy) /\ ts[<<k>>].tablefor = sy[f]
                   BY <1>5, <1>7
             <3>2. HasName(ts, k, f)
                   BY ONLY <1>2, <2>1, <3>1, TableByName
             <3>3. QED
                   BY <3>2 DEF HasName
       <2>3. TablesOf(At[f].string_data) = {k}
             BY <1>1, <2>2 DEF TablesOf
       <2>4. Least({k}) = k
             BY DEF Least
       <2>5. QED
             BY <2>3, <2>4
<1>13. ASSUME NEW d \in params
       PROVE  symbol[d] = <<table, 1 + Cardinality({c \in params : Before(c, d)})>>
       <2>1. PICK q \in P : d = h \o q
             BY <1>10
       <2>2. RanksAs(params, d, q, P)
             <3>1. params = From(h, P)
                   BY <1>10 DEF From
             <3>2. P \in SUBSET Seq(Steps) /\ h \in Seq(Steps) /\ IsFiniteSet(P)
                   BY <1>10
             <3>3. QED
                   BY ONLY <2>1, <3>1, <3>2, JoinedRank
       <2>3. sy[d] = <<<<k>>, Rank(q, P)>>
             BY <1>8, <1>9, <2>1
       <2>4. QED
             BY <1>1, <1>12, <2>2, <2>3 DEF Earlier, RanksAs
<1>14. QED
       BY <1>1, <1>5, <1>8, <1>9, <1>11, <1>13

(***************************************************************************)
(* In a tidy program that is accepted the parameters of each definition    *)
(* are the first symbols of its function's table, in their order, and the  *)
(* function's symbol counts them, however many prototypes and uses came    *)
(* before it (symbol.c:104): emit_function_entry copies each argument to   *)
(* the parameter that it is for.                                           *)
(***************************************************************************)
THEOREM AlwaysParametersFirst == Spec => [](Tidy(tree) => ParametersFirst)
<1>1. SymInv /\ CountInv => (Tidy(tree) => ParametersFirst)
      BY ParametersHold
<1>2. QED
      BY <1>1, AlwaysCounted, PTL
=============================================================================
